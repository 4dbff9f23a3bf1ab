----------------------- MODULE SettlementSharesProofs -----------------------
(* Theorems about SettlementShares: for all prices and any number of agents. *)
EXTENDS SettlementShares, SequenceTheorems, WellFoundedInduction, TLAPS

\* Rounding a quotient to the cent moves it by half a cent at most.
LEMMA RoundMoneyBounds ==
    ASSUME NEW x \in Nat, NEW y \in Nat, y > 0
    PROVE  /\ RoundMoney(x, y) \in Nat
           /\ 2 * (y * RoundMoney(x, y)) <= 2 * x + y
           /\ 2 * x - y < 2 * (y * RoundMoney(x, y))
<1> DEFINE a == 2 * x + y
           b == 2 * y
           r == a \div b
<1>1. a \in Nat /\ b \in Nat /\ b > 0
  OBVIOUS
<1>2. r \in Nat /\ b * r <= a /\ a < b * r + b
  <2> HIDE DEF a, b
  <2>1. r \in Nat
    BY <1>1
  <2>2. a = b * (a \div b) + (a % b) /\ 0 <= a % b /\ a % b < b
    BY <1>1
  <2> QED BY <2>1, <2>2, <1>1
<1>3. b * r = 2 * (y * r)
  <2> HIDE DEF r
  <2> QED BY <1>2
<1> HIDE DEF r
<1>4. r \in Nat /\ y * r \in Int
  BY <1>2
<1>5. 2 * (y * r) <= 2 * x + y /\ 2 * x - y < 2 * (y * r)
  BY <1>2, <1>3, <1>4
<1>6. RoundMoney(x, y) = r
  BY DEF RoundMoney, r
<1> QED BY <1>4, <1>5, <1>6

\* A tenth rounded to the cent, the case that Calculate needs.
LEMMA RoundTenth ==
    ASSUME NEW x \in Nat
    PROVE  RoundMoney(x, 10) \in Nat /\ 20 * RoundMoney(x, 10) <= 2 * x + 10
<1>1. 2 * (10 * RoundMoney(x, 10)) <= 2 * x + 10 /\ RoundMoney(x, 10) \in Nat
  BY RoundMoneyBounds
<1> QED BY <1>1

\* The pool of a premium never exceeds it, although it is rounded.
LEMMA PoolWithinPremium ==
    ASSUME NEW premium \in Nat
    PROVE  CalculateAdditionalPool(premium) \in 0..premium
<1> DEFINE first == Least(premium, Slab1)
           second == TakeSecond(premium - first)
           rest == premium - first - second
           shares == 3 * first + 2 * second + rest
<1>1. first \in Nat /\ second \in Nat /\ rest \in Nat
  BY DEF Least, Slab1, Slab2, TakeSecond
<1>2. shares \in Nat /\ shares <= 3 * premium
  <2>1. first + second + rest = premium
    BY <1>1
  <2> HIDE DEF first, second, rest
  <2> QED BY <1>1, <2>1
<1>3. CalculateAdditionalPool(premium) = RoundMoney(shares, 10)
  BY DEF CalculateAdditionalPool
<1> HIDE DEF shares
<1> QED BY <1>2, <1>3, RoundTenth

-----------------------------------------------------------------------------
\* What Calculate is given, and keeps: prices in order and no negative number.
Accepted ==
    /\ finalPrice \in Nat /\ basePrice \in Nat /\ basePrice <= finalPrice
    /\ winners \in Nat /\ others \in Nat

\* Accepted auctions stay as they are while shares are handed out.
THEOREM AcceptedAlways == Spec => []Accepted
<1>1. Init => Accepted
  BY SharesAssumption DEF Init, Accepted
<1>2. Accepted /\ [Next]_vars => Accepted'
  BY DEF Accepted, Next, AddWinner, AddOther, vars, auction
<1> QED BY <1>1, <1>2, PTL DEF Spec

\* Neither the pool nor the winners' part of it outgrows what it is taken from.
LEMMA PoolsBounded ==
    ASSUME Accepted
    PROVE  /\ AuctionPremium \in Nat /\ finalPrice = basePrice + AuctionPremium
           /\ AdditionalAgentPool \in 0..AuctionPremium
           /\ ReservedWinnerPool \in 0..AdditionalAgentPool
<1>1. AuctionPremium \in Nat /\ finalPrice = basePrice + AuctionPremium
  BY DEF Accepted, AuctionPremium
<1>2. AdditionalAgentPool \in 0..AuctionPremium
  <2>1. CalculateAdditionalPool(AuctionPremium) \in 0..AuctionPremium
    BY <1>1, PoolWithinPremium
  <2> QED BY <1>1, <2>1 DEF AdditionalAgentPool, Least, MaximumAdditionalPool
<1>3. ReservedWinnerPool \in 0..AdditionalAgentPool
  <2>1. 6 * AdditionalAgentPool \in Nat
    BY <1>2
  <2>2. /\ ReservedWinnerPool \in Nat
        /\ 20 * ReservedWinnerPool <= 2 * (6 * AdditionalAgentPool) + 10
    BY <2>1, RoundTenth DEF ReservedWinnerPool
  <2> QED BY <1>2, <2>2
<1> QED BY <1>1, <1>2, <1>3

\* The pools that are handed out are amounts.
LEMMA PoolsTyped ==
    ASSUME Accepted
    PROVE  {WinningAgentBaseShare, WinningAgentClosingShare, ParticipationPool} \subseteq Nat
BY PoolsBounded DEF Accepted, WinningAgentBaseShare, WinningAgentClosingShare,
                    ParticipationPool

\* The agents of an accepted auction never get more than it brought: the share that
\* Calculate leaves to the company is not negative, for all prices.
THEOREM CompanyShareNotNegative == Spec => []CompanyNeverPays
<1>1. Accepted => CompanyNeverPays
  <2> SUFFICES ASSUME Accepted PROVE CompanyShare >= 0
    BY DEF CompanyNeverPays
  <2>1. /\ WinningAgentBaseShare \in 0..basePrice
        /\ WinningAgentClosingShare \in 0..ReservedWinnerPool
        /\ ParticipationPool \in 0..(AdditionalAgentPool - ReservedWinnerPool)
    BY PoolsBounded DEF Accepted, WinningAgentBaseShare, WinningAgentClosingShare,
                        ParticipationPool
  <2> QED BY <2>1, PoolsBounded DEF CompanyShare, Accepted
<1> QED BY <1>1, AcceptedAlways, PTL

-----------------------------------------------------------------------------
(* The loops of BuildSettlementRecordsAsync *)

\* What the last of number agents gets when the others get the rounded share.
LastShare(pool, number) == pool - (number - 1) * RoundMoney(pool, number)

\* The last agent's share is within half a cent per agent of everybody else's.
LEMMA LastShareNear ==
    ASSUME NEW pool \in Nat, NEW number \in Nat, number > 0,
           NEW x \in {RoundMoney(pool, number), LastShare(pool, number)},
           NEW y \in {RoundMoney(pool, number), LastShare(pool, number)}
    PROVE  2 * Distance(x, y) <= number
<1> DEFINE r == RoundMoney(pool, number)
           total == number * r
<1>1. r \in Nat /\ 2 * total <= 2 * pool + number /\ 2 * pool - number < 2 * total
  BY RoundMoneyBounds
<1>2. total \in Int /\ LastShare(pool, number) = pool - total + r
  <2> HIDE DEF r
  <2> QED BY <1>1 DEF LastShare, r
<1>3. x \in {r, pool - total + r} /\ y \in {r, pool - total + r}
  BY <1>2
<1> HIDE DEF r, total
<1> QED BY <1>1, <1>2, <1>3 DEF Distance

\* After k rounds the rounded shares are k times as much as one of them.
LEMMA NextMultiple ==
    ASSUME NEW k \in Nat, NEW r \in Int
    PROVE  k * r \in Int /\ (k + 1) * r = k * r + r
OBVIOUS

\* The shares of one of number agents out of a pool.
SharesOf(pool, number) == {RoundMoney(pool, number), LastShare(pool, number)}

FairRecord(x) ==
    IF x.isWinner
    THEN /\ winners > 0
         /\ x.base \in SharesOf(WinningAgentBaseShare, winners)
         /\ x.premium \in SharesOf(WinningAgentClosingShare, winners)
    ELSE /\ others > 0
         /\ x.base = 0
         /\ x.premium \in SharesOf(ParticipationPool, others)

\* The running totals of the loops before the last agent of a kind.
TotalsOfRounds ==
    LET k == Len(records)
    IN  /\ k < winners
           => /\ allocatedBase = k * RoundMoney(WinningAgentBaseShare, winners)
              /\ allocatedWinnerPremium = k * RoundMoney(WinningAgentClosingShare, winners)
        /\ k <= winners => allocatedParticipation = 0
        /\ winners <= k /\ k < winners + others
           => allocatedParticipation = (k - winners) * RoundMoney(ParticipationPool, others)

IInv ==
    /\ Accepted
    /\ TypeOK
    /\ TotalsOfRounds
    /\ \A i \in 1..Len(records) : FairRecord(records[i])

\* The pools depend on the auction only.
LEMMA PoolsFixed ==
    ASSUME UNCHANGED auction
    PROVE  /\ UNCHANGED <<finalPrice, basePrice, winners, others>>
           /\ WinningAgentBaseShare' = WinningAgentBaseShare
           /\ WinningAgentClosingShare' = WinningAgentClosingShare
           /\ ParticipationPool' = ParticipationPool
BY DEF auction, WinningAgentBaseShare, WinningAgentClosingShare, ParticipationPool,
       ReservedWinnerPool, AdditionalAgentPool, AuctionPremium

\* One round of either loop hands out a share of the pool and keeps the running total.
LEMMA ShareOfRound ==
    ASSUME NEW pool \in Nat, NEW number \in Nat, number > 0,
           NEW k \in Nat, k < number,
           NEW allocated, allocated = k * RoundMoney(pool, number)
    PROVE  LET share == Share(pool, allocated, number, k = number - 1)
           IN  /\ share \in Int
               /\ share \in SharesOf(pool, number)
               /\ allocated + share \in Int
               /\ k + 1 < number
                  => allocated + share = (k + 1) * RoundMoney(pool, number)
<1> DEFINE r == RoundMoney(pool, number)
<1>1. r \in Nat
  BY RoundMoneyBounds
<1> HIDE DEF r
<1>2. k * r \in Int /\ (k + 1) * r = k * r + r /\ (number - 1) * r \in Int
  BY <1>1, NextMultiple
<1>3. CASE k = number - 1
  <2>1. Share(pool, allocated, number, k = number - 1) = LastShare(pool, number)
    BY <1>3 DEF Share, LastShare
  <2>2. LastShare(pool, number) \in Int /\ allocated \in Int
    BY <1>2 DEF LastShare, r
  <2> QED BY <2>1, <2>2, <1>3 DEF SharesOf
<1>4. CASE k # number - 1
  <2>1. Share(pool, allocated, number, k = number - 1) = r
    BY <1>4 DEF Share, r
  <2> QED BY <2>1, <1>1, <1>2 DEF SharesOf, r
<1> QED BY <1>3, <1>4

\* A record appended by a loop leaves the earlier ones as they were.
LEMMA AppendKeeps ==
    ASSUME NEW S, NEW s \in Seq(S), NEW x \in S
    PROVE  /\ Append(s, x) \in Seq(S)
           /\ Len(Append(s, x)) = Len(s) + 1
           /\ \A i \in 1..Len(Append(s, x)) :
                 Append(s, x)[i] = IF i = Len(s) + 1 THEN x ELSE s[i]
           /\ \A i \in 1..Len(Append(s, x)) : i # Len(s) + 1 => i \in 1..Len(s)
OBVIOUS

LEMMA AddWinnerKeeps ==
    ASSUME IInv, AddWinner
    PROVE  IInv'
<1> DEFINE k == Len(records)
           base == Share(WinningAgentBaseShare, allocatedBase, winners, k = winners - 1)
           premium == Share(WinningAgentClosingShare, allocatedWinnerPremium, winners,
                            k = winners - 1)
           x == [isWinner |-> TRUE, base |-> base, premium |-> premium]
           Records == [isWinner: BOOLEAN, base: Int, premium: Int]
<1>1. /\ k \in Nat /\ winners \in Nat /\ others \in Nat /\ k < winners
      /\ records \in Seq(Records)
      /\ {WinningAgentBaseShare, WinningAgentClosingShare, ParticipationPool} \subseteq Nat
  BY PoolsTyped DEF IInv, TypeOK, Accepted, AddWinner
<1>2. /\ records' = Append(records, x)
      /\ allocatedBase' = allocatedBase + base
      /\ allocatedWinnerPremium' = allocatedWinnerPremium + premium
      /\ UNCHANGED auction /\ UNCHANGED allocatedParticipation
  BY DEF AddWinner
<1>3. /\ base \in Int /\ base \in SharesOf(WinningAgentBaseShare, winners)
      /\ allocatedBase + base \in Int
      /\ k + 1 < winners
         => allocatedBase + base = (k + 1) * RoundMoney(WinningAgentBaseShare, winners)
  <2>1. allocatedBase = k * RoundMoney(WinningAgentBaseShare, winners)
    BY <1>1 DEF IInv, TotalsOfRounds
  <2>2. WinningAgentBaseShare \in Nat /\ winners > 0
    BY <1>1
  <2> HIDE DEF k
  <2> QED BY <1>1, <2>1, <2>2, ShareOfRound
<1>4. /\ premium \in Int /\ premium \in SharesOf(WinningAgentClosingShare, winners)
      /\ allocatedWinnerPremium + premium \in Int
      /\ k + 1 < winners
         => allocatedWinnerPremium + premium
              = (k + 1) * RoundMoney(WinningAgentClosingShare, winners)
  <2>1. allocatedWinnerPremium = k * RoundMoney(WinningAgentClosingShare, winners)
    BY <1>1 DEF IInv, TotalsOfRounds
  <2>2. WinningAgentClosingShare \in Nat /\ winners > 0
    BY <1>1
  <2> HIDE DEF k
  <2> QED BY <1>1, <2>1, <2>2, ShareOfRound
<1> HIDE DEF k, base, premium, Records
<1>5. x \in Records
  BY <1>3, <1>4 DEF Records
<1>6. /\ records' \in Seq(Records) /\ Len(records') = k + 1
      /\ \A i \in 1..Len(records') : records'[i] = IF i = k + 1 THEN x ELSE records[i]
      /\ \A i \in 1..Len(records') : i # k + 1 => i \in 1..Len(records)
  <2> HIDE DEF x
  <2> QED BY <1>1, <1>2, <1>5, AppendKeeps DEF k
<1>7. Accepted' /\ TypeOK'
  BY <1>1, <1>2, <1>3, <1>4, <1>6 DEF IInv, Accepted, TypeOK, auction, Records
<1>8. TotalsOfRounds'
  <2>1. k + 1 <= winners => allocatedParticipation = 0
    BY <1>1 DEF IInv, TotalsOfRounds, k
  <2>2. (k + 1) - winners = 0 \/ k + 1 < winners
    BY <1>1
  <2>3. 0 * RoundMoney(ParticipationPool, others) = 0 \/ others = 0
    <3>1. CASE others > 0
      <4>1. RoundMoney(ParticipationPool, others) \in Nat
        BY <1>1, <3>1, RoundMoneyBounds
      <4> QED BY <4>1
    <3> QED BY <3>1, <1>1
  <2> QED BY <1>1, <1>2, <1>3, <1>4, <1>6, <2>1, <2>2, <2>3, PoolsFixed
          DEF TotalsOfRounds
<1>9. ASSUME NEW i \in 1..Len(records') PROVE FairRecord(records[i])'
  <2>1. FairRecord(x)
    BY <1>1, <1>3, <1>4 DEF FairRecord
  <2>2. FairRecord(records'[i])
    BY <1>6, <2>1 DEF IInv
  <2> QED BY <2>2, <1>2, PoolsFixed DEF FairRecord
<1> QED BY <1>7, <1>8, <1>9 DEF IInv

LEMMA AddOtherKeeps ==
    ASSUME IInv, AddOther
    PROVE  IInv'
<1> DEFINE k == Len(records)
           j == k - winners
           share == Share(ParticipationPool, allocatedParticipation, others, j = others - 1)
           x == [isWinner |-> FALSE, base |-> 0, premium |-> share]
           Records == [isWinner: BOOLEAN, base: Int, premium: Int]
<1>1. /\ k \in Nat /\ winners \in Nat /\ others \in Nat
      /\ winners <= k /\ k < winners + others
      /\ records \in Seq(Records)
      /\ ParticipationPool \in Nat
  BY PoolsTyped DEF IInv, TypeOK, Accepted, AddOther
<1>2. /\ records' = Append(records, x)
      /\ allocatedParticipation' = allocatedParticipation + share
      /\ UNCHANGED <<auction, allocatedBase, allocatedWinnerPremium>>
  <2>1. (k = winners + others - 1) = (j = others - 1)
    BY <1>1
  <2> QED BY <2>1 DEF AddOther
<1>3. /\ share \in Int /\ share \in SharesOf(ParticipationPool, others)
      /\ allocatedParticipation + share \in Int
      /\ j + 1 < others
         => allocatedParticipation + share = (j + 1) * RoundMoney(ParticipationPool, others)
  <2>1. allocatedParticipation = j * RoundMoney(ParticipationPool, others)
    BY <1>1 DEF IInv, TotalsOfRounds
  <2>2. j \in Nat /\ j < others /\ others > 0
    BY <1>1
  <2> HIDE DEF j
  <2> QED BY <1>1, <2>1, <2>2, ShareOfRound
<1> HIDE DEF share, Records
<1>4. x \in Records
  BY <1>3 DEF Records
<1>5. /\ records' \in Seq(Records) /\ Len(records') = k + 1
      /\ \A i \in 1..Len(records') : records'[i] = IF i = k + 1 THEN x ELSE records[i]
      /\ \A i \in 1..Len(records') : i # k + 1 => i \in 1..Len(records)
  <2> HIDE DEF x
  <2> QED BY <1>1, <1>2, <1>4, AppendKeeps
<1>6. Accepted' /\ TypeOK'
  <2> HIDE DEF k, j, x
  <2> QED BY <1>1, <1>2, <1>3, <1>5 DEF IInv, Accepted, TypeOK, auction, Records
<1>7. TotalsOfRounds'
  <2>1. ~(k + 1 <= winners) /\ k + 1 - winners = j + 1
    BY <1>1
  <2>2. k + 1 < winners + others => j + 1 < others
    BY <1>1
  <2> HIDE DEF k, j, x
  <2> QED BY <1>1, <1>2, <1>3, <1>5, <2>1, <2>2, PoolsFixed DEF TotalsOfRounds
<1>8. ASSUME NEW i \in 1..Len(records') PROVE FairRecord(records[i])'
  <2>1. FairRecord(x)
    BY <1>1, <1>3 DEF FairRecord
  <2>2. FairRecord(records'[i])
    BY <1>5, <2>1 DEF IInv
  <2> QED BY <2>2, <1>2, PoolsFixed DEF FairRecord
<1> QED BY <1>6, <1>7, <1>8 DEF IInv

\* What the loops have handed out is typed, and every record is a share of its pool.
THEOREM Inductive == Spec => []IInv
<1>1. Init => IInv
  <2> SUFFICES ASSUME Init PROVE IInv
    OBVIOUS
  <2>1. Accepted /\ TypeOK /\ Len(records) = 0
    BY SharesAssumption DEF Init, Accepted, TypeOK
  <2>2. TotalsOfRounds
    <3>1. winners > 0
          => /\ 0 * RoundMoney(WinningAgentBaseShare, winners) = 0
             /\ 0 * RoundMoney(WinningAgentClosingShare, winners) = 0
      <4>1. ASSUME winners > 0
            PROVE  /\ RoundMoney(WinningAgentBaseShare, winners) \in Nat
                   /\ RoundMoney(WinningAgentClosingShare, winners) \in Nat
        BY <2>1, <4>1, PoolsTyped, RoundMoneyBounds DEF Accepted
      <4> QED BY <4>1
    <3>2. others > 0 => 0 * RoundMoney(ParticipationPool, others) = 0
      <4>1. ASSUME others > 0 PROVE RoundMoney(ParticipationPool, others) \in Nat
        BY <2>1, <4>1, PoolsTyped, RoundMoneyBounds DEF Accepted
      <4> QED BY <4>1
    <3>3. /\ allocatedBase = 0 /\ allocatedWinnerPremium = 0 /\ allocatedParticipation = 0
          /\ winners \in Nat /\ others \in Nat
      BY <2>1 DEF Init, Accepted
    <3>4. winners <= 0 => 0 - winners = 0
      BY <3>3
    <3> QED BY <2>1, <3>1, <3>2, <3>3, <3>4 DEF TotalsOfRounds
  <2> QED BY <2>1, <2>2 DEF IInv
<1>2. IInv /\ [Next]_vars => IInv'
  <2> SUFFICES ASSUME IInv, [Next]_vars PROVE IInv'
    OBVIOUS
  <2>1. CASE AddWinner
    BY <2>1, AddWinnerKeeps
  <2>2. CASE AddOther
    BY <2>2, AddOtherKeeps
  <2>3. CASE UNCHANGED vars
    <3>1. UNCHANGED auction
      BY <2>3 DEF vars, auction
    <3> QED BY <2>3, <3>1, PoolsFixed
            DEF IInv, Accepted, TypeOK, TotalsOfRounds, FairRecord, vars
  <2> QED BY <2>1, <2>2, <2>3 DEF Next
<1> QED BY <1>1, <1>2, PTL DEF Spec

\* The records of a settlement keep their type, and there is one for each agent at most.
THEOREM TypeCorrect == Spec => []TypeOK
<1>1. IInv => TypeOK
  BY DEF IInv
<1> QED BY <1>1, Inductive, PTL

\* For all prices and any number of agents, the payouts of two winners, or of two other
\* agents, differ by half a cent per agent at most: the last one who takes what the
\* rounding of BuildSettlementRecordsAsync leaves is neither favoured nor cheated.
THEOREM RoundingStaysBounded == Spec => []RoundingBounded
<1>1. IInv => RoundingBounded
  <2> SUFFICES ASSUME IInv,
                      NEW i \in 1..Len(records), NEW j \in 1..Len(records),
                      records[i].isWinner = records[j].isWinner
               PROVE  LET number == IF records[i].isWinner THEN winners ELSE others
                      IN  /\ 2 * Distance(records[i].base, records[j].base) <= number
                          /\ 2 * Distance(records[i].premium, records[j].premium) <= number
    BY DEF RoundingBounded
  <2>1. /\ {WinningAgentBaseShare, WinningAgentClosingShare, ParticipationPool} \subseteq Nat
        /\ winners \in Nat /\ others \in Nat
    BY PoolsTyped DEF IInv, Accepted
  <2>2. FairRecord(records[i]) /\ FairRecord(records[j])
    BY DEF IInv
  <2>3. CASE records[i].isWinner
    BY <2>1, <2>2, <2>3, LastShareNear DEF FairRecord, SharesOf
  <2>4. CASE ~records[i].isWinner
    <3>1. records[i].base = 0 /\ records[j].base = 0 /\ others > 0
      BY <2>2, <2>4 DEF FairRecord
    <3>2. 2 * Distance(records[i].premium, records[j].premium) <= others
      BY <2>1, <2>2, <2>4, LastShareNear DEF FairRecord, SharesOf
    <3> QED BY <2>1, <2>4, <3>1, <3>2 DEF Distance
  <2> QED BY <2>3, <2>4
<1> QED BY <1>1, Inductive, PTL

-----------------------------------------------------------------------------
(* The marginal rates *)

\* Two tenths of a cent at a time round as one fifth does.
LEMMA FifthIsTenth ==
    ASSUME NEW a \in Nat, NEW x \in Nat
    PROVE  RoundMoney(10 * a + 2 * x, 10) = a + RoundMoney(x, 5)
<1>1. (2 * (10 * a + 2 * x) + 10) \div 20 = a + (2 * x + 5) \div 10
  OBVIOUS
<1> QED
  BY <1>1 DEF RoundMoney

\* Whole cents do not change how the rest is rounded.
LEMMA TenthShifts ==
    ASSUME NEW a \in Nat, NEW x \in Nat
    PROVE  RoundMoney(10 * a + x, 10) = a + RoundMoney(x, 10)
<1>1. (2 * (10 * a + x) + 10) \div 20 = a + (2 * x + 10) \div 20
  OBVIOUS
<1> QED
  BY <1>1 DEF RoundMoney

\* The pool follows the agreed marginal rates, whatever the prices.
THEOREM PoolFollowsRates == Spec => []PoolAsAgreed
<1>1. ASSUME Accepted
      PROVE  PoolAsAgreed
  <2> DEFINE p == AuctionPremium
  <2>1. p \in Nat
    BY <1>1, PoolsBounded
  <2>2. CASE p <= Slab1
    <3>1. Least(p, Slab1) = p /\ TakeSecond(p - p) = 0
      BY <2>1, <2>2 DEF Least, TakeSecond, Slab1, Slab2
    <3>2. CalculateAdditionalPool(p) = RoundMoney(3 * p, 10)
      BY <2>1, <3>1 DEF CalculateAdditionalPool
    <3>3. RoundMoney(3 * p, 10) \in Nat /\ 20 * RoundMoney(3 * p, 10) <= 2 * (3 * p) + 10
      BY <2>1, RoundTenth
    <3>4. AdditionalAgentPool = RoundMoney(3 * p, 10)
      BY <2>1, <2>2, <3>2, <3>3 DEF AdditionalAgentPool, Least, MaximumAdditionalPool, Slab1
    <3> QED
      BY <2>1, <2>2, <3>4 DEF PoolAsAgreed, Slab1, Slab2
  <2>3. CASE p > Slab1 /\ p <= Slab1 + Slab2
    <3> DEFINE x == p - Slab1
    <3>1. x \in Nat /\ x <= Slab2
      BY <2>1, <2>3 DEF Slab1, Slab2
    <3>2. Least(p, Slab1) = Slab1 /\ TakeSecond(p - Slab1) = x
      BY <2>1, <2>3 DEF Least, TakeSecond, Slab1, Slab2
    <3>3. CalculateAdditionalPool(p) = RoundMoney(10 * 3000000 + 2 * x, 10)
      <4>1. 3 * Slab1 + 2 * x + (p - Slab1 - x) = 10 * 3000000 + 2 * x
        BY <2>1 DEF Slab1
      <4> QED
        BY <3>2, <4>1 DEF CalculateAdditionalPool
    <3>4. CalculateAdditionalPool(p) = 3000000 + RoundMoney(x, 5)
      BY <3>1, <3>3, FifthIsTenth
    <3>5. RoundMoney(x, 5) \in Nat /\ 2 * (5 * RoundMoney(x, 5)) <= 2 * x + 5
      BY <3>1, RoundMoneyBounds
    <3>6. AdditionalAgentPool = 3000000 + RoundMoney(x, 5)
      <4> HIDE DEF x
      <4> QED
        BY <3>1, <3>4, <3>5 DEF AdditionalAgentPool, Least, MaximumAdditionalPool, Slab2
    <3> QED
      BY <2>1, <2>3, <3>6 DEF PoolAsAgreed, Slab1, Slab2
  <2>4. CASE p > Slab1 + Slab2
    <3> DEFINE x == p - Slab1 - Slab2
    <3>1. x \in Nat
      BY <2>1, <2>4 DEF Slab1, Slab2
    <3>2. Least(p, Slab1) = Slab1 /\ TakeSecond(p - Slab1) = Slab2
      BY <2>1, <2>4 DEF Least, TakeSecond, Slab1, Slab2
    <3>3. CalculateAdditionalPool(p) = RoundMoney(10 * 7000000 + x, 10)
      <4>1. 3 * Slab1 + 2 * Slab2 + x = 10 * 7000000 + x
        BY <3>1 DEF Slab1, Slab2
      <4> QED
        BY <3>2, <4>1 DEF CalculateAdditionalPool
    <3>4. CalculateAdditionalPool(p) = 7000000 + RoundMoney(x, 10)
      BY <3>1, <3>3, TenthShifts
    <3>5. AdditionalAgentPool = Least(7000000 + RoundMoney(x, 10), 25000000)
      BY <3>4 DEF AdditionalAgentPool, MaximumAdditionalPool
    <3> QED
      BY <2>1, <2>4, <3>5 DEF PoolAsAgreed, Slab1, Slab2
  <2> QED
    BY <2>1, <2>2, <2>3, <2>4 DEF Slab1, Slab2
<1> QED
  BY <1>1, AcceptedAlways, PTL

-----------------------------------------------------------------------------
(* Sums of sequences of integers as FoldLeft computes them, a recursive    *)
(* function on sets of indices.  Induction, over a set in place of a       *)
(* predicate, is what proves something of it.                              *)

Total(w) == FoldLeft(LAMBDA total, n : total + n, 0, w)

LEMMA Induction ==
    ASSUME NEW T, 0 \in T, \A n \in Nat : n \in T => n + 1 \in T
    PROVE  Nat \subseteq T
<1> DEFINE Less == {x \in Nat \X Nat : x[1] < x[2]}
           Rest == Nat \ T
<1>1. IsWellFoundedOn(Less, Nat)
  BY NatLessThanWellFounded DEF OpToRel
<1>2. ASSUME Rest # {} PROVE FALSE
  <2>1. PICK x \in Rest : \A y \in Rest : ~(<<y, x>> \in Less)
    <3>1. Rest \subseteq Nat
      OBVIOUS
    <3> HIDE DEF Less, Rest
    <3> QED
      BY <1>1, <1>2, <3>1, WFMin
  <2>2. x \in Nat /\ x \notin T /\ x # 0
    BY <2>1
  <2>3. x - 1 \in Nat /\ <<x - 1, x>> \in Less
    BY <2>2
  <2>4. x - 1 \in T
    BY <2>1, <2>3
  <2>5. (x - 1) + 1 = x
    BY <2>2
  <2> QED
    BY <2>2, <2>3, <2>4, <2>5
<1> QED
  BY <1>2

\* g is the sum of the w[i] over each set of indices up to n.
SumsOver(w, n, g) ==
    g = [t \in SUBSET (1..n) |-> IF t = {} THEN 0 ELSE g[t \ {Max(t)}] + w[Max(t)]]

LEMMA LargestIndex ==
    ASSUME NEW n \in Nat, NEW t \in SUBSET (1..n), n \in t
    PROVE  Max(t) = n
<1>1. \E x \in t : \A y \in t : x >= y
  OBVIOUS
<1>2. Max(t) \in t /\ \A y \in t : Max(t) >= y
  BY <1>1, Zenon DEF Max
<1>3. PICK m : m = Max(t)
  OBVIOUS
<1>4. m \in 1..n /\ m >= n
  BY <1>2, <1>3
<1> QED
  BY <1>3, <1>4

LEMMA SumsExist ==
    ASSUME NEW w
    PROVE  \A n \in Nat : \E g : SumsOver(w, n, g)
<1> DEFINE T == {n \in Nat : \E g : SumsOver(w, n, g)}
<1>1. 0 \in T
  <2> DEFINE g == [t \in SUBSET (1..0) |-> 0]
  <2>1. \A t \in SUBSET (1..0) : t = {}
    OBVIOUS
  <2>2. g = [t \in SUBSET (1..0) |-> IF t = {} THEN 0 ELSE g[t \ {Max(t)}] + w[Max(t)]]
    BY <2>1
  <2> QED
    BY <2>2 DEF SumsOver
<1>2. ASSUME NEW n \in Nat, n \in T
      PROVE  n + 1 \in T
  <2>1. PICK g : SumsOver(w, n, g)
    BY <1>2
  <2> DEFINE h == [t \in SUBSET (1..(n + 1)) |->
                      IF n + 1 \in t THEN g[t \ {n + 1}] + w[n + 1] ELSE g[t]]
  <2>2. ASSUME NEW t \in SUBSET (1..(n + 1))
        PROVE  h[t] = IF t = {} THEN 0 ELSE h[t \ {Max(t)}] + w[Max(t)]
    <3>1. CASE n + 1 \in t
      <4>1. Max(t) = n + 1
        BY <3>1, LargestIndex
      <4>2. t \ {n + 1} \in SUBSET (1..(n + 1))
        OBVIOUS
      <4>3. h[t \ {n + 1}] = g[t \ {n + 1}]
        BY <4>2
      <4>4. h[t] = g[t \ {n + 1}] + w[n + 1]
        BY <3>1
      <4> HIDE DEF h
      <4> QED
        BY <3>1, <4>1, <4>3, <4>4
    <3>2. CASE n + 1 \notin t
      <4>1. t \in SUBSET (1..n)
        BY <3>2
      <4>2. \A u \in SUBSET (1..(n + 1)) : n + 1 \notin u => h[u] = g[u]
        OBVIOUS
      <4>3. t \ {Max(t)} \in SUBSET (1..(n + 1)) /\ n + 1 \notin t \ {Max(t)}
        BY <3>2
      <4> HIDE DEF h
      <4>4. h[t] = g[t] /\ h[t \ {Max(t)}] = g[t \ {Max(t)}]
        BY <3>2, <4>2, <4>3
      <4>5. g[t] = IF t = {} THEN 0 ELSE g[t \ {Max(t)}] + w[Max(t)]
        BY <2>1, <4>1 DEF SumsOver
      <4> QED
        BY <4>4, <4>5
    <3> QED
      BY <3>1, <3>2
  <2>3. h = [t \in SUBSET (1..(n + 1)) |-> IF t = {} THEN 0 ELSE h[t \ {Max(t)}] + w[Max(t)]]
    <3>1. h = [t \in SUBSET (1..(n + 1)) |-> h[t]]
      OBVIOUS
    <3> HIDE DEF h
    <3> QED
      BY <2>2, <3>1
  <2>4. SumsOver(w, n + 1, h)
    BY <2>3 DEF SumsOver
  <2> QED
    BY <2>4
<1> HIDE DEF T
<1>3. Nat \subseteq T
  BY <1>1, <1>2, Induction
<1> QED
  BY <1>3 DEF T

LEMMA SumsStep ==
    ASSUME NEW n \in Nat, NEW w, NEW g, SumsOver(w, n, g)
    PROVE  /\ g[1..0] = 0
           /\ \A k \in 1..n : g[1..k] = g[1..(k - 1)] + w[k]
<1>1. ASSUME NEW k \in 1..n
      PROVE  g[1..k] = g[1..(k - 1)] + w[k]
  <2>1. 1..k \in SUBSET (1..n) /\ 1..k # {} /\ (1..k) \ {k} = 1..(k - 1)
    OBVIOUS
  <2>2. Max(1..k) = k
    BY LargestIndex
  <2> QED
    BY <2>1, <2>2 DEF SumsOver
<1>2. g[1..0] = 0
  BY DEF SumsOver
<1> QED
  BY <1>1, <1>2

LEMMA TotalIsSum ==
    ASSUME NEW w, NEW n \in Nat, DOMAIN w = 1..n
    PROVE  \E g : SumsOver(w, n, g) /\ Total(w) = g[1..n]
<1> DEFINE It(g) == g = [t \in SUBSET (1..n) |-> IF t = {} THEN 0 ELSE g[t \ {Max(t)}] + w[Max(t)]]
<1>1. Total(w) = (CHOOSE g : It(g))[1..n]
  BY Zenon DEF Total, FoldLeft, MapThenFoldSet
<1>2. \E g : It(g)
  BY SumsExist DEF SumsOver
<1> QED
  BY <1>1, <1>2, Zenon DEF SumsOver

LEMMA TotalOfEmpty == ASSUME NEW w, DOMAIN w = {} PROVE Total(w) = 0
<1>1. DOMAIN w = 1..0
  OBVIOUS
<1>2. PICK g : SumsOver(w, 0, g) /\ Total(w) = g[1..0]
  BY <1>1, TotalIsSum
<1> QED
  BY <1>2, SumsStep

LEMMA TotalOfAppend ==
    ASSUME NEW S, NEW w \in Seq(S), NEW x \in S
    PROVE  Total(Append(w, x)) = Total(w) + x
<1> DEFINE n == Len(w)
           a == Append(w, x)
<1>1. /\ n \in Nat /\ DOMAIN w = 1..n /\ DOMAIN a = 1..(n + 1)
      /\ a[n + 1] = x /\ \A i \in 1..n : a[i] = w[i]
  OBVIOUS
<1> HIDE DEF n, a
<1>2. PICK g : SumsOver(w, n, g) /\ Total(w) = g[1..n]
  BY <1>1, TotalIsSum
<1>3. n + 1 \in Nat
  BY <1>1
<1>4. PICK h : SumsOver(a, n + 1, h) /\ Total(a) = h[1..(n + 1)]
  BY <1>1, <1>3, TotalIsSum
<1>5. \A k \in 1..n : g[1..k] = g[1..(k - 1)] + w[k]
  BY <1>1, <1>2, SumsStep
<1>6. h[1..0] = 0 /\ \A k \in 1..(n + 1) : h[1..k] = h[1..(k - 1)] + a[k]
  BY <1>3, <1>4, SumsStep
<1> DEFINE T == {k \in Nat : k <= n => h[1..k] = g[1..k]}
<1>7. 0 \in T
  BY <1>1, <1>2, <1>6, SumsStep
<1>8. ASSUME NEW k \in Nat, k \in T
      PROVE  k + 1 \in T
  <2> SUFFICES ASSUME k + 1 <= n PROVE h[1..(k + 1)] = g[1..(k + 1)]
    OBVIOUS
  <2>1. k + 1 \in 1..n /\ k + 1 \in 1..(n + 1) /\ (k + 1) - 1 = k /\ k <= n
    BY <1>1
  <2>2. h[1..k] = g[1..k]
    BY <1>8, <2>1
  <2> HIDE DEF T
  <2> QED
    BY <1>1, <1>5, <1>6, <2>1, <2>2
<1> HIDE DEF T
<1>9. n \in T
  BY <1>1, <1>7, <1>8, Induction
<1>10. h[1..n] = g[1..n]
  BY <1>1, <1>9 DEF T
<1>11. n + 1 \in 1..(n + 1) /\ (n + 1) - 1 = n
  BY <1>1
<1>12. h[1..(n + 1)] = h[1..n] + x
  BY <1>1, <1>6, <1>11
<1> QED
  BY <1>2, <1>4, <1>10, <1>12 DEF a

-----------------------------------------------------------------------------
(* The sum of the payouts *)

\* One more record adds its payout.
LEMMA TotalOfMore ==
    ASSUME NEW S, NEW s \in Seq(S), NEW x \in S, \A y \in S : Payout(y) \in Int
    PROVE  TotalPayout(Append(s, x)) = TotalPayout(s) + Payout(x)
<1> DEFINE w == [i \in DOMAIN s |-> Payout(s[i])]
           v == [i \in DOMAIN Append(s, x) |-> Payout(Append(s, x)[i])]
<1>1. w \in Seq(Int) /\ v = Append(w, Payout(x)) /\ Payout(x) \in Int
  OBVIOUS
<1>2. TotalPayout(s) = Total(w) /\ TotalPayout(Append(s, x)) = Total(v)
  BY DEF TotalPayout, Total
<1> HIDE DEF w, v
<1> QED
  BY <1>1, <1>2, TotalOfAppend

\* What is handed out so far, and what that is when a loop is through.
Balanced ==
    /\ Paid = allocatedBase + allocatedWinnerPremium + allocatedParticipation
    /\ winners <= Len(records)
       => /\ allocatedBase = WinningAgentBaseShare
          /\ allocatedWinnerPremium = WinningAgentClosingShare
    /\ Done => allocatedParticipation = ParticipationPool

LEMMA PayoutsTyped ==
    \A x \in [isWinner: BOOLEAN, base: Int, premium: Int] : Payout(x) \in Int
BY DEF Payout

LEMMA BalancedStep ==
    ASSUME IInv, Balanced, AddWinner \/ AddOther
    PROVE  Balanced'
<1> DEFINE k == Len(records)
<1>1. /\ k \in Nat /\ winners \in Nat /\ others \in Nat
      /\ {WinningAgentBaseShare, WinningAgentClosingShare, ParticipationPool} \subseteq Nat
      /\ {allocatedBase, allocatedWinnerPremium, allocatedParticipation} \subseteq Int
      /\ records \in Seq([isWinner: BOOLEAN, base: Int, premium: Int])
  BY PoolsTyped DEF IInv, TypeOK, Accepted
<1>2. /\ Paid = allocatedBase + allocatedWinnerPremium + allocatedParticipation
      /\ Paid \in Int
  BY <1>1, SMT DEF Balanced
<1>3. CASE AddWinner
  <2> DEFINE base == Share(WinningAgentBaseShare, allocatedBase, winners, k = winners - 1)
             premium == Share(WinningAgentClosingShare, allocatedWinnerPremium, winners,
                              k = winners - 1)
             x == [isWinner |-> TRUE, base |-> base, premium |-> premium]
  <2>1. /\ records' = Append(records, x)
        /\ allocatedBase' = allocatedBase + base
        /\ allocatedWinnerPremium' = allocatedWinnerPremium + premium
        /\ UNCHANGED <<auction, allocatedParticipation>> /\ k < winners
    BY <1>3 DEF AddWinner
  <2>2. k = winners - 1
        => /\ base = WinningAgentBaseShare - allocatedBase
           /\ premium = WinningAgentClosingShare - allocatedWinnerPremium
    BY DEF Share
  <2>3. base \in Int /\ premium \in Int
    <3>1. /\ RoundMoney(WinningAgentBaseShare, winners) \in Nat
          /\ RoundMoney(WinningAgentClosingShare, winners) \in Nat
      <4>1. winners > 0
        BY <1>1, <2>1
      <4> QED
        BY <1>1, <4>1, RoundMoneyBounds
    <3> QED
      BY <1>1, <3>1 DEF Share
  <2> HIDE DEF base, premium
  <2>4. x \in [isWinner: BOOLEAN, base: Int, premium: Int] /\ Payout(x) = base + premium
    BY <2>3 DEF Payout
  <2> HIDE DEF x
  <2>5. Paid' = Paid + base + premium /\ Len(records') = k + 1
    <3>1. TotalPayout(Append(records, x)) = TotalPayout(records) + Payout(x)
      BY <1>1, <2>4, PayoutsTyped, TotalOfMore
    <3>2. Len(Append(records, x)) = k + 1
      BY <1>1, <2>4
    <3> QED
      BY <1>2, <2>1, <2>3, <2>4, <3>1, <3>2 DEF Paid
  <2>6. k <= winners => allocatedParticipation = 0
    BY <1>1 DEF IInv, TotalsOfRounds
  <2>7. others = 0 => ParticipationPool = 0
    BY DEF ParticipationPool
  <2>8. /\ UNCHANGED <<winners, others>>
        /\ WinningAgentBaseShare' = WinningAgentBaseShare
        /\ WinningAgentClosingShare' = WinningAgentClosingShare
        /\ ParticipationPool' = ParticipationPool
    BY <2>1, PoolsFixed
  <2>9. Paid' = allocatedBase' + allocatedWinnerPremium' + allocatedParticipation'
    <3>1. allocatedParticipation' = allocatedParticipation
      BY <2>1
    <3>2. /\ allocatedBase \in Int /\ allocatedWinnerPremium \in Int
          /\ allocatedParticipation \in Int
      BY <1>1
    <3> HIDE DEF k
    <3> QED
      BY <1>2, <2>1, <2>3, <2>5, <3>1, <3>2
  <2>10. winners' <= Len(records')
         => /\ allocatedBase' = WinningAgentBaseShare'
            /\ allocatedWinnerPremium' = WinningAgentClosingShare'
    <3>1. winners <= k + 1 => k = winners - 1
      BY <1>1, <2>1
    <3>2. /\ allocatedBase \in Int /\ allocatedWinnerPremium \in Int
          /\ WinningAgentBaseShare \in Int /\ WinningAgentClosingShare \in Int
      BY <1>1
    <3> HIDE DEF k
    <3> QED
      BY <2>1, <2>2, <2>3, <2>5, <2>8, <3>1, <3>2
  <2>11. Done' => allocatedParticipation' = ParticipationPool'
    <3>1. k + 1 = winners + others => others = 0 /\ k <= winners
      BY <1>1, <2>1
    <3>2. allocatedParticipation' = allocatedParticipation
      BY <2>1
    <3> HIDE DEF k
    <3> QED
      BY <2>5, <2>6, <2>7, <2>8, <3>1, <3>2 DEF Done
  <2> HIDE DEF k
  <2> QED
    BY <2>9, <2>10, <2>11 DEF Balanced
<1>4. CASE AddOther
  <2> DEFINE share == Share(ParticipationPool, allocatedParticipation, others, k = winners + others - 1)
             x == [isWinner |-> FALSE, base |-> 0, premium |-> share]
  <2>1. /\ records' = Append(records, x)
        /\ allocatedParticipation' = allocatedParticipation + share
        /\ UNCHANGED <<auction, allocatedBase, allocatedWinnerPremium>>
        /\ winners <= k /\ k < winners + others
    BY <1>4 DEF AddOther
  <2>2. k = winners + others - 1 => share = ParticipationPool - allocatedParticipation
    BY DEF Share
  <2>3. share \in Int
    <3>1. RoundMoney(ParticipationPool, others) \in Nat
      <4>1. others > 0
        BY <1>1, <2>1
      <4> QED
        BY <1>1, <4>1, RoundMoneyBounds
    <3> QED
      BY <1>1, <3>1 DEF Share
  <2> HIDE DEF share
  <2>4. x \in [isWinner: BOOLEAN, base: Int, premium: Int] /\ Payout(x) = share
    BY <2>3 DEF Payout
  <2> HIDE DEF x
  <2>5. Paid' = Paid + share /\ Len(records') = k + 1
    <3>1. TotalPayout(Append(records, x)) = TotalPayout(records) + Payout(x)
      BY <1>1, <2>4, PayoutsTyped, TotalOfMore
    <3>2. Len(Append(records, x)) = k + 1
      BY <1>1, <2>4
    <3> QED
      BY <1>1, <2>1, <2>3, <2>4, <3>1, <3>2 DEF Paid
  <2>6. /\ UNCHANGED <<winners, others>>
        /\ WinningAgentBaseShare' = WinningAgentBaseShare
        /\ WinningAgentClosingShare' = WinningAgentClosingShare
        /\ ParticipationPool' = ParticipationPool
    BY <2>1, PoolsFixed
  <2>7. Paid' = allocatedBase' + allocatedWinnerPremium' + allocatedParticipation'
    <3>1. /\ allocatedBase' = allocatedBase
          /\ allocatedWinnerPremium' = allocatedWinnerPremium
      BY <2>1
    <3>2. /\ allocatedBase \in Int /\ allocatedWinnerPremium \in Int
          /\ allocatedParticipation \in Int
      BY <1>1
    <3> HIDE DEF k
    <3> QED
      BY <1>2, <2>1, <2>3, <2>5, <3>1, <3>2
  <2>8. /\ allocatedBase = WinningAgentBaseShare
        /\ allocatedWinnerPremium = WinningAgentClosingShare
    BY <2>1 DEF Balanced
  <2>9. k + 1 = winners + others => k = winners + others - 1
    BY <1>1
  <2> HIDE DEF k
  <2> QED
    BY <1>1, <2>1, <2>2, <2>3, <2>5, <2>6, <2>7, <2>8, <2>9 DEF Balanced, Done
<1> QED
  BY <1>3, <1>4

\* To the cent, and for all prices and any number of agents, the payouts and the
\* company's share add up to the final price.
THEOREM PayoutsAddUp == Spec => []PayoutsBalance
<1>1. Init => Balanced
  <2> SUFFICES ASSUME Init PROVE Balanced
    OBVIOUS
  <2>1. Paid = 0
    <3> DEFINE w == [i \in DOMAIN records |-> Payout(records[i])]
    <3>1. records = <<>>
      BY DEF Init
    <3>2. DOMAIN w = {}
      BY <3>1
    <3>3. Paid = Total(w)
      BY DEF Paid, TotalPayout, Total
    <3> HIDE DEF w
    <3> QED
      BY <3>2, <3>3, TotalOfEmpty
  <2>2. winners \in Nat /\ others \in Nat /\ winners + others >= 1
    BY SharesAssumption DEF Init
  <2> QED
    BY <2>1, <2>2 DEF Init, Balanced, Done, WinningAgentBaseShare, WinningAgentClosingShare
<1>2. IInv /\ Balanced /\ [Next]_vars => Balanced'
  <2>1. CASE UNCHANGED vars
    <3>1. UNCHANGED auction
      BY <2>1 DEF vars, auction
    <3> QED
      BY <2>1, <3>1, PoolsFixed DEF Balanced, Done, Paid, vars
  <2> QED
    BY <2>1, BalancedStep DEF Next
<1>3. IInv /\ Balanced => PayoutsBalance
  <2>1. IInv => /\ {WinningAgentBaseShare, WinningAgentClosingShare, ParticipationPool} \subseteq Nat
                /\ winners \in Nat /\ others \in Nat /\ finalPrice \in Nat
    BY PoolsTyped DEF IInv, Accepted
  <2> QED
    BY <2>1 DEF Balanced, PayoutsBalance, Done, CompanyShare
<1> QED
  BY <1>1, <1>2, <1>3, Inductive, PTL DEF Spec
=============================================================================
