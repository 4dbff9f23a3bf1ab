-------------------------- MODULE SettlementShares --------------------------
(***************************************************************************)
(* How CommissionService.cs divides the price of an auction: Calculate,    *)
(* and the loops of BuildSettlementRecordsAsync that hand out the shares.  *)
(* Amounts are whole cents; prices are assumed to have no fraction of one. *)
(***************************************************************************)
EXTENDS Integers, SequencesExt

CONSTANTS
    Prices,     \* the prices in cents that auctions may have
    MaxAgents   \* a bound on the winners and on the other agents

ASSUME SharesAssumption == Prices \subseteq Nat /\ MaxAgents \in Nat

VARIABLES
    finalPrice, basePrice,
    winners, others,            \* how many agents of each kind
    records,                    \* the records built so far
    allocatedBase, allocatedWinnerPremium, allocatedParticipation

auction == <<finalPrice, basePrice, winners, others>>
vars == <<finalPrice, basePrice, winners, others,
          records, allocatedBase, allocatedWinnerPremium, allocatedParticipation>>

-----------------------------------------------------------------------------
(* Calculate *)

\* Math.Round(x / y, 2, AwayFromZero) in cents, for x >= 0 and y > 0.
RoundMoney(x, y) == (2 * x + y) \div (2 * y)

Least(x, y) == IF x <= y THEN x ELSE y

Slab1 == 10000000
Slab2 == 20000000
MaximumAdditionalPool == 25000000

\* A second slab that reaches from 100,000 to 400,000.
TakeWideSecond(remaining) == Least(remaining, Slab1 + Slab2)

\* What Take takes of the second slab.
TakeSecond(remaining) == Least(remaining, Slab2)

\* 30%, 20% and 10% of the slabs of the premium.
CalculateAdditionalPool(premium) ==
    LET first == Least(premium, Slab1)
        second == TakeSecond(premium - first)
        rest == premium - first - second
    IN  RoundMoney(3 * first + 2 * second + rest, 10)

\* The pool taken of the whole price, as a variant of AuctionPremium.
WholePrice == finalPrice

AuctionPremium == finalPrice - basePrice

AdditionalAgentPool == Least(CalculateAdditionalPool(AuctionPremium), MaximumAdditionalPool)

ReservedWinnerPool == RoundMoney(6 * AdditionalAgentPool, 10)

\* Without winners their shares stay with the company.
WinningAgentBaseShare == IF winners > 0 THEN basePrice ELSE 0
WinningAgentClosingShare == IF winners > 0 THEN ReservedWinnerPool ELSE 0
ParticipationPool == IF others > 0 THEN AdditionalAgentPool - ReservedWinnerPool ELSE 0

CompanyShare ==
    finalPrice - (WinningAgentBaseShare + WinningAgentClosingShare + ParticipationPool)

-----------------------------------------------------------------------------
(* BuildSettlementRecordsAsync *)

TypeOK ==
    /\ {finalPrice, basePrice} \subseteq Prices
    /\ {winners, others} \subseteq 0..MaxAgents
    /\ records \in Seq([isWinner: BOOLEAN, base: Int, premium: Int])
    /\ Len(records) <= winners + others
    /\ {allocatedBase, allocatedWinnerPremium, allocatedParticipation} \subseteq Int

Init ==
    /\ finalPrice \in Prices
    /\ basePrice \in {b \in Prices : b <= finalPrice}
    /\ winners \in 0..MaxAgents
    /\ others \in 0..MaxAgents
    /\ winners + others >= 1
    /\ records = <<>>
    /\ allocatedBase = 0
    /\ allocatedWinnerPremium = 0
    /\ allocatedParticipation = 0

\* The rounded share for the last one too.
ShareRounded(pool, allocated, number, isLast) == RoundMoney(pool, number)

\* One agent too many to divide by.
ShareOfOneMore(pool, allocated, number, isLast) ==
    IF isLast THEN pool - allocated ELSE RoundMoney(pool, number + 1)

\* Everyone gets the rounded share, the last one what is left.
Share(pool, allocated, number, isLast) ==
    IF isLast THEN pool - allocated ELSE RoundMoney(pool, number)

AddWinner ==
    LET isLast == Len(records) = winners - 1
        base == Share(WinningAgentBaseShare, allocatedBase, winners, isLast)
        premium == Share(WinningAgentClosingShare, allocatedWinnerPremium, winners, isLast)
    IN  /\ Len(records) < winners
        /\ records' = Append(records, [isWinner |-> TRUE, base |-> base, premium |-> premium])
        /\ allocatedBase' = allocatedBase + base
        /\ allocatedWinnerPremium' = allocatedWinnerPremium + premium
        /\ UNCHANGED <<auction, allocatedParticipation>>

AddOther ==
    LET isLast == Len(records) = winners + others - 1
        share == Share(ParticipationPool, allocatedParticipation, others, isLast)
    IN  /\ winners <= Len(records) /\ Len(records) < winners + others
        /\ records' = Append(records, [isWinner |-> FALSE, base |-> 0, premium |-> share])
        /\ allocatedParticipation' = allocatedParticipation + share
        /\ UNCHANGED <<auction, allocatedBase, allocatedWinnerPremium>>

Next == AddWinner \/ AddOther

Spec == Init /\ [][Next]_vars

-----------------------------------------------------------------------------
(* Properties *)

Done == Len(records) = winners + others

Payout(x) == x.base + x.premium

\* The payouts of the records s, in order.
TotalPayout(s) == FoldLeft(LAMBDA total, n : total + n, 0, [i \in DOMAIN s |-> Payout(s[i])])

Paid == TotalPayout(records)

\* The payouts and the company's share add up to the price, to the cent, although
\* every share but the last is rounded.
PayoutsBalance == Done => Paid + CompanyShare = finalPrice

\* The agents never get more than the auction brought, whatever the rounding of the
\* pool and of the winners' part of it.
CompanyNeverPays == CompanyShare >= 0

\* The pool follows the agreed marginal rates: written as one formula per slab, it
\* is what Calculate takes slab by slab.
PoolAsAgreed ==
    AdditionalAgentPool =
        LET p == AuctionPremium
        IN  CASE p <= Slab1 -> RoundMoney(3 * p, 10)
              [] p > Slab1 /\ p <= Slab1 + Slab2 -> 3000000 + RoundMoney(p - Slab1, 5)
              [] p > Slab1 + Slab2 ->
                    Least(7000000 + RoundMoney(p - Slab1 - Slab2, 10), 25000000)

Distance(x, y) == IF x <= y THEN y - x ELSE x - y

\* Rounding costs or favours the last agent by half a cent per agent at most, in the
\* base and in the premium.  That may leave nothing or less: of two cents for four
\* winners the last one gets -1.
RoundingBounded ==
    \A i, j \in 1..Len(records) :
        records[i].isWinner = records[j].isWinner
        => LET number == IF records[i].isWinner THEN winners ELSE others
           IN  /\ 2 * Distance(records[i].base, records[j].base) <= number
               /\ 2 * Distance(records[i].premium, records[j].premium) <= number
=============================================================================
