-------------------------- MODULE PropertyFormPage --------------------------
(***************************************************************************)
(* property-form.component.ts: a property is created or edited; of an      *)
(* occupied one the tenant's details are on the same page, and saving is   *)
(* two requests, the property's and then the tenant's.  Others evict and   *)
(* assign tenants in the meantime.                                         *)
(***************************************************************************)
EXTENDS Page

CONSTANT MaxFailures    \* bound: failures of a save in one behaviour

Values == {"old", "new"}
Blank == [fields |-> "blank", tenant |-> "blank"]

\* property: whether the loaded copy had a tenant, None before it is loaded;
\* sent: what the save under way took from the forms.
Opened(editing) ==
    [id |-> editing, property |-> None, form |-> Blank, saving |-> FALSE,
     sent |-> None, done |-> FALSE, told |-> 0]
Contents == {"blank"} \cup Values
Body == [fields : Values, tenant : Values \cup {None}]

TypeOK ==
    /\ view \in [id : BOOLEAN, property : {"vacant", "occupied", None},
                 form : [fields : Contents, tenant : Contents], saving : BOOLEAN,
                 sent : Body \cup {None}, done : BOOLEAN, told : 0..MaxFailures]
    /\ world \in [fields : Values \cup {None}, tenant : Values \cup {None}]
    /\ \A c \in calls : c.op \in {"details", "create", "update", "tenant"}

\* The tenant of the property is None when it is vacant.
Init ==
    \E editing \in BOOLEAN :
        /\ view = Opened(editing)
        /\ calls = IF editing THEN {Call("details", None)} ELSE {}
        /\ world \in [fields : IF editing THEN {"old"} ELSE {None},
                      tenant : IF editing THEN {"old", None} ELSE {None}]

Others ==
    /\ world.fields # None
    /\ world' = [world EXCEPT !.tenant = IF @ = None THEN "old" ELSE None]
    /\ UNCHANGED <<view, calls>>

HasTenant == view.property = "occupied"

\* The template: the fields, and the tenant's section of an occupied property.
Sections == {"fields"} \cup IF HasTenant THEN {"tenant"} ELSE {}
Valid == \A section \in Sections : view.form[section] # "blank"

\* The answer overwrites what was typed before it came.
ReceiveDetails ==
    \E c \in Under("details") :
        /\ Ends(c)
        /\ view' = [view EXCEPT
              !.property = IF world.tenant = None THEN "vacant" ELSE "occupied",
              !.form = [fields |-> world.fields,
                        tenant |-> IF world.tenant = None THEN @.tenant ELSE world.tenant]]
        /\ UNCHANGED world
LoseDetails == \E c \in Under("details") : Ends(c) /\ UNCHANGED <<view, world>>

Type ==
    /\ ~view.done
    /\ \E section \in Sections : view' = [view EXCEPT !.form[section] = "new"]
    /\ UNCHANGED <<calls, world>>

\* save: the button is disabled while saving or while a form is invalid.
Save ==
    /\ ~view.done /\ ~view.saving /\ Valid
    /\ view.told < MaxFailures
    /\ LET body == [fields |-> view.form.fields,
                    tenant |-> IF view.id /\ HasTenant THEN view.form.tenant ELSE None]
       IN  /\ view' = [view EXCEPT !.saving = TRUE, !.sent = body]
           /\ Subscribe(Call(IF view.id THEN "update" ELSE "create", body))
    /\ UNCHANGED world

UpdateAsync ==
    \E c \in Under("update") \cup Under("create") :
        /\ Executes(c)
        /\ world' = [world EXCEPT !.fields = c.arg.fields]
        /\ UNCHANGED view

\* Refused when the tenant has left.
UpdateTenantAsync ==
    \E c \in Under("tenant") :
        /\ world.tenant # None
        /\ Executes(c)
        /\ world' = [world EXCEPT !.tenant = c.arg]
        /\ UNCHANGED view

Finish(c) ==
    /\ Ends(c)
    /\ view' = [view EXCEPT !.saving = FALSE, !.done = TRUE]

\* switchMap: the tenant's request follows the property's.  A variant: the
\* answer to the first request is taken for both.
UpdatedForBoth ==
    \E c \in Under("update") \cup Under("create") : c.seen /\ Finish(c) /\ UNCHANGED world
Updated ==
    \E c \in Under("update") \cup Under("create") :
        /\ c.seen
        /\ IF c.arg.tenant = None THEN Finish(c)
           ELSE calls' = (calls \ {c}) \cup {Call("tenant", c.arg.tenant)} /\ UNCHANGED view
        /\ UNCHANGED world
TenantUpdated == \E c \in Under("tenant") : c.seen /\ Finish(c) /\ UNCHANGED world

Fail ==
    \E c \in calls \ Under("details") :
        /\ Ends(c)
        /\ view' = [view EXCEPT !.saving = FALSE, !.told = @ + 1]
        /\ UNCHANGED world

Answer == ReceiveDetails \/ LoseDetails \/ Updated \/ TenantUpdated \/ Fail
Next == Others \/ Type \/ Save \/ UpdateAsync \/ UpdateTenantAsync \/ Answer

\* "Updated successfully" is true of both halves: the property is stored as
\* sent, and the step that says so comes after the tenant's were stored too.
SuccessMeansStored ==
    /\ view.done => world.fields = view.sent.fields
    /\ calls # {} /\ view.done => \A c \in calls : c.op = "details"
SuccessComesLast ==
    view'.done /\ ~view.done /\ view.sent.tenant # None =>
        \E c \in calls : c.op = "tenant" /\ c.seen

\* What is shown as under way is under way.
SpinnersTurn == view.saving => calls \ Under("details") # {}
=============================================================================
