----------------------------- MODULE Admission -----------------------------
(***************************************************************************)
(* How startRun and transitionRun (packages/db/src/runtime-repository.ts)  *)
(* share one workspace's budget.  A start is one database transaction, but *)
(* not one step: it looks for a run under its idempotency key, then reads  *)
(* the current period's row FOR UPDATE or inserts one, and then checks the *)
(* limit, reserves and commits; at READ COMMITTED other transactions run   *)
(* in between, held up only by the row locks.  The settlement of a run     *)
(* that ends, and the billing switch that stops spending, update the same  *)
(* rows.  All calls name one policy version, whose limit is already on     *)
(* record: the very first start of a version makes the others wait.        *)
(***************************************************************************)
EXTENDS Integers, FiniteSets, FiniteSetsExt

CONSTANTS
  Calls,       \* calls of the start route; a call's name also names the run, the
               \* reservation and the period it may create
  Workflow,    \* Workflow[c]: the workflow the call starts
  Key,         \* Key[c]: the call's idempotency key
  Units,       \* Units[c]: maximumQuantity
  HardLimit,   \* entitlement_policies.hard_limit
  LastMonth    \* bound on the months that pass

ASSUME AdmissionAssumption ==
  /\ IsFiniteSet(Calls)
  /\ Units \in [Calls -> Nat \ {0}] /\ HardLimit \in Nat /\ LastMonth \in Nat

VARIABLES
  month,       \* the current month
  periods,     \* the committed rows of budget_periods, by the call that inserted them
  starts,      \* budget_periods.starts_at: the month, per period
  reserved,    \* budget_periods.reserved_units, per period
  committed,   \* budget_periods.committed_units, per period
  stopped,     \* the periods with spend_stop
  run,         \* per call, its run: "none", "open", "succeeded" or "ended" otherwise
  home,        \* per call, admission_reservations.period_id of its run
  txn,         \* per call: "idle", "begun" before the period is read, "open" after it,
               \* and then how its transaction ended
  using,       \* per call, the period it works with: its own is a new one
  locks,       \* per call, the period rows its open transaction has locked
  seen         \* per call, the units and the spend_stop it has read

budget == <<periods, starts, reserved, committed, stopped>>
transaction == <<txn, using, locks, seen>>
vars == <<month, budget, run, home, transaction>>

Answer == {"admitted", "duplicate", "denied", "aborted"}
Reading == [used : Int, stop : {"on", "off"}]

-----------------------------------------------------------------------------
Init ==
  /\ month = 0
  /\ periods = {} /\ stopped = {}
  /\ starts = [p \in Calls |-> 0]
  /\ reserved = [p \in Calls |-> 0] /\ committed = [p \in Calls |-> 0]
  /\ run = [c \in Calls |-> "none"] /\ home = [c \in Calls |-> c]
  /\ txn = [c \in Calls |-> "idle"] /\ using = [c \in Calls |-> c]
  /\ locks = [c \in Calls |-> {}] /\ seen = [c \in Calls |-> [used |-> 0, stop |-> "off"]]

Admitted == {c \in Calls : run[c] # "none"}
Current == {p \in periods : starts[p] = month}
LockedUnqueued(p) == FALSE   \* variant: the period is read without FOR UPDATE
Locked(p) == \E c \in Calls : p \in locks[c]

SameRequest(c, d) == Workflow[c] = Workflow[d] /\ Key[c] = Key[d]

\* The call finds the run of an earlier call under its key.
FindDuplicate(c) ==
  /\ txn[c] = "idle" /\ \E d \in Admitted : SameRequest(c, d)
  /\ txn' = [txn EXCEPT ![c] = "duplicate"]
  /\ UNCHANGED <<month, budget, run, home, using, locks, seen>>

\* No run under the key so far.
Begin(c) ==
  /\ txn[c] = "idle" /\ \A d \in Admitted : ~SameRequest(c, d)
  /\ txn' = [txn EXCEPT ![c] = "begun"]
  /\ UNCHANGED <<month, budget, run, home, using, locks, seen>>

\* The call waits for the locks on the current period's rows, takes them all, and
\* reads one.
ReadPeriod(c, p) ==
  /\ txn[c] = "begun"
  /\ p \in Current /\ \A q \in Current : ~Locked(q)
  /\ txn' = [txn EXCEPT ![c] = "open"]
  /\ using' = [using EXCEPT ![c] = p]
  /\ locks' = [locks EXCEPT ![c] = Current]
  /\ seen' = [seen EXCEPT ![c] = [used |-> committed[p] + reserved[p],
                                  stop |-> IF p \in stopped THEN "on" ELSE "off"]]
  /\ UNCHANGED <<month, budget, run, home>>

\* No committed row for the month: the call inserts one, which nobody else sees yet.
InsertPeriod(c) ==
  /\ txn[c] = "begun" /\ Current = {}
  /\ txn' = [txn EXCEPT ![c] = "open"]
  /\ using' = [using EXCEPT ![c] = c]
  /\ locks' = [locks EXCEPT ![c] = {}]
  /\ seen' = [seen EXCEPT ![c] = [used |-> 0, stop |-> "off"]]
  /\ starts' = [starts EXCEPT ![c] = month]
  /\ UNCHANGED <<month, periods, reserved, committed, stopped, run, home>>

Close(c, answer) ==
  /\ txn' = [txn EXCEPT ![c] = answer]
  /\ locks' = [locks EXCEPT ![c] = {}]
  /\ UNCHANGED <<using, seen>>

WithinLimit(c) == seen[c].stop = "off" /\ seen[c].used + Units[c] <= HardLimit

\* UNIQUE (workspace_id, idempotency_key) of admission_reservations, which leaves the
\* workflow out: the key of every run ever admitted.
KeyFreeForWorkflow(c) == TRUE   \* variant: only the lookup guards the key
KeyFree(c) == \A d \in Admitted : Key[d] # Key[c]

Admit(c) ==
  /\ txn[c] = "open" /\ WithinLimit(c) /\ KeyFree(c)
  /\ periods' = periods \cup {using[c]}
  /\ reserved' = [reserved EXCEPT ![using[c]] = @ + Units[c]]
  /\ run' = [run EXCEPT ![c] = "open"]
  /\ home' = [home EXCEPT ![c] = using[c]]
  /\ Close(c, "admitted")
  /\ UNCHANGED <<month, starts, committed, stopped>>

\* ADMISSION_HARD_LIMIT: everything is rolled back, also a period just inserted.
Deny(c) ==
  /\ txn[c] = "open" /\ ~WithinLimit(c)
  /\ Close(c, "denied")
  /\ UNCHANGED <<month, budget, run, home>>

\* The key is taken, another check of startRun refuses, or the connection is lost.
Abort(c) ==
  /\ txn[c] \in {"begun", "open"}
  /\ Close(c, "aborted")
  /\ UNCHANGED <<month, budget, run, home>>

-----------------------------------------------------------------------------
\* transitionRun, into a final state: the reservation is settled in its own period.
SettleInCurrent(c) == CHOOSE p \in Current \cup {home[c]} : Current = {} \/ p \in Current
                      \* variant: settled in the period of the day
SettledIn(c) == home[c]
Settle(c, final) ==
  /\ run[c] = "open" /\ ~Locked(SettledIn(c))
  /\ run' = [run EXCEPT ![c] = final]
  /\ reserved' = [reserved EXCEPT ![SettledIn(c)] = @ - Units[c]]
  /\ committed' = [committed EXCEPT ![SettledIn(c)] =
                     @ + (IF final = "succeeded" THEN Units[c] ELSE 0)]
  /\ UNCHANGED <<month, periods, starts, stopped, home, transaction>>

\* setSpendStop updates every period of the workspace.
SetSpendStop(enabled) ==
  /\ \A p \in periods : ~Locked(p)
  /\ stopped' = IF enabled THEN periods ELSE {}
  /\ UNCHANGED <<month, periods, starts, reserved, committed, run, home, transaction>>

NextMonth ==
  /\ month < LastMonth /\ month' = month + 1
  /\ UNCHANGED <<budget, run, home, transaction>>

Next ==
  \/ \E c \in Calls :
       \/ FindDuplicate(c) \/ Begin(c) \/ InsertPeriod(c) \/ Admit(c) \/ Deny(c) \/ Abort(c)
       \/ \E p \in Calls : ReadPeriod(c, p)
       \/ \E final \in {"succeeded", "ended"} : Settle(c, final)
  \/ \E enabled \in BOOLEAN : SetSpendStop(enabled)
  \/ NextMonth

Spec == Init /\ [][Next]_vars

-----------------------------------------------------------------------------
(* Properties. *)

\* Every row and local holds a value of its type.
TypeOK ==
  /\ month \in Nat /\ periods \subseteq Calls /\ stopped \subseteq periods
  /\ starts \in [Calls -> Nat]
  /\ reserved \in [Calls -> Int] /\ committed \in [Calls -> Int]
  /\ run \in [Calls -> {"none", "open", "succeeded", "ended"}] /\ home \in [Calls -> Calls]
  /\ txn \in [Calls -> {"idle", "begun", "open"} \cup Answer] /\ using \in [Calls -> Calls]
  /\ locks \in [Calls -> SUBSET Calls] /\ seen \in [Calls -> Reading]

\* No period is ever reserved and committed beyond the hard limit, however starts and
\* settlements interleave: the row is locked from the reading to the reservation.
PeriodWithinLimit ==
  \A p \in periods : reserved[p] + committed[p] <= HardLimit

UnitsOf(cs) == MapThenSumSet(LAMBDA c : Units[c], cs)

\* The books balance: what a period holds reserved is what its open runs asked for,
\* and what it holds committed is what its successful runs did, across month ends.
BooksBalance ==
  \A p \in periods :
    /\ reserved[p] = UnitsOf({c \in Calls : home[c] = p /\ run[c] = "open"})
    /\ committed[p] = UnitsOf({c \in Calls : home[c] = p /\ run[c] = "succeeded"})

\* One request starts at most one run, also when two of its copies are under way.
StartedOnce ==
  \A c, d \in Admitted : SameRequest(c, d) => c = d

\* Nothing is reserved in a period whose spending is stopped, not even by a start that
\* was under way.
StopHolds ==
  [][\A p \in stopped : reserved'[p] <= reserved[p]]_vars

\* The runs of one month together stay within the hard limit.
MonthWithinLimit ==
  \A m \in 0 .. LastMonth :
    LET rows == {p \in periods : starts[p] = m}
    IN  MapThenSumSet(LAMBDA p : reserved[p] + committed[p], rows) <= HardLimit

=============================================================================
