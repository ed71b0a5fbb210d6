------------------------------ MODULE Collator ------------------------------
(***************************************************************************)
(* The collation ledger of one activity: what the 15-digit integer kept in *)
(* the job hash under `<aid>/output/metadata/as` means.  Five fields stand *)
(* for its digits:                                                         *)
(*    entry    digit 1, leg 1 entry status      (9 pending, 8 entered)     *)
(*    exit     digit 2, leg 1 exit status       (9 pending, 8 left)        *)
(*    leg2     digit 3, leg 2 status            (9 open, 8 closed)         *)
(*    entered  digits 4-9, leg 2 threads entered                           *)
(*    exited   digits 10-15, leg 2 threads exited                          *)
(* CollatorInteger computes with the integer itself and is shown to agree. *)
(***************************************************************************)
EXTENDS Integers

Digits(e, x, t, i, o) ==
    [entry |-> e, exit |-> x, leg2 |-> t, entered |-> i, exited |-> o]

\* The hash has no such field (job expired or scrubbed): HINCRBY starts at 0.
Absent == Digits(0, 0, 0, 0, 0)

\* getSeed: what a parent presets for each child it is about to spawn.
Seed == Digits(9, 9, 9, 0, 0)

\* The one value leg 1 may find after its own decrement.
Entered == Digits(8, 9, 9, 0, 0)

-----------------------------------------------------------------------------
(* The increments.  Each is one HINCRBYFLOAT.                              *)

NotarizeEntry(l) == [l EXCEPT !.entry = @ - 1]

AuthorizeReentry(l) == [l EXCEPT !.exit = @ - 1]

NotarizeReentry(l) == [l EXCEPT !.entered = @ + 1]

NotarizeContinuation(l) == [l EXCEPT !.exited = @ + 1]

NotarizeCompletion(l) == NotarizeContinuation([l EXCEPT !.leg2 = @ - 1])

\* Leg 1's exit and a whole leg 2 at once.
NotarizeEarlyCompletion(l) ==
    NotarizeCompletion(NotarizeReentry(AuthorizeReentry(l)))

-----------------------------------------------------------------------------
(* verifyInteger, on the value the increment returned.                     *)

\* isPrimed for leg 1: the parent preset the field.
PrimedForEntry(l) == l # NotarizeEntry(Absent)

\* isDuplicate.  A negative number prints a sign first, which is no digit.
DuplicateEntry(l) == l.entry \in 0..7

EntryFaultLax(l) ==   \* variant: duplicates are let through
    IF ~PrimedForEntry(l) THEN "missing" ELSE "none"

EntryFault(l) ==
    IF ~PrimedForEntry(l) THEN "missing"
    ELSE IF DuplicateEntry(l) THEN "duplicate"
    ELSE IF l # Entered THEN "invalid"
    ELSE "none"

\* isPrimed for leg 2: leg 1 was entered and left.
PrimedForReentry(l) == l.entry \in 0..8 /\ l.exit < 9

InactiveAfterTwo(l) == l.leg2 < 8   \* variant: off by one

\* isInactive
Inactive(l) == l.leg2 < 9

ReentryFaultLax(l) ==   \* variant: the third digit is not looked at
    IF ~PrimedForReentry(l) THEN "forbidden" ELSE "none"

ReentryFault(l) ==
    IF ~PrimedForReentry(l) THEN "forbidden"
    ELSE IF Inactive(l) THEN "inactive"
    ELSE "none"

\* getDimensionalIndex: the thread a leg 2 entry was given.
DimensionalIndex(l) == l.entered - 1

Ledger == [entry : Int, exit : Int, leg2 : Int, entered : Int, exited : Int]
=============================================================================
