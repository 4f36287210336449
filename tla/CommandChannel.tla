-------------------------- MODULE CommandChannel --------------------------
(***************************************************************************)
(* What the JavaScript side may rely on when it calls sendToCpp: commands  *)
(* are handled one at a time in the order they were accepted, none twice   *)
(* and none left out, until `close' is handled or the worker fails; then   *)
(* nothing is handled any more.  A command accepted after that moment, or  *)
(* still waiting, is dropped, and the end of the worker is announced once. *)
(* ComputeThread implements this specification.                            *)
(***************************************************************************)
EXTENDS Naturals, Sequences

CONSTANT Cmds       \* commands, records with a field `kind'

VARIABLES
    open,           \* sendToCpp accepts commands, or is about to accept one
    accepted,       \* the commands accepted
    handled,        \* how many of them were handled
    over            \* "no", or how the worker ended: "complete" or "error"

vars == <<open, accepted, handled, over>>

Closing(s) == \E i \in 1 .. Len(s) : s[i].kind = "close"

Init ==
    /\ open = TRUE
    /\ accepted = << >>
    /\ handled = 0
    /\ over = "no"

\* Only the close of the object's destructor is taken when it is not open.
Accept(c) ==
    /\ ~Closing(accepted)
    /\ open \/ c.kind = "close"
    /\ accepted' = Append(accepted, c)
    /\ open' \in {open, FALSE}
    /\ UNCHANGED <<handled, over>>

Shut == open /\ open' = FALSE /\ UNCHANGED <<accepted, handled, over>>

\* The next command in order, unless `close' was handled.
Handle ==
    /\ over = "no"
    /\ handled < Len(accepted)
    /\ handled = 0 \/ accepted[handled].kind # "close"
    /\ handled' = handled + 1
    /\ UNCHANGED <<open, accepted, over>>

Complete ==
    /\ over = "no"
    /\ handled > 0
    /\ accepted[handled].kind = "close"
    /\ over' = "complete"
    /\ UNCHANGED <<open, accepted, handled>>

Fail ==
    /\ over = "no"
    /\ over' = "error"
    /\ UNCHANGED <<open, accepted, handled>>

Next == (\E c \in Cmds : Accept(c)) \/ Shut \/ Handle \/ Complete \/ Fail

Spec == Init /\ [][Next]_vars
=============================================================================
