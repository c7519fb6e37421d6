--------------------------- MODULE RequestPromise ---------------------------
(***************************************************************************)
(* What the endpoints of the server rely on when they ask a device to do   *)
(* something (ConnectionManager.request in server/app/manager.py): the     *)
(* device does it at most once; a request comes to one end, and is         *)
(* answered only with the outcome of what the device did for it; one that  *)
(* was refused is never carried out.  One that has ended with an error may *)
(* have been carried out, or still be.                                     *)
(***************************************************************************)
CONSTANT Requests

VARIABLES
  ending,   \* <<"none">>, <<"asked">>, <<"refused">>, <<"error">>, or
            \* <<"answer", q>>: the outcome of q
  done      \* how often the device has carried out each request

vars == <<ending, done>>

Answer(q) == <<"answer", q>>

Init ==
  /\ ending = [r \in Requests |-> <<"none">>]
  /\ done = [r \in Requests |-> 0]

Ask(r) ==
  /\ ending[r] = <<"none">>
  /\ \E e \in {<<"asked">>, <<"refused">>} : ending' = [ending EXCEPT ![r] = e]
  /\ UNCHANGED done

Perform(r) ==
  /\ ending[r] \in {<<"asked">>, <<"error">>}
  /\ done[r] = 0
  /\ done' = [done EXCEPT ![r] = 1]
  /\ UNCHANGED ending

Finish(r) ==
  /\ ending[r] = <<"asked">>
  /\ done[r] = 1
  /\ ending' = [ending EXCEPT ![r] = Answer(r)]
  /\ UNCHANGED done

Fail(r) ==
  /\ ending[r] = <<"asked">>
  /\ ending' = [ending EXCEPT ![r] = <<"error">>]
  /\ UNCHANGED done

\* The server stops: whatever is asked of devices ends with an error at once.
FailAll ==
  /\ ending' = [r \in Requests |->
                  IF ending[r] = <<"asked">> THEN <<"error">> ELSE ending[r]]
  /\ UNCHANGED done

Next ==
  \/ \E r \in Requests : Ask(r) \/ Perform(r) \/ Finish(r) \/ Fail(r)
  \/ FailAll

Spec == Init /\ [][Next]_vars
=============================================================================
