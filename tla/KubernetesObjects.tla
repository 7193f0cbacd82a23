-------------------------- MODULE KubernetesObjects --------------------------
(***************************************************************************)
(* The objects of the API server as the Salt states see them: object_present, *)
(* object_absent and object_updated each read the object, then write it in a *)
(* second call.  In between another writer may change it: a replacement      *)
(* carries the resource version that was read and is refused when it is old, *)
(* a patch carries none.  A deletion is a foreground one: the object stays,  *)
(* marked, until what it owns is gone, and may be replaced in the meantime.  *)
(*                                                                           *)
(* Left out: the contents of an object (a value chosen by the caller), the   *)
(* loop of object_absent that waits for the removal, and test mode.          *)
(***************************************************************************)
EXTENDS Naturals

CONSTANTS Objects,    \* the objects the states manage
          Writers,    \* the processes that run states
          None        \* no object, nothing read

ASSUME NoneIsNoObject == None \notin Objects \cup Writers

VARIABLES api,        \* what the API server holds: None or a body and a deletion mark
          seen        \* what each writer read last: the object, what it was, and
                      \* whether its resource version is still that of the server

apiVars == <<api, seen>>

Exists(o) == api[o] # None
Body(o) == api[o].body
Live(o) == Exists(o) /\ ~api[o].going

ApiInit ==
  /\ api = [o \in Objects |-> None]
  /\ seen = [w \in Writers |-> None]

(***************************************************************************)
(* An error of a call: a missing object is no error for a look-up or a       *)
(* deletion, and one for everything else.                                    *)
(***************************************************************************)
Handled(action, found) == found \/ action \in {"retrieve", "delete"}

\* Every write gives the object a new resource version: whoever read it before
\* holds an old one.
Aged(w, o) ==
  [x \in Writers |->
     IF x = w THEN None
     ELSE IF seen[x] # None /\ seen[x].of = o THEN [seen[x] EXCEPT !.fresh = FALSE]
     ELSE seen[x]]

Look(w, o) ==
  /\ seen' = [seen EXCEPT ![w] = [of |-> o, was |-> Exists(o), fresh |-> TRUE]]
  /\ UNCHANGED api

\* A writer forgets what it read: the call failed, or the writer stopped.
Forget(w) ==
  /\ seen' = [seen EXCEPT ![w] = None]
  /\ UNCHANGED api

\* The second half of object_present: an object that was absent is created, one
\* that was there is replaced under the version that was read.
Accepted(w) ==
  LET o == seen[w].of
  IN  IF seen[w].was THEN Exists(o) /\ seen[w].fresh
                     ELSE ~Exists(o)

Put(w, body) ==
  LET o == seen[w].of
  IN  /\ Accepted(w)
      /\ api' = [api EXCEPT ![o] = [body |-> body, going |-> Exists(o) /\ api[o].going]]
      /\ seen' = Aged(w, o)

\* object_updated: a patch of an object that must exist, without a version.
Patch(w, o, body) ==
  /\ Handled("update", Exists(o))
  /\ api' = [api EXCEPT ![o].body = body]
  /\ seen' = Aged(w, o)

\* The second half of object_absent: nothing to do for an object that was not
\* there, or that is gone since.
Delete(w) ==
  LET o == seen[w].of
  IN  IF seen[w].was /\ Exists(o)
      THEN /\ api' = [api EXCEPT ![o].going = TRUE]
           /\ seen' = Aged(w, o)
      ELSE /\ Handled("delete", Exists(o))
           /\ Forget(w)

\* The garbage collector removes what is marked.
Collect(o) ==
  /\ Exists(o)
  /\ api[o].going
  /\ api' = [api EXCEPT ![o] = None]
  /\ seen' = Aged(None, o)
=============================================================================
