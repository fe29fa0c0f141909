----------------------------- MODULE MemberTable -----------------------------
(***************************************************************************)
(* What the permission endpoints of a resource promise: a table of one     *)
(* role per principal in which every request takes effect at one instant   *)
(* between its call and its answer, or not at all.  A request that is      *)
(* answered with success has taken effect; one answered with an error may  *)
(* have (its effect can be committed before something else fails).         *)
(***************************************************************************)
CONSTANTS Principals, Roles, Clients, NoRole

VARIABLES
  alive,      \* does the resource exist?
  table,      \* principal -> its role
  request     \* what each client has asked for, and how far it is

mvars == <<alive, table, request>>

Nobody == [p \in Principals |-> NoRole]
Request ==
  [op : {"none"}] \cup
  [op : {"create", "set", "delete", "drop"}, p : Principals, role : Roles,
   phase : {"called", "effective", "failed"}]
None == [op |-> "none"]

In(c, op, phase) == request[c].op = op /\ request[c].phase = phase
Phase(c, phase) == request' = [request EXCEPT ![c].phase = phase]

Call(c) ==
  /\ request[c] = None
  /\ \E op \in {"create", "set", "delete", "drop"}, p \in Principals, r \in Roles :
       request' = [request EXCEPT ![c] = [op |-> op, p |-> p, role |-> r, phase |-> "called"]]
  /\ UNCHANGED <<alive, table>>

(* The creator of a resource is its administrator from the first.          *)
Create(c) ==
  /\ In(c, "create", "called")
  /\ alive' = TRUE
  /\ table' = [Nobody EXCEPT ![request[c].p] = request[c].role]
  /\ Phase(c, "effective")

Set(c) ==
  /\ In(c, "set", "called")
  /\ alive
  /\ table' = [table EXCEPT ![request[c].p] = request[c].role]
  /\ Phase(c, "effective")
  /\ UNCHANGED alive

Delete(c) ==
  /\ In(c, "delete", "called")
  /\ table[request[c].p] = request[c].role
  /\ table' = [table EXCEPT ![request[c].p] = NoRole]
  /\ Phase(c, "effective")
  /\ UNCHANGED alive

Drop(c) ==
  /\ In(c, "drop", "called")
  /\ alive' = FALSE
  /\ table' = Nobody
  /\ Phase(c, "effective")

Fail(c) ==
  /\ request[c] # None
  /\ Phase(c, "failed")
  /\ UNCHANGED <<alive, table>>

Answer(c) ==
  /\ request[c] # None
  /\ request[c].phase # "called"
  /\ request' = [request EXCEPT ![c] = None]
  /\ UNCHANGED <<alive, table>>

MInit ==
  /\ alive = FALSE
  /\ table = Nobody
  /\ request = [c \in Clients |-> None]

MNext ==
  \E c \in Clients :
    \/ Call(c) \/ Create(c) \/ Set(c) \/ Delete(c) \/ Drop(c)
    \/ Fail(c) \/ Answer(c)

MSpec == MInit /\ [][MNext]_mvars
==============================================================================
