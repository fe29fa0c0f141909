--------------------------- MODULE AttachmentsProofs ---------------------------
(***************************************************************************)
(* What holds of Attachments for every set of workers: rows have their     *)
(* object and downloads miss only what was deleted, whatever fails; and    *)
(* nothing is left or lost while nothing fails.                            *)
(***************************************************************************)
EXTENDS Attachments, TLAPS

(* What a request has left to do, by what it works on.                     *)
CreatingLeft ==
  {<<"loadAgent", "put", "insert">>, <<"put", "insert">>, <<"loadAgent", "insert">>,
   <<"insert">>}
FileLeft ==
  {<<"load", "fetch">>, <<"fetch">>, <<"load", "remove", "drop">>, <<"remove", "drop">>,
   <<"drop">>}
DataLeft == {<<"load", "drop", "remove">>, <<"drop", "remove">>}
RemovingLeft == {<<"load", "remove">>, <<"remove">>}
RowLeft == FileLeft \cup DataLeft \cup RemovingLeft
AgentLeft == {<<"loadAgent", "removeAgent">>, <<"removeAgent">>}
Left == CreatingLeft \cup RowLeft \cup AgentLeft
Request == [todo : Left, missed : BOOLEAN]

(* What a request knows of the row and of the other system.                *)
Belongs(t) ==
  /\ t \in FileLeft => thing = "file"
  /\ t \in DataLeft => thing \in WrittenByAgents
  /\ t \in RemovingLeft => thing # "file"
  /\ t \in AgentLeft => thing \in Conversations
  /\ t = <<"loadAgent", "insert">> => thing = "conversation"
Fits(r, rec, obj) ==
  /\ r \in Request /\ Belongs(r.todo)
  /\ r.todo \in CreatingLeft => rec = "named"
  /\ r.todo \in RowLeft => rec \in {"live", "deleted"}
  /\ r.todo = <<"drop">> => rec = "deleted"
  /\ r.todo = <<"insert">> /\ thing \in {"file", "foundry"} => obj = "whole"
  /\ r.missed => rec = "deleted" /\ r.todo = <<"fetch">>

Things == Conversations \cup WrittenByAgents \cup {"file"}
Shaped ==
  /\ thing \in Things
  /\ record \in {"none", "named", "live", "deleted"} /\ agent \in {"live", "deleted"}
  /\ object \in {"none", "part", "whole"} /\ written \in BOOLEAN
  /\ request = [w \in Workers |-> request[w]]
Kept ==
  /\ Shaped
  /\ \A w \in Workers : Serving(w) => Fits(request[w], record, object)
  /\ \A v, w \in Workers :
       /\ Serving(v) /\ request[v].todo \in CreatingLeft
       /\ Serving(w) /\ request[w].todo \in CreatingLeft
       => v = w
  /\ record \in {"none", "named"} => ~written
  /\ RowsHaveTheirObject

(* While nothing fails, what is left, or lost, has its deletion under way. *)
AboutTo(step) == \E w \in Workers : Serving(w) /\ ~request[w].missed /\ request[w].todo = <<step>>
Settled ==
  ~unreliable =>
    /\ thing = "file" /\ record = "deleted" /\ object # "none" => AboutTo("drop")
    /\ thing \in WrittenByAgents /\ record = "live" /\ written /\ object # "whole" =>
         AboutTo("remove")

-----------------------------------------------------------------------------
(* The programs and what is left of them.                                  *)

(* The kinds of requests are never confused.                               *)
LEMMA KindsApart ==
  /\ CreatingLeft \cap RowLeft = {} /\ CreatingLeft \cap AgentLeft = {}
  /\ RowLeft \cap AgentLeft = {} /\ FileLeft \cap DataLeft = {}
  /\ FileLeft \cap RemovingLeft = {} /\ DataLeft \cap RemovingLeft = {}
  /\ <<"insert">> \in CreatingLeft /\ <<"fetch">> \in FileLeft /\ <<"drop">> \in FileLeft
  /\ <<"remove">> \in RemovingLeft /\ <<"loadAgent", "insert">> \in CreatingLeft
  /\ <<"drop">> # <<>> /\ <<"remove">> # <<>>
  /\ <<"drop">> # <<"fetch">> /\ <<"insert">> # <<"loadAgent", "insert">>
BY DEF CreatingLeft, RowLeft, FileLeft, DataLeft, RemovingLeft, AgentLeft

(* What each step is a step of, and what it leaves.                        *)
StepOf(t) ==
  /\ t # <<>>
  /\ Head(t) = "put" => t \in CreatingLeft /\ Tail(t) = <<"insert">>
  /\ Head(t) = "insert" => t = <<"insert">> /\ Tail(t) = <<>>
  /\ Head(t) = "loadAgent" =>
       \/ /\ t \in CreatingLeft /\ Tail(t) \in CreatingLeft
          /\ t # <<"loadAgent", "insert">> => Tail(t) # <<"insert">>
          /\ Tail(t) # <<"loadAgent", "insert">>
       \/ t \in AgentLeft /\ Tail(t) \in AgentLeft
  /\ Head(t) = "load" =>
       /\ \/ t \in FileLeft /\ Tail(t) \in FileLeft
          \/ t \in DataLeft /\ Tail(t) \in DataLeft
          \/ t \in RemovingLeft /\ Tail(t) \in RemovingLeft
       /\ Tail(t) # <<"drop">>
  /\ Head(t) = "fetch" => t = <<"fetch">>
  /\ Head(t) = "drop" =>
       \/ t = <<"drop">> /\ Tail(t) = <<>>
       \/ t \in DataLeft /\ Tail(t) = <<"remove">>
  /\ Head(t) = "remove" =>
       \/ t \in FileLeft /\ Tail(t) = <<"drop">>
       \/ t = <<"remove">> /\ Tail(t) = <<>>
  /\ Head(t) = "removeAgent" => t \in AgentLeft /\ t \notin RowLeft

LEMMA StepsOf ==
  ASSUME NEW t \in Left
  PROVE  StepOf(t)
<1> USE DEF StepOf, CreatingLeft, FileLeft, DataLeft, RemovingLeft, AgentLeft
<1>1. CASE t = <<"loadAgent", "put", "insert">>
  BY <1>1
<1>2. CASE t = <<"put", "insert">>
  BY <1>2
<1>3. CASE t = <<"loadAgent", "insert">>
  BY <1>3
<1>4. CASE t = <<"insert">>
  BY <1>4
<1>5. CASE t = <<"load", "fetch">>
  BY <1>5
<1>6. CASE t = <<"fetch">>
  BY <1>6
<1>7. CASE t = <<"load", "remove", "drop">>
  BY <1>7
<1>8. CASE t = <<"remove", "drop">>
  BY <1>8
<1>9. CASE t = <<"drop">>
  BY <1>9
<1>10. CASE t = <<"load", "drop", "remove">>
  BY <1>10
<1>11. CASE t = <<"drop", "remove">>
  BY <1>11
<1>12. CASE t = <<"load", "remove">>
  BY <1>12
<1>13. CASE t = <<"remove">>
  BY <1>13
<1>14. CASE t = <<"loadAgent", "removeAgent">>
  BY <1>14
<1>15. CASE t = <<"removeAgent">>
  BY <1>15 DEF RowLeft
<1> QED
  BY <1>1, <1>2, <1>3, <1>4, <1>5, <1>6, <1>7, <1>8, <1>9,
     <1>10, <1>11, <1>12, <1>13, <1>14, <1>15 DEF Left, RowLeft


(* What a request begins with, and what it is about.                       *)
LEMMA ProgramsAreLeft ==
  ASSUME thing \in Things, NEW op \in DOMAIN Programs
  PROVE  /\ Programs[op] \in Left /\ Belongs(Programs[op])
         /\ op = "create" =>
              /\ Programs[op] \in CreatingLeft
              /\ thing \in {"file", "foundry"} => Programs[op] # <<"insert">>
         /\ op \in {"download", "delete"} =>
              /\ Programs[op] \in RowLeft /\ Programs[op] \notin CreatingLeft
              /\ Programs[op] # <<"drop">>
         /\ op = "deleteAgent" =>
              Programs[op] \in AgentLeft /\ Programs[op] \notin CreatingLeft \cup RowLeft
<1> USE DEF Programs, Belongs, Left, RowLeft, CreatingLeft, FileLeft, DataLeft,
            RemovingLeft, AgentLeft, Conversations, WrittenByAgents
<1>1. CASE thing = "file"
  BY <1>1 DEF UploadFile, DownloadFile, DeleteFile
<1>2. CASE thing = "workflow"
  BY <1>2 DEF CreateWorkflow, DeleteWorkflow
<1>3. CASE thing = "conversation"
  BY <1>3 DEF CreateConversation, DeleteConversation, DeleteChatAgent
<1>4. CASE thing = "foundry"
  BY <1>4 DEF CreateConversation, DeleteConversation, DeleteChatAgent
<1> QED BY <1>1, <1>2, <1>3, <1>4 DEF Things

(* A step of a request ends it or leaves the rest of its program.          *)
LEMMA AdvanceIs ==
  ASSUME Kept, NEW w \in Workers, Serving(w), Advance(w)
  PROVE  \/ Tail(request[w].todo) = <<>> /\ Become(w, NoJob)
         \/ /\ Tail(request[w].todo) # <<>>
            /\ Become(w, [todo |-> Tail(request[w].todo), missed |-> request[w].missed])
<1>1. request[w] \in Request
  BY DEF Kept, Fits
<1>2. [request[w] EXCEPT !.todo = Tail(@)] =
      [todo |-> Tail(request[w].todo), missed |-> request[w].missed]
  <2>1. \A q \in Request : \A rest :
          [q EXCEPT !.todo = rest] = [todo |-> rest, missed |-> q.missed]
    BY DEF Request
  <2> QED BY <1>1, <2>1, Zenon
<1> QED BY <1>2 DEF Advance

-----------------------------------------------------------------------------
(* Kept is an invariant.                                                   *)

(* A worker's request becomes r; the others' still fit the row.            *)
LEMMA MoveKept ==
  ASSUME Kept, NEW w \in Workers, NEW r, Become(w, r), UNCHANGED <<thing, unreliable>>,
         record' \in {"none", "named", "live", "deleted"}, agent' \in {"live", "deleted"},
         object' \in {"none", "part", "whole"}, written' \in BOOLEAN,
         r # NoJob => Fits(r, record', object'),
         r # NoJob /\ r.todo \in CreatingLeft =>
           record = "none" \/ (Serving(w) /\ request[w].todo \in CreatingLeft),
         \A v \in Workers \ {w} : Serving(v) => Fits(request[v], record', object'),
         record' \in {"none", "named"} => ~written',
         RowsHaveTheirObject'
  PROVE  Kept'
<1>1. request = [v \in Workers |-> request[v]]
  BY DEF Kept, Shaped
<1>2. request' = [v \in Workers |-> IF v = w THEN r ELSE request[v]]
  BY <1>1 DEF Become
<1>3. request'[w] = r /\ \A v \in Workers \ {w} : request'[v] = request[v]
  BY <1>2
<1>4. Shaped'
  BY <1>2 DEF Kept, Shaped, Things, Conversations, WrittenByAgents
<1>5. \A v \in Workers : Serving(v)' => Fits(request'[v], record', object')
  BY <1>3 DEF Serving
<1>6. \A v \in Workers : Serving(v)' => Fits(request[v], record, object)'
  BY <1>5 DEF Fits, Belongs, Conversations, WrittenByAgents
<1>7. ASSUME NEW v \in Workers \ {w}, Serving(v), request[v].todo \in CreatingLeft
      PROVE  ~(r # NoJob /\ r.todo \in CreatingLeft)
  BY <1>7 DEF Kept, Fits
<1>8. ASSUME NEW u \in Workers, NEW v \in Workers,
             Serving(u)', request'[u].todo \in CreatingLeft,
             Serving(v)', request'[v].todo \in CreatingLeft
      PROVE  u = v
  <2>1. CASE u = w /\ v # w
    BY <1>3, <1>7, <1>8, <2>1 DEF Serving
  <2>2. CASE v = w /\ u # w
    BY <1>3, <1>7, <1>8, <2>2 DEF Serving
  <2>3. CASE u # w /\ v # w
    BY <1>3, <1>8, <2>3 DEF Serving, Kept
  <2> QED BY <2>1, <2>2, <2>3
<1>9. \A u, v \in Workers :
        /\ Serving(u)' /\ request'[u].todo \in CreatingLeft
        /\ Serving(v)' /\ request'[v].todo \in CreatingLeft
        => u = v
  BY <1>8
<1> QED BY <1>4, <1>6, <1>9 DEF Kept, CreatingLeft

(* The others fit a row and an object that stay as they are.               *)
LEMMA OthersStay ==
  ASSUME Kept, NEW w \in Workers, UNCHANGED <<record, object>>
  PROVE  \A v \in Workers \ {w} : Serving(v) => Fits(request[v], record', object')
BY DEF Kept

(* The others know nothing of a row that one worker creates.               *)
LEMMA OthersOfNew ==
  ASSUME Kept, NEW w \in Workers,
         record = "none" \/ (Serving(w) /\ request[w].todo \in CreatingLeft),
         NEW rec, NEW obj
  PROVE  \A v \in Workers \ {w} : Serving(v) => Fits(request[v], rec, obj)
<1> SUFFICES ASSUME NEW v \in Workers \ {w}, Serving(v) PROVE Fits(request[v], rec, obj)
  OBVIOUS
<1>1. Fits(request[v], record, object)
  BY DEF Kept
<1>2. record \in {"none", "named"} /\ ~request[v].missed
  BY <1>1 DEF Kept, Fits
<1>3. request[v].todo \notin CreatingLeft /\ request[v].todo \notin RowLeft
  BY <1>1, <1>2 DEF Kept, Fits
<1> QED BY <1>1, <1>2, <1>3, KindsApart DEF Fits, RowLeft, Request

(* The others have begun on a row that is there.                           *)
LEMMA OthersOfOld ==
  ASSUME Kept, NEW w \in Workers, record \in {"live", "deleted"},
         record' = "deleted" \/ record' = record,
         NEW obj
  PROVE  \A v \in Workers \ {w} : Serving(v) => Fits(request[v], record', obj)
<1> SUFFICES ASSUME NEW v \in Workers \ {w}, Serving(v) PROVE Fits(request[v], record', obj)
  OBVIOUS
<1>1. Fits(request[v], record, object)
  BY DEF Kept
<1> QED BY <1>1, KindsApart DEF Fits, Request

LEMMA BeginKept ==
  ASSUME Kept, NEW w \in Workers, NEW op \in {"create", "download", "delete", "deleteAgent"},
         Begin(w, op)
  PROVE  Kept'
<1> DEFINE r == [todo |-> Programs[op], missed |-> FALSE]
<1>1. op \in DOMAIN Programs /\ thing \in Things /\ Become(w, r)
  BY DEF Begin, Kept, Shaped
<1>2. /\ Programs[op] \in Left /\ Belongs(Programs[op])
      /\ op = "create" =>
           /\ Programs[op] \in CreatingLeft
           /\ thing \in {"file", "foundry"} => Programs[op] # <<"insert">>
      /\ op \in {"download", "delete"} =>
           /\ Programs[op] \in RowLeft /\ Programs[op] \notin CreatingLeft
           /\ Programs[op] # <<"drop">>
      /\ op = "deleteAgent" =>
           Programs[op] \in AgentLeft /\ Programs[op] \notin CreatingLeft \cup RowLeft
  BY <1>1, ProgramsAreLeft
<1>3. /\ r \in Request /\ r.todo = Programs[op] /\ ~r.missed
  BY <1>2 DEF Request
<1> HIDE DEF r
<1>4. UNCHANGED <<thing, unreliable, agent, object, written>>
  BY DEF Begin, Keep
<1>5. CASE op = "create"
  <2>1. record = "none" /\ record' = "named"
    BY <1>5 DEF Begin
  <2>2. Fits(r, record', object')
    BY <1>2, <1>3, <1>5, <2>1, KindsApart DEF Fits, RowLeft
  <2>3. \A v \in Workers \ {w} : Serving(v) => Fits(request[v], record', object')
    BY <2>1, OthersOfNew
  <2> QED BY <1>1, <1>4, <2>1, <2>2, <2>3, MoveKept DEF Kept, Shaped, RowsHaveTheirObject
<1>6. CASE op # "create"
  <2>1. record' = record /\ (op = "deleteAgent" \/ record \in {"live", "deleted"})
    BY <1>6 DEF Begin
  <2>2. Fits(r, record', object') /\ r.todo \notin CreatingLeft
    BY <1>2, <1>3, <1>6, <2>1, KindsApart DEF Fits, RowLeft
  <2>3. \A v \in Workers \ {w} : Serving(v) => Fits(request[v], record', object')
    BY <1>4, <2>1, OthersStay
  <2> QED BY <1>1, <1>4, <2>1, <2>2, <2>3, MoveKept DEF Kept, Shaped, RowsHaveTheirObject
<1> QED BY <1>5, <1>6

(* A step that ends or advances a request and changes neither row nor      *)
(* object.                                                                 *)
LEMMA StepKept ==
  ASSUME Kept, NEW w \in Workers, NEW r, Become(w, r),
         UNCHANGED <<thing, unreliable, record, agent, object, written>>,
         r # NoJob => Serving(w) /\ Fits(r, record, object),
         r # NoJob /\ r.todo \in CreatingLeft => request[w].todo \in CreatingLeft
  PROVE  Kept'
<1>1. \A v \in Workers \ {w} : Serving(v) => Fits(request[v], record', object')
  BY OthersStay
<1> QED BY <1>1, MoveKept DEF Kept, Shaped, RowsHaveTheirObject

(* What a request that is at a step has left to do.                        *)
LEMMA AtStep ==
  ASSUME Kept, NEW w \in Workers, NEW step, At(w, step)
  PROVE  /\ Serving(w) /\ Fits(request[w], record, object)
         /\ request[w].todo \in Left /\ ~request[w].missed
         /\ Head(request[w].todo) = step /\ StepOf(request[w].todo)
<1>1. Fits(request[w], record, object)
  BY DEF Kept, At
<1> QED BY <1>1, StepsOf DEF At, Fits, Request

(* The rest of a program, if there is one.                                 *)
LEMMA AdvanceFits ==
  ASSUME Kept, NEW w \in Workers, NEW step, At(w, step), Advance(w), NEW rec, NEW obj,
         Tail(request[w].todo) # <<>> =>
           Fits([todo |-> Tail(request[w].todo), missed |-> FALSE], rec, obj)
  PROVE  \E r : /\ Become(w, r)
                /\ r # NoJob => Fits(r, rec, obj) /\ r.todo = Tail(request[w].todo)
                                /\ Tail(request[w].todo) # <<>>
<1>1. Serving(w) /\ Fits(request[w], record, object) /\ ~request[w].missed
  BY AtStep
<1>2. request[w].missed = FALSE
  BY <1>1 DEF Fits, Request
<1>3. CASE Become(w, NoJob)
  BY <1>3
<1>4. CASE Tail(request[w].todo) # <<>>
           /\ Become(w, [todo |-> Tail(request[w].todo), missed |-> request[w].missed])
  BY <1>2, <1>4
<1> QED BY <1>1, <1>3, <1>4, AdvanceIs

LEMMA PutKept ==
  ASSUME Kept, NEW w \in Workers, Put(w)
  PROVE  Kept'
<1>1. At(w, "put") /\ UNCHANGED <<thing, unreliable, record, agent, written>>
  BY DEF Put, Keep
<1>2. /\ Serving(w) /\ Fits(request[w], record, object) /\ ~request[w].missed
      /\ request[w].todo \in CreatingLeft /\ Tail(request[w].todo) = <<"insert">>
  BY <1>1, AtStep DEF StepOf
<1>3. record = "named"
  BY <1>2 DEF Fits
<1>4. \A v \in Workers \ {w} : Serving(v) => Fits(request[v], record', object')
  BY <1>2, OthersOfNew
<1>5. object' \in {"none", "part", "whole"} /\ RowsHaveTheirObject'
  BY <1>1, <1>3 DEF Put, Kept, Shaped, RowsHaveTheirObject
<1>6. CASE object' = "whole" /\ Advance(w)
  <2>1. <<"insert">> \in CreatingLeft /\ <<"insert">> \notin RowLeft \cup AgentLeft
    BY KindsApart
  <2>2. Fits([todo |-> <<"insert">>, missed |-> FALSE], record', object')
    BY <1>1, <1>3, <1>6, <2>1, KindsApart DEF Fits, Belongs, Request, Left, RowLeft
  <2>3. PICK r : /\ Become(w, r)
                 /\ r # NoJob => Fits(r, record', object') /\ r.todo = <<"insert">>
    BY <1>1, <1>2, <1>6, <2>2, AdvanceFits
  <2> QED BY <1>1, <1>2, <1>3, <1>4, <1>5, <2>3, MoveKept DEF Kept, Shaped
<1>7. CASE End(w)
  BY <1>1, <1>3, <1>4, <1>5, <1>7, MoveKept DEF Kept, Shaped, End
<1> QED BY <1>6, <1>7 DEF Put

LEMMA LoadKept ==
  ASSUME Kept, NEW w \in Workers, Load(w)
  PROVE  Kept'
<1>1. At(w, "load") /\ UNCHANGED <<thing, unreliable, record, agent, object, written>>
  BY DEF Load, Keep
<1> DEFINE t == request[w].todo
<1>2. /\ Serving(w) /\ Fits(request[w], record, object)
      /\ \/ t \in FileLeft /\ Tail(t) \in FileLeft
         \/ t \in DataLeft /\ Tail(t) \in DataLeft
         \/ t \in RemovingLeft /\ Tail(t) \in RemovingLeft
      /\ Tail(t) # <<"drop">>
  BY <1>1, AtStep DEF StepOf
<1>3. t \in RowLeft /\ Tail(t) \in RowLeft
  BY <1>2 DEF RowLeft
<1>4. CASE Advance(w)
  <2>1. Belongs(Tail(t))
    BY <1>2, <1>3, KindsApart DEF Fits, Belongs
  <2>2. Fits([todo |-> Tail(t), missed |-> FALSE], record, object)
    BY <1>2, <1>3, <2>1, KindsApart DEF Fits, Request, Left
  <2>3. PICK r : /\ Become(w, r)
                 /\ r # NoJob => Fits(r, record, object) /\ r.todo = Tail(t)
    BY <1>1, <1>4, <2>2, AdvanceFits
  <2> QED BY <1>1, <1>2, <1>3, <2>3, StepKept, KindsApart
<1>5. CASE End(w)
  BY <1>1, <1>5, StepKept DEF End
<1> QED BY <1>4, <1>5 DEF Load

LEMMA LoadAgentKept ==
  ASSUME Kept, NEW w \in Workers, LoadAgent(w)
  PROVE  Kept'
<1>1. /\ At(w, "loadAgent")
      /\ UNCHANGED <<thing, unreliable, record, agent, object, written>>
  BY DEF LoadAgent, Keep
<1> DEFINE t == request[w].todo
<1>2. /\ Serving(w) /\ Fits(request[w], record, object)
      /\ \/ /\ t \in CreatingLeft /\ Tail(t) \in CreatingLeft
            /\ t # <<"loadAgent", "insert">> => Tail(t) # <<"insert">>
            /\ Tail(t) # <<"loadAgent", "insert">>
         \/ t \in AgentLeft /\ Tail(t) \in AgentLeft
  BY <1>1, AtStep DEF StepOf
<1>3. CASE Advance(w)
  <2>1. Belongs(Tail(t)) /\ Tail(t) \notin RowLeft
    BY <1>2, KindsApart DEF Fits, Belongs, RowLeft
  <2>2. Tail(t) = <<"insert">> => thing = "conversation"
    BY <1>2, KindsApart DEF Fits, Belongs
  <2>3. Fits([todo |-> Tail(t), missed |-> FALSE], record, object)
    BY <1>2, <2>1, <2>2, KindsApart DEF Fits, Request, Left, RowLeft
  <2>4. PICK r : /\ Become(w, r)
                 /\ r # NoJob => Fits(r, record, object) /\ r.todo = Tail(t)
    BY <1>1, <1>3, <2>3, AdvanceFits
  <2> QED BY <1>1, <1>2, <2>4, StepKept, KindsApart
<1>4. CASE End(w)
  BY <1>1, <1>4, StepKept DEF End
<1> QED BY <1>3, <1>4 DEF LoadAgent

LEMMA InsertKept ==
  ASSUME Kept, NEW w \in Workers, Insert(w)
  PROVE  Kept'
<1>1. At(w, "insert") /\ UNCHANGED <<thing, unreliable, agent, object, written>>
  BY DEF Insert, Keep
<1>2. /\ Serving(w) /\ Fits(request[w], record, object)
      /\ request[w].todo = <<"insert">> /\ Tail(request[w].todo) = <<>>
  BY <1>1, AtStep DEF StepOf
<1>3. record = "named" /\ (thing \in {"file", "foundry"} => object = "whole")
  BY <1>2, KindsApart DEF Fits
<1>4. \A v \in Workers \ {w} : Serving(v) => Fits(request[v], record', object')
  BY <1>2, OthersOfNew, KindsApart
<1>5. /\ record' \in {"named", "live"} /\ RowsHaveTheirObject'
  BY <1>1, <1>3 DEF Insert, RowsHaveTheirObject
<1>6. Become(w, NoJob)
  <2>1. CASE Advance(w)
    BY <1>2, <2>1, AdvanceIs
  <2>2. CASE End(w)
    BY <2>2 DEF End
  <2> QED BY <2>1, <2>2 DEF Insert
<1> QED BY <1>1, <1>3, <1>4, <1>5, <1>6, MoveKept DEF Kept, Shaped

LEMMA FetchKept ==
  ASSUME Kept, NEW w \in Workers, Fetch(w)
  PROVE  Kept'
<1>1. At(w, "fetch") /\ UNCHANGED <<thing, unreliable, record, agent, object, written>>
  BY DEF Fetch, Keep
<1>2. /\ Serving(w) /\ Fits(request[w], record, object)
      /\ request[w].todo = <<"fetch">>
  BY <1>1, AtStep DEF StepOf
<1>3. CASE object # "whole" /\ Become(w, [request[w] EXCEPT !.missed = TRUE])
  <2> DEFINE r == [request[w] EXCEPT !.missed = TRUE]
  <2>1. r \in Request /\ r.todo = <<"fetch">> /\ r.missed
    BY <1>2 DEF Fits, Request
  <2>2. record = "deleted"
    BY <1>2, <1>3, KindsApart DEF Fits, Belongs, RowLeft, Kept, RowsHaveTheirObject
  <2> HIDE DEF r
  <2>3. Fits(r, record, object)
    BY <1>2, <2>1, <2>2, KindsApart DEF Fits
  <2> QED BY <1>1, <1>2, <1>3, <2>1, <2>3, StepKept DEF r
<1>4. CASE End(w)
  BY <1>1, <1>4, StepKept DEF End
<1> QED BY <1>3, <1>4 DEF Fetch

LEMMA DropKept ==
  ASSUME Kept, NEW w \in Workers, Drop(w)
  PROVE  Kept'
<1>1. At(w, "drop") /\ UNCHANGED <<thing, unreliable, record, agent, written>>
  BY DEF Drop, Keep
<1> DEFINE t == request[w].todo
<1>2. /\ Serving(w) /\ Fits(request[w], record, object) /\ t \in RowLeft
      /\ \/ t = <<"drop">> /\ Tail(t) = <<>>
         \/ t \in DataLeft /\ Tail(t) = <<"remove">>
  BY <1>1, AtStep, KindsApart DEF StepOf, RowLeft
<1>3. record \in {"live", "deleted"} /\ (thing \in {"file", "foundry"} => record = "deleted")
  BY <1>2, KindsApart DEF Fits, Belongs, WrittenByAgents, RowLeft
<1>4. \A v \in Workers \ {w} : Serving(v) => Fits(request[v], record', object')
  BY <1>1, <1>3, OthersOfOld
<1>5. /\ object' \in {"none", "part", "whole"} /\ RowsHaveTheirObject'
  BY <1>1, <1>3 DEF Drop, RowsHaveTheirObject, Kept, Shaped
<1>6. CASE Advance(w)
  <2>1. ASSUME Tail(t) # <<>>
        PROVE  Fits([todo |-> Tail(t), missed |-> FALSE], record', object')
    <3>1. t \in DataLeft /\ Tail(t) = <<"remove">>
      BY <1>2, <2>1
    <3>2. thing \in WrittenByAgents
      BY <1>2, <3>1 DEF Fits, Belongs
    <3>3. Belongs(<<"remove">>)
      BY <3>2, KindsApart DEF Belongs, WrittenByAgents, RowLeft
    <3>4. /\ <<"remove">> \in RowLeft /\ <<"remove">> \notin CreatingLeft
          /\ <<"remove">> # <<"drop">> /\ <<"remove">> # <<"insert">>
      BY KindsApart DEF RowLeft
    <3> QED BY <1>1, <1>3, <3>1, <3>3, <3>4 DEF Fits, Request, Left
  <2>2. PICK r : /\ Become(w, r)
                 /\ r # NoJob => Fits(r, record', object') /\ r.todo = Tail(t)
                                 /\ Tail(t) # <<>>
    BY <1>1, <1>6, <2>1, AdvanceFits
  <2>3. r # NoJob => r.todo \notin CreatingLeft
    BY <1>2, <2>2, KindsApart DEF RowLeft
  <2> QED BY <1>1, <1>3, <1>4, <1>5, <2>2, <2>3, MoveKept DEF Kept, Shaped
<1>7. CASE End(w)
  BY <1>1, <1>3, <1>4, <1>5, <1>7, MoveKept DEF Kept, Shaped, End
<1> QED BY <1>6, <1>7 DEF Drop

LEMMA RemoveKept ==
  ASSUME Kept, NEW w \in Workers, Remove(w)
  PROVE  Kept'
<1>1. At(w, "remove") /\ UNCHANGED <<thing, unreliable, agent, object, written>>
  BY DEF Remove, Keep
<1> DEFINE t == request[w].todo
<1>2. /\ Serving(w) /\ Fits(request[w], record, object) /\ t \in RowLeft
      /\ \/ t \in FileLeft /\ Tail(t) = <<"drop">>
         \/ t = <<"remove">> /\ Tail(t) = <<>>
  BY <1>1, AtStep, KindsApart DEF StepOf, RowLeft
<1>3. record \in {"live", "deleted"} /\ record' \in {"live", "deleted"}
      /\ (record' = "deleted" \/ record' = record)
  BY <1>2 DEF Fits, Remove
<1>4. \A v \in Workers \ {w} : Serving(v) => Fits(request[v], record', object')
  BY <1>3, OthersOfOld
<1>5. RowsHaveTheirObject'
  BY <1>1, <1>3 DEF RowsHaveTheirObject, Kept
<1>6. CASE record' = "deleted" /\ Advance(w)
  <2>1. ASSUME Tail(t) # <<>>
        PROVE  Fits([todo |-> Tail(t), missed |-> FALSE], record', object')
    <3>1. t \in FileLeft /\ Tail(t) = <<"drop">>
      BY <1>2, <2>1
    <3>2. Belongs(<<"drop">>)
      BY <1>2, <3>1, KindsApart DEF Fits, Belongs, RowLeft
    <3>3. /\ <<"drop">> \in RowLeft /\ <<"drop">> \notin CreatingLeft
          /\ <<"drop">> # <<"insert">>
      BY KindsApart DEF RowLeft
    <3> QED BY <1>6, <3>1, <3>2, <3>3 DEF Fits, Request, Left
  <2>2. PICK r : /\ Become(w, r)
                 /\ r # NoJob => Fits(r, record', object') /\ r.todo = Tail(t)
                                 /\ Tail(t) # <<>>
    BY <1>1, <1>6, <2>1, AdvanceFits
  <2>3. r # NoJob => r.todo \notin CreatingLeft
    BY <1>2, <2>2, KindsApart DEF RowLeft
  <2> QED BY <1>1, <1>3, <1>4, <1>5, <2>2, <2>3, MoveKept DEF Kept, Shaped
<1>7. CASE End(w)
  BY <1>1, <1>3, <1>4, <1>5, <1>7, MoveKept DEF Kept, Shaped, End
<1> QED BY <1>6, <1>7 DEF Remove

LEMMA RemoveAgentKept ==
  ASSUME Kept, NEW w \in Workers, RemoveAgent(w)
  PROVE  Kept'
<1>1. /\ Become(w, NoJob) /\ UNCHANGED <<thing, unreliable, object, written>>
      /\ agent' \in {agent, "deleted"}
      /\ record' = record \/ (record = "live" /\ record' = "deleted")
  BY DEF RemoveAgent, Keep, End
<1>2. \A v \in Workers \ {w} : Serving(v) => Fits(request[v], record', object')
  <2>1. CASE record' = record
    BY <1>1, <2>1, OthersStay
  <2>2. CASE record = "live" /\ record' = "deleted"
    BY <2>2, OthersOfOld
  <2> QED BY <1>1, <2>1, <2>2
<1> QED BY <1>1, <1>2, MoveKept DEF Kept, Shaped, RowsHaveTheirObject

LEMMA AgentWritesKept ==
  ASSUME Kept, AgentWrites
  PROVE  Kept'
<1>1. /\ thing \in WrittenByAgents /\ record = "live"
      /\ object' = "whole" /\ written' = TRUE
      /\ UNCHANGED <<thing, unreliable, record, agent, request>>
  BY DEF AgentWrites, Keep
<1>2. ASSUME NEW w \in Workers, Serving(w)'
      PROVE  Fits(request[w], record, object)'
  <2>1. Fits(request[w], record, object)
    BY <1>1, <1>2 DEF Kept, Serving
  <2> QED BY <1>1, <2>1 DEF Fits, Belongs
<1> QED BY <1>1, <1>2 DEF Kept, Shaped, Serving, RowsHaveTheirObject

LEMMA InitKept ==
  ASSUME Init
  PROVE  Kept
BY DEF Init, Kept, Shaped, Things, Serving, RowsHaveTheirObject

LEMMA NextKept ==
  ASSUME Kept, [Next]_vars
  PROVE  Kept'
<1>1. CASE AgentWrites
  BY <1>1, AgentWritesKept
<1>2. ASSUME NEW w \in Workers,
             \/ \E op \in {"create", "download", "delete", "deleteAgent"} : Begin(w, op)
             \/ Put(w) \/ Load(w) \/ LoadAgent(w) \/ Insert(w) \/ Fetch(w) \/ Answer(w)
             \/ Drop(w) \/ Remove(w) \/ RemoveAgent(w) \/ Crash(w)
      PROVE  Kept'
  <2>1. CASE Answer(w) \/ Crash(w)
    BY <2>1, StepKept DEF Answer, Crash, End, Keep
  <2> QED BY <1>2, <2>1, BeginKept, PutKept, LoadKept, LoadAgentKept, InsertKept, FetchKept,
             DropKept, RemoveKept, RemoveAgentKept
<1>3. CASE UNCHANGED vars
  <2>1. UNCHANGED <<thing, unreliable, record, agent, object, written, request>>
    BY <1>3 DEF vars
  <2>2. ASSUME NEW w \in Workers, Serving(w)'
        PROVE  Fits(request[w], record, object)'
    <3>1. Fits(request[w], record, object)
      BY <2>1, <2>2 DEF Kept, Serving
    <3> QED BY <2>1, <3>1 DEF Fits, Belongs
  <2> QED BY <2>1, <2>2 DEF Kept, Shaped, Serving, RowsHaveTheirObject
<1> QED BY <1>1, <1>2, <1>3 DEF Next

LEMMA AlwaysKept == Spec => []Kept
BY InitKept, NextKept, PTL DEF Spec

(* A request in progress has steps left, and the row, the object and the   *)
(* agent are in one of their states.                                       *)
THEOREM AttachmentsTypeCorrect == Spec => []TypeOK
<1>1. Kept => TypeOK
  <2> SUFFICES ASSUME Kept PROVE TypeOK
    OBVIOUS
  <2>1. ASSUME NEW w \in Workers, Serving(w) PROVE request[w].todo # <<>>
    BY <2>1, StepsOf DEF Kept, Fits, Request, StepOf
  <2> QED BY <2>1 DEF Kept, Shaped, TypeOK
<1> QED BY <1>1, AlwaysKept, PTL

(* Whatever fails and whoever dies, a file that is listed has its content  *)
(* and a Foundry conversation its counterpart (upload_file and             *)
(* create_conversation insert the row last).                               *)
THEOREM ListedRowsHaveTheirObject == Spec => []RowsHaveTheirObject
<1>1. Kept => RowsHaveTheirObject
  BY DEF Kept
<1> QED BY <1>1, AlwaysKept, PTL

(* Whatever fails, a download misses only a file that was deleted          *)
(* meanwhile (delete_file commits first).                                  *)
THEOREM DownloadsMissOnlyDeleted == Spec => []MissingOnlyIfDeleted
<1>1. Kept => MissingOnlyIfDeleted
  BY DEF Kept, Fits, MissingOnlyIfDeleted
<1> QED BY <1>1, AlwaysKept, PTL

-----------------------------------------------------------------------------
(* Nothing is left or lost while nothing fails.  A request that has its    *)
(* last step to do is one.                                                 *)
Distinct == \A step \in {"drop", "remove"} : NoJob # [todo |-> <<step>>, missed |-> FALSE]

(* A step of the request that is about to drop, or to remove, is that one. *)
LEMMA StillAboutTo ==
  ASSUME Kept, NEW w \in Workers, NEW r, Become(w, r), NEW step, AboutTo(step),
         ~(Serving(w) /\ ~request[w].missed /\ request[w].todo = <<step>>)
  PROVE  AboutTo(step)'
<1>1. PICK v \in Workers :
        Serving(v) /\ ~request[v].missed /\ request[v].todo = <<step>>
  BY DEF AboutTo
<1>2. v # w /\ request'[v] = request[v]
  BY <1>1 DEF Kept, Shaped, Become
<1> QED BY <1>1, <1>2 DEF AboutTo, Serving

(* A step that neither deletes the row nor changes what is to be deleted.  *)
LEMMA StepSettled ==
  ASSUME Kept, Settled, NEW w \in Workers, NEW r, Become(w, r),
         UNCHANGED <<thing, unreliable, record, object, written>>,
         ~(Serving(w) /\ ~request[w].missed /\ request[w].todo \in {<<"drop">>, <<"remove">>})
  PROVE  Settled'
<1>1. AboutTo("drop") => AboutTo("drop")'
  BY StillAboutTo
<1>2. AboutTo("remove") => AboutTo("remove")'
  BY StillAboutTo
<1> QED BY <1>1, <1>2 DEF Settled, WrittenByAgents

LEMMA NextSettled ==
  ASSUME Distinct, Kept, Settled, [Next]_vars
  PROVE  Settled'
<1>0. ASSUME NEW w \in Workers, NEW step \in {"load", "loadAgent", "fetch"}, At(w, step)
      PROVE  request[w].todo \notin {<<"drop">>, <<"remove">>}
  BY <1>0, AtStep
<1>1. CASE AgentWrites
  BY <1>1 DEF AgentWrites, Keep, Settled
<1>2. ASSUME NEW w \in Workers, NEW op \in {"create", "download", "delete", "deleteAgent"},
             Begin(w, op)
      PROVE  Settled'
  <2>1. CASE UNCHANGED record
    BY <1>2, <2>1, StepSettled DEF Begin, Keep
  <2> QED BY <1>2, <2>1 DEF Begin, Settled
<1>3. ASSUME NEW w \in Workers, Put(w) \/ Insert(w)
      PROVE  Settled'
  <2>1. record = "named" /\ ~written
    <3>1. request[w].todo \in CreatingLeft /\ Fits(request[w], record, object)
      BY <1>3, AtStep, KindsApart DEF Put, Insert, StepOf
    <3> QED BY <3>1 DEF Fits, Kept
  <2> QED BY <1>3, <2>1 DEF Put, Insert, Keep, Settled
<1>4. ASSUME NEW w \in Workers, Load(w) \/ LoadAgent(w) \/ Fetch(w) \/ Answer(w)
      PROVE  Settled'
  <2>1. /\ UNCHANGED <<thing, unreliable, record, object, written>>
        /\ \E r : Become(w, r)
    BY <1>4 DEF Load, LoadAgent, Fetch, Answer, Keep, Advance, End
  <2>2. ~(/\ Serving(w) /\ ~request[w].missed
          /\ request[w].todo \in {<<"drop">>, <<"remove">>})
    BY <1>0, <1>4 DEF Load, LoadAgent, Fetch, Answer
  <2> QED BY <2>1, <2>2, StepSettled
<1>5. ASSUME NEW w \in Workers, Drop(w), ~unreliable
      PROVE  Settled'
  <2>1. At(w, "drop") /\ UNCHANGED <<thing, unreliable, record, written>> /\ object' = "none"
    BY <1>5 DEF Drop, Keep
  <2>2. ASSUME thing \in WrittenByAgents
        PROVE  AboutTo("remove")'
    <3>1. Tail(request[w].todo) = <<"remove">> /\ Serving(w) /\ ~request[w].missed
      BY <2>1, <2>2, AtStep, KindsApart DEF StepOf, Fits, Belongs, WrittenByAgents
    <3>2. Advance(w)
      BY <1>5, <2>2 DEF Drop, WrittenByAgents
    <3>3. Become(w, [todo |-> <<"remove">>, missed |-> request[w].missed])
      BY <3>1, <3>2, AdvanceIs, KindsApart
    <3>4. request[w].missed = FALSE
      BY <3>1 DEF Kept, Fits, Request
    <3>5. request'[w] = [todo |-> <<"remove">>, missed |-> FALSE]
      BY <3>3, <3>4 DEF Become, Kept, Shaped
    <3> QED BY <3>5 DEF AboutTo, Serving, Distinct
  <2> QED BY <2>1, <2>2 DEF Settled, WrittenByAgents
<1>6. ASSUME NEW w \in Workers, Remove(w), ~unreliable
      PROVE  Settled'
  <2>1. /\ At(w, "remove") /\ UNCHANGED <<thing, unreliable, object, written>>
        /\ record' = "deleted" /\ Advance(w)
    BY <1>6 DEF Remove, Keep
  <2>2. ASSUME thing = "file"
        PROVE  AboutTo("drop")'
    <3>1. Tail(request[w].todo) = <<"drop">> /\ Serving(w) /\ ~request[w].missed
      BY <2>1, <2>2, AtStep, KindsApart DEF StepOf, Fits, Belongs
    <3>2. Become(w, [todo |-> <<"drop">>, missed |-> request[w].missed])
      BY <2>1, <3>1, AdvanceIs, KindsApart
    <3>3. request[w].missed = FALSE
      BY <3>1 DEF Kept, Fits, Request
    <3>4. request'[w] = [todo |-> <<"drop">>, missed |-> FALSE]
      BY <3>2, <3>3 DEF Become, Kept, Shaped
    <3> QED BY <3>4 DEF AboutTo, Serving, Distinct
  <2> QED BY <2>1, <2>2 DEF Settled
<1>7. ASSUME NEW w \in Workers, RemoveAgent(w), ~unreliable
      PROVE  Settled'
  <2>1. thing \in Conversations
    BY <1>7, AtStep DEF RemoveAgent, StepOf, Fits, Belongs
  <2>2. record' # "live" /\ thing' = thing /\ thing # "file"
    BY <1>7, <2>1 DEF RemoveAgent, Keep, Conversations
  <2> QED BY <2>2 DEF Settled
<1>8. ASSUME NEW w \in Workers, Drop(w) \/ Remove(w) \/ RemoveAgent(w) \/ Crash(w), unreliable
      PROVE  Settled'
  BY <1>8 DEF Drop, Remove, RemoveAgent, Crash, Keep, Settled
<1>9. CASE UNCHANGED vars
  BY <1>9 DEF vars, Settled, AboutTo, Serving
<1> QED BY <1>1, <1>2, <1>3, <1>4, <1>5, <1>6, <1>7, <1>8, <1>9 DEF Next, Crash

(* While the calls succeed, a deleted file leaves no content behind, and   *)
(* what the agent service wrote for a conversation or a workflow is there  *)
(* as long as the row is, unless it is just being deleted: who deletes one *)
(* goes on to delete the other (delete_file, delete_conversation,          *)
(* delete_workflow).                                                       *)
THEOREM DeletionsAreComplete ==
  ASSUME Distinct
  PROVE  Spec => []NothingLeftNorLost
<1>1. Init => Settled
  BY DEF Init, Settled
<1>2. Kept /\ Settled /\ [Next]_vars => Settled'
  BY NextSettled
<1>3. Settled => NothingLeftNorLost
  BY DEF Settled, NothingLeftNorLost, Deleting, AboutTo
<1> QED BY <1>1, <1>2, <1>3, AlwaysKept, PTL DEF Spec
===============================================================================
