------------------------------ MODULE Attachments ------------------------------
(***************************************************************************)
(* A row of PostgreSQL and what belongs to it in another system:           *)
(*   file          its content, in the file storage                        *)
(*   conversation, its messages and traces, which the agent service        *)
(*   workflow      writes while the row lives                              *)
(*   foundry       the conversation at Microsoft Foundry of a conversation *)
(*                 with one of its agents                                  *)
(* No transaction spans the two: each request goes through the steps of    *)
(* its handler, any others' steps in between, and may end after any step.  *)
(***************************************************************************)
EXTENDS Sequences

CONSTANTS Workers, NoJob

VARIABLES
  thing,       \* which of the four
  unreliable,  \* may calls and commits fail and processes die?
  record,      \* its row
  agent,       \* the row of the chat agent that a conversation is with
  object,      \* what the other system holds: "part" if an upload broke off
  written,     \* has the agent service written anything?
  request      \* worker -> the request it serves

vars == <<thing, unreliable, record, agent, object, written, request>>

Conversations == {"conversation", "foundry"}
WrittenByAgents == {"conversation", "workflow"}

-----------------------------------------------------------------------------
(* Mutated: the row is inserted before the content is stored.              *)
UploadFileRowFirst == <<"insert", "put">>
UploadFile == <<"put", "insert">>
DownloadFile == <<"load", "fetch">>
(* Mutated: the content is deleted before the row.                         *)
DeleteFileBlobFirst == <<"load", "drop", "remove">>
DeleteFile == <<"load", "remove", "drop">>
CreateConversation ==
  IF thing = "foundry" THEN <<"loadAgent", "put", "insert">> ELSE <<"loadAgent", "insert">>
(* Nothing deletes the conversation at Foundry.                            *)
DeleteConversation ==
  IF thing = "foundry" THEN <<"load", "remove">> ELSE <<"load", "drop", "remove">>
(* Its conversations are deleted by the foreign key.                       *)
DeleteChatAgent == <<"loadAgent", "removeAgent">>
CreateWorkflow == <<"insert">>
DeleteWorkflow == <<"load", "drop", "remove">>

Programs ==
  CASE thing = "file" ->
         [create |-> UploadFile, download |-> DownloadFile, delete |-> DeleteFile]
    [] thing = "workflow" -> [create |-> CreateWorkflow, delete |-> DeleteWorkflow]
    [] thing \in Conversations ->
         [create |-> CreateConversation, delete |-> DeleteConversation,
          deleteAgent |-> DeleteChatAgent]

Serving(w) == request[w] # NoJob
At(w, step) == Serving(w) /\ ~request[w].missed /\ Head(request[w].todo) = step
Become(w, r) == request' = [request EXCEPT ![w] = r]
End(w) == Become(w, NoJob)
Advance(w) ==
  Become(w, IF Tail(request[w].todo) = <<>> THEN NoJob
            ELSE [request[w] EXCEPT !.todo = Tail(@)])
Keep(others) == UNCHANGED <<thing, unreliable, others>>

(* An id is known to others once its row is inserted.                      *)
Begin(w, op) ==
  /\ ~Serving(w)
  /\ op \in DOMAIN Programs
  /\ IF op = "create" THEN record = "none" /\ record' = "named"
     ELSE /\ op = "deleteAgent" \/ record \in {"live", "deleted"}
          /\ UNCHANGED record
  /\ Become(w, [todo |-> Programs[op], missed |-> FALSE])
  /\ Keep(<<agent, object, written>>)

-----------------------------------------------------------------------------
(* storage.upload, get_conversation_id                                     *)
Put(w) ==
  /\ At(w, "put")
  /\ \/ object' = "whole" /\ Advance(w)
     \/ unreliable /\ object' \in {object, "part"} /\ End(w)
  /\ Keep(<<record, agent, written>>)

(* 404 for a row that is not there.                                        *)
Load(w) ==
  /\ At(w, "load")
  /\ IF record = "live" THEN Advance(w) ELSE End(w)
  /\ Keep(<<record, agent, object, written>>)

LoadAgent(w) ==
  /\ At(w, "loadAgent")
  /\ IF agent = "live" THEN Advance(w) ELSE End(w)
  /\ Keep(<<record, agent, object, written>>)

(* A conversation needs its chat agent's row (foreign key).                *)
Insert(w) ==
  /\ At(w, "insert")
  /\ \/ /\ agent = "live"
        /\ record' = "live"
        /\ Advance(w)
     \/ /\ unreliable \/ agent # "live"
        /\ UNCHANGED record
        /\ End(w)
  /\ Keep(<<agent, object, written>>)

(* storage.download raises FileNotFoundError.                              *)
Fetch(w) ==
  /\ At(w, "fetch")
  /\ IF object = "whole" THEN End(w) ELSE Become(w, [request[w] EXCEPT !.missed = TRUE])
  /\ Keep(<<record, agent, object, written>>)

Answer(w) ==
  /\ Serving(w) /\ request[w].missed
  /\ End(w)
  /\ Keep(<<record, agent, object, written>>)

(* delete_conversation_data and delete_workflow_data answer False to any   *)
(* failure and the handler goes on; Azure refuses to delete what has gone. *)
Drop(w) ==
  /\ At(w, "drop")
  /\ \/ object' = "none" /\ Advance(w)
     \/ unreliable /\ UNCHANGED object /\ Advance(w)
     \/ thing = "file" /\ (unreliable \/ object = "none") /\ UNCHANGED object /\ End(w)
  /\ Keep(<<record, agent, written>>)

(* Mutated: the session ends without the commit.                           *)
RemoveLost(w) ==
  /\ At(w, "remove")
  /\ Advance(w)
  /\ Keep(<<record, agent, object, written>>)
(* Deleting a row that has gone meanwhile is a warning only.               *)
Remove(w) ==
  /\ At(w, "remove")
  /\ \/ record' = "deleted" /\ Advance(w)
     \/ unreliable /\ UNCHANGED record /\ End(w)
  /\ Keep(<<agent, object, written>>)

RemoveAgent(w) ==
  /\ At(w, "removeAgent")
  /\ \/ /\ agent' = "deleted"
        /\ record' = IF record = "live" THEN "deleted" ELSE record
     \/ unreliable /\ UNCHANGED <<agent, record>>
  /\ End(w)
  /\ Keep(<<object, written>>)

(* The agent service writes for a row that it has looked up.               *)
AgentWrites ==
  /\ thing \in WrittenByAgents /\ record = "live"
  /\ object' = "whole" /\ written' = TRUE
  /\ Keep(<<record, agent, request>>)

Crash(w) ==
  /\ unreliable
  /\ Serving(w)
  /\ End(w)
  /\ Keep(<<record, agent, object, written>>)

-----------------------------------------------------------------------------
Init ==
  /\ thing \in Conversations \cup WrittenByAgents \cup {"file"}
  /\ unreliable \in BOOLEAN
  /\ record = "none" /\ agent = "live" /\ object = "none" /\ written = FALSE
  /\ request = [w \in Workers |-> NoJob]

Next ==
  \/ AgentWrites
  \/ \E w \in Workers :
       \/ \E op \in {"create", "download", "delete", "deleteAgent"} : Begin(w, op)
       \/ Put(w) \/ Load(w) \/ LoadAgent(w) \/ Insert(w) \/ Fetch(w) \/ Answer(w)
       \/ Drop(w) \/ Remove(w) \/ RemoveAgent(w) \/ Crash(w)
Spec == Init /\ [][Next]_vars

-----------------------------------------------------------------------------
TypeOK ==
  /\ record \in {"none", "named", "live", "deleted"} /\ agent \in {"live", "deleted"}
  /\ object \in {"none", "part", "whole"} /\ written \in BOOLEAN
  /\ \A w \in Workers : Serving(w) => request[w].todo # <<>>

(* A file that is listed has its content, and a Foundry conversation its   *)
(* counterpart, whatever fails and whoever dies (upload_file and           *)
(* create_conversation insert the row last).                               *)
RowsHaveTheirObject ==
  thing \in {"file", "foundry"} /\ record = "live" => object = "whole"

(* download_file misses the content of a file only if that file was        *)
(* deleted meanwhile (delete_file commits first).                          *)
MissingOnlyIfDeleted ==
  \A w \in Workers : Serving(w) /\ request[w].missed => record = "deleted"

(* While the calls succeed, a deleted file leaves no content behind, and   *)
(* what the agent service wrote for a conversation or a workflow is there  *)
(* as long as the row is, unless it is just being deleted.                 *)
Deleting == \E w \in Workers : Serving(w)
NothingLeftNorLost ==
  ~unreliable /\ ~Deleting =>
    /\ thing = "file" /\ record = "deleted" => object = "none"
    /\ thing \in WrittenByAgents /\ record = "live" /\ written => object = "whole"
===============================================================================
