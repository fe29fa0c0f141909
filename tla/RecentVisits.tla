------------------------------ MODULE RecentVisits ------------------------------
(***************************************************************************)
(* The resources a user has visited.  The clients send what was visited in *)
(* batches; a batch is looked up row by row, stored in one commit, and     *)
(* then whatever exceeds the cap is counted, selected and deleted, each in *)
(* a statement of its own (READ COMMITTED).  Several batches of one user   *)
(* may be on their way, and resources are deleted meanwhile.               *)
(***************************************************************************)
EXTENDS Naturals, Sequences, FiniteSets

CONSTANTS
  Resources,
  MaxVisits,   \* MAX_VISITS_PER_USER
  MaxBatch,    \* bounds a batch
  MaxSyncs,    \* bounds the batches
  Workers,     \* batches on their way; the first free one takes the next
  NoJob, NoVisit

VARIABLES
  failing,     \* may commits fail and processes die?
  existing,    \* the resources that exist
  visit,       \* resource -> its row: an id and when it was visited
  clock,       \* the next id and the next time
  sync,        \* worker -> the batch it stores
  syncs        \* batches still to come

vars == <<failing, existing, visit, clock, sync, syncs>>

Visited == {r \in Resources : visit[r] # NoVisit}
Syncing(w) == sync[w] # NoJob
At(w, step) == Syncing(w) /\ sync[w].pc = step
Become(w, s) == sync' = [sync EXCEPT ![w] = s]
Goto(w, step) == Become(w, [sync[w] EXCEPT !.pc = step])
End(w) == Become(w, NoJob)

-----------------------------------------------------------------------------
(* The request's resources are not looked at: they may have gone.          *)
SyncRecentVisits(w, batch) ==
  /\ ~Syncing(w) /\ \A v \in Workers : v < w => Syncing(v)
  /\ syncs > 0 /\ syncs' = syncs - 1
  /\ Become(w, [pc |-> "collect", batch |-> batch, known |-> {}, new |-> <<>>,
                excess |-> 0, oldest |-> {}])
  /\ UNCHANGED <<failing, existing, visit, clock>>

(* One SELECT per item; nothing is flushed in between (autoflush=False).   *)
Collect(w) ==
  LET r == Head(sync[w].batch)
      rest == [sync[w] EXCEPT !.batch = Tail(@)] IN
  /\ At(w, "collect")
  /\ IF sync[w].batch = <<>>
     THEN Goto(w, "store") /\ UNCHANGED clock
     ELSE IF r \in Visited
     THEN /\ Become(w, [rest EXCEPT !.known =
              {k \in @ : k.resource # r} \cup
              {[resource |-> r, row |-> [id |-> visit[r].id, at |-> clock]]}])
          /\ clock' = clock + 1
     ELSE Become(w, [rest EXCEPT !.new = Append(@, r)]) /\ UNCHANGED clock
  /\ UNCHANGED <<failing, existing, visit, syncs>>

(* A row that has gone makes the UPDATE fail, a row that is there already  *)
(* (or twice in the batch) the INSERT (uq_recent_visits).                   *)
Storable(known, new) ==
  /\ \A k \in known : k.resource \in Visited /\ visit[k.resource].id = k.row.id
  /\ \A i \in DOMAIN new : new[i] \notin Visited
  /\ \A i, j \in DOMAIN new : new[i] = new[j] => i = j

Stored(known, new) ==
  [r \in Resources |->
     IF \E k \in known : k.resource = r
     THEN (CHOOSE k \in known : k.resource = r).row
     ELSE IF \E i \in DOMAIN new : new[i] = r
     THEN LET n == clock + (CHOOSE i \in DOMAIN new : new[i] = r) IN [id |-> n, at |-> n]
     ELSE visit[r]]

Store(w) ==
  LET known == sync[w].known new == sync[w].new IN
  /\ At(w, "store")
  /\ \/ /\ Storable(known, new)
        /\ visit' = Stored(known, new)
        /\ clock' = clock + Len(new) + 1
        /\ Goto(w, "count")
     \/ /\ failing \/ ~Storable(known, new)
        /\ End(w)
        /\ UNCHANGED <<visit, clock>>
  /\ UNCHANGED <<failing, existing, syncs>>

-----------------------------------------------------------------------------
(* _cleanup_old_visits                                                     *)
(* Mutated: one more is allowed.                                           *)
CountOffByOne(w) ==
  /\ At(w, "count")
  /\ IF Cardinality(Visited) > MaxVisits + 1
     THEN Become(w, [sync[w] EXCEPT !.pc = "oldest",
                                    !.excess = Cardinality(Visited) - MaxVisits])
     ELSE End(w)
  /\ UNCHANGED <<failing, existing, visit, clock, syncs>>
Count(w) ==
  /\ At(w, "count")
  /\ IF Cardinality(Visited) > MaxVisits
     THEN Become(w, [sync[w] EXCEPT !.pc = "oldest",
                                    !.excess = Cardinality(Visited) - MaxVisits])
     ELSE End(w)
  /\ UNCHANGED <<failing, existing, visit, clock, syncs>>

(* The n rows visited longest ago (fewer, if there are not as many).       *)
Before(r) == {s \in Visited : visit[s].at < visit[r].at}
OldestIds(n) == {visit[r].id : r \in {s \in Visited : Cardinality(Before(s)) < n}}

SelectOldest(w) ==
  /\ At(w, "oldest")
  /\ Become(w, [sync[w] EXCEPT !.pc = "purge", !.oldest = OldestIds(sync[w].excess)])
  /\ UNCHANGED <<failing, existing, visit, clock, syncs>>

Purge(w) ==
  /\ At(w, "purge")
  /\ \/ visit' = [r \in Resources |->
           IF r \in Visited /\ visit[r].id \in sync[w].oldest THEN NoVisit ELSE visit[r]]
     \/ failing /\ UNCHANGED visit
  /\ End(w)
  /\ UNCHANGED <<failing, existing, clock, syncs>>

-----------------------------------------------------------------------------
(* delete_chat_agent, delete_workflow, delete_chat_widget and              *)
(* delete_external_app delete the visits in the same transaction.          *)
DeleteResource(r) ==
  /\ r \in existing
  /\ existing' = existing \ {r}
  /\ visit' = [visit EXCEPT ![r] = NoVisit]
  /\ UNCHANGED <<failing, clock, sync, syncs>>

Crash(w) ==
  /\ failing
  /\ Syncing(w)
  /\ End(w)
  /\ UNCHANGED <<failing, existing, visit, clock, syncs>>

(* list_recent_visits: of the 2 * limit most recent rows those whose       *)
(* resource exists, limit at most.  No step: it changes nothing.           *)
Latest(n, rows) ==
  {r \in rows : Cardinality({s \in rows : visit[s].at > visit[r].at}) < n}
(* Mutated: the limit is applied before the filter.                        *)
ListTooFew(limit) == Latest(limit, Visited) \cap existing
ListRecentVisits(limit) == Latest(limit, Latest(2 * limit, Visited) \cap existing)

-----------------------------------------------------------------------------
Init ==
  /\ failing \in BOOLEAN
  /\ existing = Resources
  /\ visit = [r \in Resources |-> NoVisit]
  /\ clock = 0
  /\ sync = [w \in Workers |-> NoJob]
  /\ syncs = MaxSyncs

Next ==
  \/ \E w \in Workers :
       \/ \E n \in 0 .. MaxBatch : \E batch \in [1 .. n -> Resources] :
            SyncRecentVisits(w, batch)
       \/ Collect(w) \/ Store(w) \/ Count(w) \/ SelectOldest(w) \/ Purge(w) \/ Crash(w)
  \/ \E r \in Resources : DeleteResource(r)

-----------------------------------------------------------------------------
(* What a batch that is being stored knows.                                *)
Batches ==
  [pc : {"collect", "store", "count", "oldest", "purge"}, batch : Seq(Resources),
   known : SUBSET [resource : Resources, row : [id : Nat, at : Nat]],
   new : Seq(Resources), excess : Nat, oldest : SUBSET Nat]

TypeOK ==
  /\ existing \subseteq Resources
  /\ \A r \in Visited : visit[r] \in [id : 0 .. clock, at : 0 .. clock]
  /\ \A w \in Workers : Syncing(w) => sync[w].excess <= Cardinality(Resources)

(* Once the batches have been stored, no more visits are left than the cap *)
(* allows, however the stores and the cleanups of overlapping batches were *)
(* ordered (the last to count sees every store before it).                 *)
VisitsBounded ==
  ~failing /\ (\A w \in Workers : ~Syncing(w)) => Cardinality(Visited) <= MaxVisits

(* A list shows the most recent visits whose resources exist, as long as   *)
(* no more than limit visits are to resources that have gone (a client can *)
(* add such a visit at any time).                                          *)
ListedAreLatest ==
  \A limit \in 1 .. MaxVisits :
    Cardinality(Visited \ existing) <= limit =>
      ListRecentVisits(limit) = Latest(limit, Visited \cap existing)
===============================================================================
