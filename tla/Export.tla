------------------------------- MODULE Export -------------------------------
(****************************************************************************)
(* kube-etl export: every object of a cluster is listed, kind by kind, and  *)
(* written to a zip archive, while the cluster changes, calls and writes    *)
(* fail, the command is killed at any point and is run again later with the *)
(* same output file.  Errors are collected and returned at the end, as far  *)
(* as the code goes on after them.                                          *)
(****************************************************************************)
EXTENDS Naturals, FiniteSets

CONSTANTS
  Kinds,     \* what discovery lists: a group, can it be listed, is it a subresource
  Names,     \* names of objects
  InitItems, \* the objects at the start
  Budget     \* how often the environment may interfere, by kind

Disturbances == {"run", "kill", "fault", "disk", "change"}

\* a kind that the command exports
Exported(kind) == kind.list /\ ~kind.subresource

\* the objects there can be: <<kind, name>>
Items == {k \in Kinds : Exported(k)} \X Names

ASSUME ExportAssumption ==
  /\ InitItems \subseteq Items
  /\ \A k \in Kinds : k.list \in BOOLEAN /\ k.subresource \in BOOLEAN
  /\ Budget \in [Disturbances -> Nat]

VARIABLES
  cluster,  \* the objects of the cluster
  always,   \* history: those that existed all through the run
  seen,     \* history: those that existed at some time during the run
  pc,       \* where the command is
  todo,     \* the kinds it has not listed yet
  items,    \* the objects it listed and has not written yet
  dropped,  \* the groups that discovery left out
  errs,     \* the errors to return: what they are about
  file,     \* the output file
  broken,   \* a write failed: the writer refuses all later ones
  exit,     \* how the last run ended
  budget    \* how often the environment may still interfere

vars == <<cluster, always, seen, pc, todo, items, dropped, errs, file, broken, exit, budget>>
clusterVars == <<cluster, always, seen>>
sinkVars == <<file, broken>>

Errors == {<<"sink">>, <<"config">>, <<"discovery">>, <<"close">>}
            \cup ({"list"} \X Kinds) \cup ({"object"} \X Items)

NoFile == [entries |-> {}, final |-> FALSE]

Init ==
  /\ cluster = InitItems
  /\ always = {} /\ seen = {}
  /\ pc = "idle"
  /\ todo = {} /\ items = {} /\ dropped = {} /\ errs = {}
  /\ file = NoFile
  /\ broken = FALSE
  /\ exit = "none"
  /\ budget = Budget

\* the environment interferes, once for each of the kinds
Spend(kinds) ==
  /\ \A k \in kinds : budget[k] > 0
  /\ budget' = [k \in Disturbances |-> IF k \in kinds THEN budget[k] - 1 ELSE budget[k]]
------------------------------------------------------------------------------
\* mutant: the archive of the earlier run is opened, not truncated
OpenFileKeeps == file

\* os.Create truncates the archive of an earlier run
OpenFile == NoFile

\* RunExport, NewZipSink: the output is opened before anything else is tried
OpenSink ==
  /\ pc = "idle"
  /\ \/ /\ Spend({"run"})
        /\ pc' = "config"
        /\ file' = OpenFile
        /\ broken' = FALSE
        /\ always' = cluster
        /\ seen' = cluster
        /\ exit' = "running"
        /\ errs' = {}
     \/ /\ Spend({"run", "fault"})
        /\ exit' = "error"
        /\ errs' = {<<"sink">>}
        /\ UNCHANGED <<pc, sinkVars, always, seen>>
  /\ todo' = {} /\ items' = {} /\ dropped' = {}
  /\ UNCHANGED cluster

\* the kubeconfig and the clients made from it
Configure ==
  /\ pc = "config"
  /\ \/ pc' = "discover" /\ UNCHANGED <<errs, budget>>
     \/ Spend({"fault"}) /\ pc' = "close" /\ errs' = {<<"config">>}
  /\ UNCHANGED <<clusterVars, todo, items, dropped, sinkVars, exit>>

\* ServerPreferredResources.  Groups whose discovery failed are left out without
\* an error; after any other error the command goes on with what it got, if that
\* is anything.
Discover ==
  /\ pc = "discover"
  /\ \/ /\ todo' = Kinds
        /\ pc' = "list"
        /\ UNCHANGED <<dropped, errs, budget>>
     \/ /\ Spend({"fault"})
        /\ \E lost \in SUBSET {k.group : k \in Kinds} :
             /\ lost # {}
             /\ dropped' = lost
             /\ todo' = {x \in Kinds : x.group \notin lost}
        /\ pc' = "list"
        /\ UNCHANGED errs
     \/ /\ Spend({"fault"})
        /\ todo' \in SUBSET Kinds
        /\ pc' = IF todo' = {} THEN "close" ELSE "list"
        /\ errs' = {<<"discovery">>}
        /\ UNCHANGED dropped
  /\ UNCHANGED <<clusterVars, items, sinkVars, exit>>

\* mutant: the first kind that cannot be listed ends the export
ListFailsFast(k) ==
  /\ errs' = errs \cup {<<"list", k>>}
  /\ todo' = {}
  /\ UNCHANGED items

\* a kind that cannot be listed is reported and passed over
ListFails(k) ==
  /\ errs' = errs \cup {<<"list", k>>}
  /\ todo' = todo \ {k}
  /\ UNCHANGED items

\* The next kind: its objects in all namespaces, in one list.  Discovery gives the
\* kinds in no particular order.
ListKind(k) ==
  /\ pc = "list"
  /\ items = {}
  /\ k \in todo
  /\ \/ /\ ~Exported(k)
        /\ todo' = todo \ {k}
        /\ UNCHANGED <<items, errs, budget>>
     \/ /\ Exported(k)
        /\ todo' = todo \ {k}
        /\ items' = {x \in cluster : x[1] = k}
        /\ UNCHANGED <<errs, budget>>
     \/ /\ Exported(k)
        /\ Spend({"fault"})
        /\ ListFails(k)
  /\ UNCHANGED <<clusterVars, pc, dropped, sinkVars, exit>>

\* ZipSink.Write returns no error once the entry is in the writer's buffer; a write
\* to the file that fails makes this and every later call fail.
SinkWrite(x) ==
  \/ /\ ~broken
     /\ file' = [file EXCEPT !.entries = @ \cup {x}]
     /\ UNCHANGED <<broken, errs, budget>>
  \/ /\ IF broken THEN UNCHANGED budget ELSE Spend({"disk"})
     /\ broken' = TRUE
     /\ errs' = errs \cup {<<"object", x>>}
     /\ UNCHANGED file

\* the next object: it may not be marshalled, or not be written
WriteItem(x) ==
  /\ pc = "list"
  /\ x \in items
  /\ items' = items \ {x}
  /\ \/ SinkWrite(x)
     \/ /\ Spend({"fault"})
        /\ errs' = errs \cup {<<"object", x>>}
        /\ UNCHANGED sinkVars
  /\ UNCHANGED <<clusterVars, pc, todo, dropped, exit>>

AllListed ==
  /\ pc = "list"
  /\ todo = {} /\ items = {}
  /\ pc' = "close"
  /\ UNCHANGED <<clusterVars, todo, items, dropped, errs, sinkVars, exit, budget>>

\* mutant: the error of the deferred Close is dropped
retErrUnchecked == errs

\* what RunExport returns when Close failed: its error only if there is no other
retErr == IF errs = {} THEN {<<"close">>} ELSE errs

Exit(returned) ==
  /\ errs' = returned
  /\ exit' = IF returned = {} THEN "ok" ELSE "error"
  /\ pc' = "idle"

\* The deferred ZipSink.Close: the writer flushes its buffer and adds the
\* directory, without which nothing can be read; then the file is closed.
CloseSink ==
  /\ pc = "close"
  /\ \/ /\ ~broken
        /\ file' = [file EXCEPT !.final = TRUE]
        /\ Exit(errs)
        /\ UNCHANGED <<broken, budget>>
     \/ /\ IF broken THEN UNCHANGED budget ELSE Spend({"disk"})
        /\ broken' = TRUE
        /\ Exit(retErr)
        /\ UNCHANGED file
     \/ /\ ~broken
        /\ Spend({"disk"})
        /\ broken' = TRUE
        /\ file' = [file EXCEPT !.final = TRUE]
        /\ Exit(retErr)
  /\ UNCHANGED <<clusterVars, todo, items, dropped>>

Command ==
  \/ OpenSink \/ Configure \/ Discover \/ AllListed \/ CloseSink
  \/ \E k \in Kinds : ListKind(k)
  \/ \E x \in Items : WriteItem(x)
------------------------------------------------------------------------------
\* the command is killed; nothing handles signals
Kill ==
  /\ pc # "idle"
  /\ Spend({"kill"})
  /\ pc' = "idle"
  /\ exit' = "killed"
  /\ UNCHANGED <<clusterVars, todo, items, dropped, errs, sinkVars>>

\* objects come and go
Change(x) ==
  /\ Spend({"change"})
  /\ cluster' = IF x \in cluster THEN cluster \ {x} ELSE cluster \cup {x}
  /\ always' = IF pc = "idle" THEN always ELSE always \ {x}
  /\ seen' = IF pc = "idle" THEN seen ELSE seen \cup {x}
  /\ UNCHANGED <<pc, todo, items, dropped, errs, sinkVars, exit>>

Next == Command \/ Kill \/ \E x \in Items : Change(x)

Spec == Init /\ [][Next]_vars
------------------------------------------------------------------------------
(****************************************************************************)
(* Properties.                                                              *)
(****************************************************************************)

\* Every variable has its type.
TypeOK ==
  /\ cluster \in SUBSET Items /\ always \in SUBSET Items /\ seen \in SUBSET Items
  /\ pc \in {"idle", "config", "discover", "list", "close"}
  /\ todo \in SUBSET Kinds
  /\ items \in SUBSET Items
  /\ dropped \in SUBSET {k.group : k \in Kinds}
  /\ errs \in SUBSET Errors
  /\ file \in [entries : SUBSET Items, final : BOOLEAN]
  /\ broken \in BOOLEAN
  /\ exit \in {"none", "running", "ok", "error", "killed"}
  /\ budget \in [Disturbances -> Nat]

\* the objects that were there all the time and of which the command knew the group
Expected == {x \in always : x[1].group \notin dropped}

\* A run that exits without error leaves a readable archive with every object that
\* existed all through the run, apart from groups whose discovery failed: although
\* a write reports success before anything is on disk, no failed write, failed
\* close or failed listing ends in success ("Closing the sink finalizes the zip
\* archive, so its error matters", export.go).
SuccessMeansComplete ==
  exit = "ok" => file.final /\ Expected \subseteq file.entries

\* A run that ends by itself loses nothing silently: unless the disk failed, an
\* object that is not in the archive was not listed or not written for a reason
\* that names it or its kind, or the export never got that far.
NothingLostSilently ==
  pc = "idle" /\ exit = "error" /\ ~broken =>
    \/ errs \cap {<<"sink">>, <<"config">>, <<"discovery">>} # {}
    \/ /\ file.final
       /\ \A x \in Expected \ file.entries :
            <<"list", x[1]>> \in errs \/ <<"object", x>> \in errs

\* An archive that can be read holds objects of one run only, each of which existed
\* during that run: nothing is left over of the archive it replaces.
NothingStale == file.final => file.entries \subseteq seen
==============================================================================
