---------------------------- MODULE IkdRebuild ----------------------------
(***************************************************************************)
(* The background rebuild of the ikd-Tree (fast_lio/include/ikd-Tree): a   *)
(* thread copies a large subtree, builds a balanced one from the copy      *)
(* while the main thread goes on changing the old one, replays what was    *)
(* logged meanwhile, and hangs the new tree into the place of the old one. *)
(* The trees themselves are modelled in IkdTree; here a tree is the bag of *)
(* its valid points, and all points are below one son of the root.         *)
(*                                                                         *)
(* The main thread changes the tree, looks boxes up, and runs nearest      *)
(* searches in parallel (the OpenMP loop of h_share_model), during which   *)
(* it changes nothing.  One action is what happens under one mutex, or one *)
(* access to shared memory where there is none.  A pointer to a son that   *)
(* was read once may be used again, or be read again, in the statements    *)
(* that follow: the build is optimised, and nothing makes the pointers     *)
(* atomic.  An addition with downsampling is a box search, a deletion and  *)
(* an addition.                                                            *)
(***************************************************************************)
EXTENDS Integers, Sequences, FiniteSets

CONSTANTS
  Points,
  Searchers,     \* threads of the parallel loop
  MaxOps,        \* bound: operations of the main thread
  NULL

ASSUME RebuildAssumption ==
  /\ IsFiniteSet(Searchers) /\ MaxOps \in Nat
  /\ NULL \notin {"Root_Node", "son", "main", "rebuild"} \cup [Points -> Nat]
  /\ "main" \notin Searchers

VARIABLES
  Rebuild_Ptr,           \* what is to be rebuilt: the whole tree, the son, or nothing
  rebuild_flag,
  Rebuild_Logger,
  search_mutex_counter,
  rebuild_ptr_mutex, working_flag_mutex, search_flag_mutex,   \* their owners, or NULL
  termination_flag,
  current,               \* the tree that hangs below the root, by the number of its rebuild
  trees,                 \* the valid points of each tree
  freed,                 \* trees whose nodes are deleted
  push_down,             \* the root is marked deleted and has not passed it on
  main,                  \* the main thread: where it is, its operation, the tree it walks
  searcher,              \* the same of each search
  rebuilder,             \* the rebuild thread: where it is, what it replaces
  ops,                   \* operations so far
  expected,              \* for the properties: the points added and not deleted
  stale                  \* for the properties: something was logged after its rebuild, or done
                         \* to a tree that had left its place

mutexes  == <<rebuild_ptr_mutex, working_flag_mutex, search_flag_mutex>>
shared   == <<Rebuild_Ptr, rebuild_flag, Rebuild_Logger, search_mutex_counter, mutexes, termination_flag>>
contents == <<current, trees, freed, push_down>>
threads  == <<main, searcher, rebuilder>>
ghosts   == <<expected, stale>>
vars     == <<shared, contents, threads, ops, ghosts>>

EmptyBag   == [p \in Points |-> 0]
Operations == [op : {"ADD_POINT"}, point : Points] \cup [op : {"DELETE_BOX"}, box : SUBSET Points \ {{}}]
PUSH_DOWN  == [op |-> "PUSH_DOWN"]
BOX_SEARCH == [op |-> "BOX_SEARCH"]

\* run_operation, and the same operation on the tree in place
run_operation(bag, operation) ==
  CASE operation.op = "ADD_POINT"  -> [bag EXCEPT ![operation.point] = @ + 1]
    [] operation.op = "DELETE_BOX" -> [p \in Points |-> IF p \in operation.box THEN 0 ELSE bag[p]]
    [] operation.op = "PUSH_DOWN"  -> EmptyBag

\* What the caller finds in the tree; the root is tree_deleted when that is nothing.
Visible == IF push_down THEN EmptyBag ELSE trees[current]

Init ==
  /\ Rebuild_Ptr = NULL /\ rebuild_flag = FALSE /\ Rebuild_Logger = << >>
  /\ search_mutex_counter = 0
  /\ rebuild_ptr_mutex = NULL /\ working_flag_mutex = NULL /\ search_flag_mutex = NULL
  /\ termination_flag = FALSE
  /\ current = 1 /\ trees = <<[p \in Points |-> 1]>> /\ freed = {}
  /\ push_down = FALSE
  /\ main = [at |-> "idle"]
  /\ searcher = [s \in Searchers |-> [at |-> "idle"]]
  /\ rebuilder = [at |-> "idle"]
  /\ ops = 0
  /\ expected = [p \in Points |-> 1] /\ stale = FALSE

\* "*Rebuild_Ptr != root->left_son_ptr" reads two pointers that are one: if the
\* exchange comes between the reads they differ, and the old tree is entered.
Torn == rebuilder.at = "exchanged"

Stays == UNCHANGED <<Rebuild_Ptr, rebuild_flag, search_mutex_counter, termination_flag, current, freed>>
Main(state) == main' = state /\ UNCHANGED <<searcher, rebuilder>>
ClientStays == UNCHANGED <<main, searcher, ops, expected>>

-----------------------------------------------------------------------------
(* The main thread                                                         *)

\* Add_Points, Delete_Point_Boxes and the box search of Add_Points are called.
MainStart(operation) ==
  /\ main.at = "idle" /\ ops < MaxOps /\ ops' = ops + 1
  /\ Main([at |-> "root_test", do |-> operation])
  /\ UNCHANGED <<shared, contents, ghosts>>

\* Changes look whether the root itself is being rebuilt; box searches do not.
MainRootTest ==
  /\ main.at = "root_test"
  /\ IF main.do = BOX_SEARCH /\ Rebuild_Ptr = "Root_Node"
     THEN Main([at |-> "walking", tree |-> current, exposed |-> TRUE])
     ELSE \E under \in {Rebuild_Ptr = "Root_Node"} \cup (IF Torn THEN {FALSE} ELSE {}) :
            Main([main EXCEPT !.at = IF under THEN "root_lock" ELSE "root"])
  /\ UNCHANGED <<shared, contents, ops, ghosts>>

Survives(operation) == \E p \in Points \ operation.box : Visible[p] > 0
Misses(operation)   == \A p \in operation.box : Visible[p] = 0

\* A deletion that covers what is left only marks the root, and one that finds
\* nothing left does nothing; anything else first passes an earlier mark on.
AtRoot(operation) ==
  IF operation.op = "DELETE_BOX" /\ ~Survives(operation)
  THEN push_down' = (push_down \/ Visible # EmptyBag) /\ UNCHANGED trees
  ELSE push_down' = FALSE /\ trees' = [trees EXCEPT ![current] = run_operation(Visible, operation)]

Log(operation) ==
  /\ Rebuild_Logger' = IF rebuild_flag THEN Append(Rebuild_Logger, operation) ELSE Rebuild_Logger
  /\ stale' = (stale \/ (rebuild_flag /\ Rebuild_Ptr = NULL))

\* The whole tree was being rebuilt when the main thread looked.
MainRootLocked ==
  /\ main.at = "root_lock" /\ working_flag_mutex = NULL
  /\ AtRoot(main.do) /\ Log(main.do) /\ expected' = run_operation(expected, main.do)
  /\ Main([at |-> "idle"])
  /\ Stays /\ UNCHANGED <<mutexes, ops>>

\* Push_Down: at the root a mark is passed on before the son is visited.  The son's
\* pointer is read.
MainPushLooks ==
  /\ main.at = "root" /\ push_down /\ main.do.op # "DELETE_BOX"
  /\ Main([at |-> "push_test", do |-> main.do, tree |-> current])
  /\ UNCHANGED <<shared, contents, ops, ghosts>>

\* The pointer is compared with that of what is being rebuilt, and used: the one read
\* before, which differs if the exchange came between, or what is read now.
MainPushTest ==
  /\ main.at = "push_test"
  /\ \/ Rebuild_Ptr = "son" /\ Main([at |-> "push_lock", do |-> main.do])
     \/ (Rebuild_Ptr # "son" \/ main.tree # current)
        /\ \E tree \in {current, main.tree} : Main([at |-> "push", do |-> main.do, tree |-> tree])
  /\ UNCHANGED <<shared, contents, ops, ghosts>>

\* The son was being rebuilt: marked under the mutex, and logged.
MainPushLocked ==
  /\ main.at = "push_lock" /\ working_flag_mutex = NULL
  /\ push_down' = FALSE /\ trees' = [trees EXCEPT ![current] = EmptyBag]
  /\ Log(PUSH_DOWN)
  /\ Main([at |-> "root", do |-> main.do])
  /\ Stays /\ UNCHANGED <<mutexes, ops, expected>>

MainPushPlain ==
  /\ main.at = "push"
  /\ push_down' = FALSE /\ trees' = [trees EXCEPT ![main.tree] = EmptyBag]
  /\ stale' = (stale \/ main.tree # current)
  /\ Main([at |-> "root", do |-> main.do])
  /\ Stays /\ UNCHANGED <<Rebuild_Logger, mutexes, ops, expected>>

MainMarks ==
  /\ main.at = "root" /\ main.do.op = "DELETE_BOX"
  /\ \/ ~Survives(main.do) /\ AtRoot(main.do)
     \/ Misses(main.do) /\ UNCHANGED <<push_down, trees>>
  /\ expected' = run_operation(expected, main.do)
  /\ Main([at |-> "idle"])
  /\ Stays /\ UNCHANGED <<Rebuild_Logger, mutexes, ops, stale>>

MainSonTest ==
  /\ main.at = "root" /\ ~push_down
  /\ main.do.op = "DELETE_BOX" => Survives(main.do)
  /\ \/ Rebuild_Ptr = "son"
        /\ Main([main EXCEPT !.at = IF main.do = BOX_SEARCH THEN "walk_lock" ELSE "son_lock"])
     \/ (Rebuild_Ptr # "son" \/ Torn)
        /\ \E tree \in {current} \cup (IF Torn THEN {rebuilder.old} ELSE {}) :
             IF main.do = BOX_SEARCH
             THEN Main([at |-> "walking", tree |-> tree, exposed |-> Torn])
             ELSE Main([at |-> "son", do |-> main.do, tree |-> tree])
  /\ UNCHANGED <<shared, contents, ops, ghosts>>

\* The son was being rebuilt: changed under the mutex, and logged.  Afterwards its
\* counters are read, by Update and Criterion_Check, without the mutex.
MainSonLocked ==
  /\ main.at = "son_lock" /\ working_flag_mutex = NULL
  /\ trees' = [trees EXCEPT ![current] = run_operation(@, main.do)]
  /\ Log(main.do) /\ expected' = run_operation(expected, main.do)
  /\ Main([at |-> "criterion", may |-> {"Root_Node"}, tree |-> current])
  /\ Stays /\ UNCHANGED <<mutexes, push_down, ops>>

MainSonPlain ==
  /\ main.at = "son"
  /\ trees' = [trees EXCEPT ![main.tree] = run_operation(@, main.do)]
  /\ stale' = (stale \/ main.tree # current)
  /\ expected' = run_operation(expected, main.do)
  /\ Main([at |-> "criterion", may |-> {"son", "Root_Node"}, tree |-> main.tree])
  /\ Stays /\ UNCHANGED <<Rebuild_Logger, mutexes, push_down, ops>>

\* Rebuild: on the way back a subtree out of balance is asked to be rebuilt, if the
\* rebuild thread does not hold the mutex and no larger one is waiting.
MainAsks(target) ==
  /\ main.at = "criterion" /\ target \in main.may
  /\ Rebuild_Ptr' = IF rebuild_ptr_mutex = NULL /\ (Rebuild_Ptr = NULL \/ target = "Root_Node")
                    THEN target ELSE Rebuild_Ptr
  /\ Main([at |-> "idle"])
  /\ UNCHANGED <<rebuild_flag, Rebuild_Logger, search_mutex_counter, mutexes, termination_flag,
                 contents, ops, ghosts>>

MainBalanced ==
  /\ main.at = "criterion"
  /\ Main([at |-> "idle"])
  /\ UNCHANGED <<shared, contents, ops, ghosts>>

\* Search_by_range below a son that was being rebuilt: holding the mutex of the
\* searches, without counting.
MainWalks ==
  /\ main.at = "walk_lock" /\ search_flag_mutex = NULL /\ search_flag_mutex' = "main"
  /\ Main([at |-> "walking", tree |-> current, exposed |-> FALSE])
  /\ Stays /\ UNCHANGED <<Rebuild_Logger, rebuild_ptr_mutex, working_flag_mutex, trees, push_down, ops, ghosts>>

MainWalked ==
  /\ main.at = "walking"
  /\ search_flag_mutex' = IF search_flag_mutex = "main" THEN NULL ELSE search_flag_mutex
  /\ Main([at |-> "idle"])
  /\ Stays /\ UNCHANGED <<Rebuild_Logger, rebuild_ptr_mutex, working_flag_mutex, trees, push_down, ops, ghosts>>

\* h_share_model: all searches in parallel; the main thread waits for them.
MainSearches ==
  /\ main.at = "idle" /\ ops < MaxOps /\ ops' = ops + 1
  /\ main' = [at |-> "searching"] /\ searcher' = [s \in Searchers |-> [at |-> "test"]]
  /\ UNCHANGED <<shared, contents, rebuilder, ghosts>>

(* Mutant: the main thread does not wait for the searches. *)
MainJoins_early ==
  /\ main.at = "searching"
  /\ Main([at |-> "idle"])
  /\ UNCHANGED <<shared, contents, ops, ghosts>>

MainJoins ==
  /\ main.at = "searching" /\ \A s \in Searchers : searcher[s].at = "idle"
  /\ Main([at |-> "idle"])
  /\ UNCHANGED <<shared, contents, ops, ghosts>>

\* stop_thread, from the destructor
MainStops ==
  /\ main.at = "idle" /\ termination_flag' = TRUE
  /\ Main([at |-> "joining"])
  /\ UNCHANGED <<Rebuild_Ptr, rebuild_flag, Rebuild_Logger, search_mutex_counter, mutexes, contents, ops, ghosts>>

MainEnds ==
  /\ main.at = "joining" /\ rebuilder.at = "terminated"
  /\ Main([at |-> "ended"])
  /\ UNCHANGED <<shared, contents, ops, ghosts>>

-----------------------------------------------------------------------------
(* Nearest searches                                                        *)

SearcherTo(s, state) == searcher' = [searcher EXCEPT ![s] = state] /\ UNCHANGED <<main, rebuilder>>

\* Nearest_Search: counted from the root on if the whole tree is being rebuilt.
\* Otherwise, unless the root is tree_deleted, the pointer to the son is read, and the
\* ranges of the son it points to, whatever is being rebuilt.
SearchRootTest(s) ==
  /\ searcher[s].at = "test"
  /\ \/ Rebuild_Ptr = "Root_Node" /\ SearcherTo(s, [at |-> "enter"])
     \/ Rebuild_Ptr = "Root_Node" /\ Torn
        /\ \E tree \in {current, rebuilder.old} :
             SearcherTo(s, [at |-> "plain", tree |-> tree, exposed |-> tree # current])
     \/ Rebuild_Ptr # "Root_Node" /\ Visible = EmptyBag /\ SearcherTo(s, [at |-> "idle"])
     \/ Rebuild_Ptr # "Root_Node" /\ Visible # EmptyBag
        /\ SearcherTo(s, [at |-> "ranges", tree |-> current])
  /\ UNCHANGED <<shared, contents, ops, ghosts>>

\* The son is too far away, is being rebuilt, or is not: the pointer read before, which
\* differs from *Rebuild_Ptr if the exchange came between, or what is read now.
SearchTest(s) ==
  /\ searcher[s].at = "ranges"
  /\ \/ SearcherTo(s, [at |-> "idle"])
     \/ Rebuild_Ptr # NULL /\ SearcherTo(s, [at |-> "enter"])
     \/ (Rebuild_Ptr = NULL \/ searcher[s].tree # current)
        /\ \E tree \in {current, searcher[s].tree} :
             SearcherTo(s, [at |-> "plain", tree |-> tree, exposed |-> tree # current])
  /\ UNCHANGED <<shared, contents, ops, ghosts>>

\* What is being rebuilt is searched counted, and not while it is copied or exchanged.
SearchEnters(s) ==
  /\ searcher[s].at = "enter" /\ search_flag_mutex = NULL /\ search_mutex_counter # -1
  /\ search_mutex_counter' = search_mutex_counter + 1
  /\ SearcherTo(s, [at |-> "counted", tree |-> current, exposed |-> FALSE])
  /\ UNCHANGED <<Rebuild_Ptr, rebuild_flag, Rebuild_Logger, mutexes, termination_flag, contents, ops, ghosts>>

SearchLeaves(s) ==
  /\ \/ searcher[s].at = "plain" /\ UNCHANGED search_mutex_counter
     \/ searcher[s].at = "counted" /\ search_flag_mutex = NULL
        /\ search_mutex_counter' = search_mutex_counter - 1
  /\ SearcherTo(s, [at |-> "idle"])
  /\ UNCHANGED <<Rebuild_Ptr, rebuild_flag, Rebuild_Logger, mutexes, termination_flag, contents, ops, ghosts>>

-----------------------------------------------------------------------------
(* The rebuild thread                                                      *)

Rebuilder(state) == rebuilder' = state /\ ClientStays

RebuildPolls ==
  /\ rebuilder.at = "idle" /\ rebuild_ptr_mutex = NULL /\ rebuild_ptr_mutex' = "rebuild"
  /\ Rebuilder([at |-> "ptr"])
  /\ Stays /\ UNCHANGED <<Rebuild_Logger, working_flag_mutex, search_flag_mutex, trees, push_down, stale>>

\* With working_flag_mutex as well: a rebuild is taken up, or there is none.
RebuildTakes ==
  /\ rebuilder.at = "ptr" /\ working_flag_mutex = NULL
  /\ IF Rebuild_Ptr = NULL
     THEN /\ rebuild_ptr_mutex' = NULL /\ Rebuilder([at |-> "check"])
          /\ UNCHANGED <<working_flag_mutex, rebuild_flag>>
     ELSE /\ working_flag_mutex' = "rebuild" /\ rebuild_flag' = TRUE
          /\ Rebuilder([at |-> "wait", old |-> current])
          /\ UNCHANGED rebuild_ptr_mutex
  /\ UNCHANGED <<Rebuild_Ptr, Rebuild_Logger, search_mutex_counter, search_flag_mutex, termination_flag,
                 contents, stale>>

\* The counter is taken from 0 to -1, to copy and again to exchange.
RebuildBlocksSearches ==
  /\ rebuilder.at \in {"wait", "drained", "empty"}
  /\ search_flag_mutex = NULL /\ search_mutex_counter = 0 /\ search_mutex_counter' = -1
  /\ Rebuilder([rebuilder EXCEPT !.at = CASE @ = "wait"    -> "copy"
                                          [] @ = "drained" -> "exchange"
                                          [] @ = "empty"   -> "crash"])
  /\ UNCHANGED <<Rebuild_Ptr, rebuild_flag, Rebuild_Logger, mutexes, termination_flag, contents, stale>>

\* flatten passes the marks of the root on, if it begins there.
RebuildCopies ==
  /\ rebuilder.at = "copy"
  /\ LET whole == Rebuild_Ptr = "Root_Node"
         copy  == IF whole THEN Visible ELSE trees[current]
     IN  /\ trees' = Append([trees EXCEPT ![current] = copy], copy)
         /\ push_down' = (push_down /\ ~whole)
         /\ Rebuilder([rebuilder EXCEPT !.at = IF copy = EmptyBag THEN "copied_nothing" ELSE "copied"])
  /\ Stays /\ UNCHANGED <<Rebuild_Logger, mutexes, stale>>

RebuildUnblocks ==
  /\ rebuilder.at \in {"copied", "copied_nothing"} /\ search_flag_mutex = NULL
  /\ search_mutex_counter' = 0 /\ working_flag_mutex' = NULL
  /\ Rebuilder([rebuilder EXCEPT !.at = IF @ = "copied" THEN "build" ELSE "empty"])
  /\ UNCHANGED <<Rebuild_Ptr, rebuild_flag, Rebuild_Logger, rebuild_ptr_mutex, search_flag_mutex,
                 termination_flag, contents, stale>>

\* BuildTree, without a mutex, and then working_flag_mutex again
RebuildBuilds ==
  /\ rebuilder.at = "build" /\ working_flag_mutex = NULL /\ working_flag_mutex' = "rebuild"
  /\ Rebuilder([rebuilder EXCEPT !.at = "drain"])
  /\ Stays /\ UNCHANGED <<Rebuild_Logger, rebuild_ptr_mutex, search_flag_mutex, trees, push_down, stale>>

\* One logged operation is taken, and run on the new tree without a mutex.
RebuildReplays ==
  /\ rebuilder.at = "drain" /\ Rebuild_Logger # << >>
  /\ Rebuild_Logger' = Tail(Rebuild_Logger) /\ working_flag_mutex' = NULL
  /\ trees' = [trees EXCEPT ![Len(trees)] = run_operation(@, Head(Rebuild_Logger))]
  /\ Rebuilder([rebuilder EXCEPT !.at = "build"])
  /\ Stays /\ UNCHANGED <<rebuild_ptr_mutex, search_flag_mutex, push_down, stale>>

(* Mutant: what was logged since the copy is not replayed. *)
RebuildDrained_early ==
  /\ rebuilder.at = "drain"
  /\ Rebuilder([rebuilder EXCEPT !.at = "drained"])
  /\ UNCHANGED <<shared, contents, stale>>

RebuildDrained ==
  /\ rebuilder.at = "drain" /\ Rebuild_Logger = << >>
  /\ Rebuilder([rebuilder EXCEPT !.at = "drained"])
  /\ UNCHANGED <<shared, contents, stale>>

RebuildExchanges ==
  /\ rebuilder.at = "exchange"
  /\ current' = Len(trees)
  /\ Rebuilder([rebuilder EXCEPT !.at = "exchanged"])
  /\ UNCHANGED <<shared, trees, freed, push_down, stale>>

\* The counters of a new tree that is not there are read.
RebuildCrashes ==
  /\ rebuilder.at = "crash"
  /\ Rebuilder([rebuilder EXCEPT !.at = "crashed"])
  /\ UNCHANGED <<shared, contents, stale>>

(* Mutant: the counter is reset without the mutex of the searches. *)
RebuildReleases_unlocked ==
  /\ rebuilder.at = "exchanged"
  /\ search_mutex_counter' = 0 /\ Rebuild_Ptr' = NULL /\ working_flag_mutex' = NULL
  /\ Rebuilder([rebuilder EXCEPT !.at = "released"])
  /\ UNCHANGED <<rebuild_flag, Rebuild_Logger, rebuild_ptr_mutex, search_flag_mutex, termination_flag,
                 contents, stale>>

RebuildReleases ==
  /\ rebuilder.at = "exchanged" /\ search_flag_mutex = NULL
  /\ search_mutex_counter' = 0 /\ Rebuild_Ptr' = NULL /\ working_flag_mutex' = NULL
  /\ Rebuilder([rebuilder EXCEPT !.at = "released"])
  /\ UNCHANGED <<rebuild_flag, Rebuild_Logger, rebuild_ptr_mutex, search_flag_mutex, termination_flag,
                 contents, stale>>

(* Mutant: the flag stays up. *)
RebuildLowersFlag_not ==
  /\ rebuilder.at = "released" /\ Rebuilder([rebuilder EXCEPT !.at = "discard"])
  /\ UNCHANGED <<shared, contents, stale>>

\* The flag is lowered after the mutex is released.
RebuildLowersFlag ==
  /\ rebuilder.at = "released" /\ rebuild_flag' = FALSE
  /\ Rebuilder([rebuilder EXCEPT !.at = "discard"])
  /\ UNCHANGED <<Rebuild_Ptr, Rebuild_Logger, search_mutex_counter, mutexes, termination_flag, contents, stale>>

RebuildDiscards ==
  /\ rebuilder.at = "discard"
  /\ freed' = freed \cup {rebuilder.old} /\ rebuild_ptr_mutex' = NULL
  /\ Rebuilder([at |-> "check"])
  /\ UNCHANGED <<Rebuild_Ptr, rebuild_flag, Rebuild_Logger, search_mutex_counter, working_flag_mutex,
                 search_flag_mutex, termination_flag, current, trees, push_down, stale>>

(* Mutant: only a thread that rebuilt nothing looks at the flag. *)
RebuildChecks_pointer ==
  /\ rebuilder.at = "check"
  /\ Rebuilder([at |-> IF termination_flag /\ current = 1 THEN "terminated" ELSE "idle"])
  /\ UNCHANGED <<shared, contents, stale>>

RebuildChecks ==
  /\ rebuilder.at = "check"
  /\ Rebuilder([at |-> IF termination_flag THEN "terminated" ELSE "idle"])
  /\ UNCHANGED <<shared, contents, stale>>

-----------------------------------------------------------------------------
MainActs ==
  \/ \E operation \in Operations \cup {BOX_SEARCH} : MainStart(operation)
  \/ MainRootTest \/ MainRootLocked \/ MainMarks
  \/ MainPushLooks \/ MainPushTest \/ MainPushLocked \/ MainPushPlain
  \/ MainSonTest \/ MainSonLocked \/ MainSonPlain
  \/ (\E target \in {"son", "Root_Node"} : MainAsks(target)) \/ MainBalanced
  \/ MainWalks \/ MainWalked \/ MainSearches \/ MainJoins \/ MainStops \/ MainEnds

SearcherActs(s) == SearchRootTest(s) \/ SearchTest(s) \/ SearchEnters(s) \/ SearchLeaves(s)

RebuilderActs ==
  \/ RebuildPolls \/ RebuildTakes \/ RebuildBlocksSearches \/ RebuildCopies \/ RebuildUnblocks
  \/ RebuildBuilds \/ RebuildReplays \/ RebuildDrained \/ RebuildExchanges \/ RebuildCrashes
  \/ RebuildReleases \/ RebuildLowersFlag \/ RebuildDiscards \/ RebuildChecks

Runs == rebuilder.at # "crashed" /\ main.at # "ended"
Over == ~Runs /\ UNCHANGED vars      \* the process is gone

Next == \/ Runs /\ MainActs
        \/ Runs /\ \E s \in Searchers : SearcherActs(s)
        \/ Runs /\ RebuilderActs
        \/ Over

\* Threads run; that the main thread calls another operation is not assumed.
Fairness ==
  /\ WF_vars(Runs /\ main.at # "idle" /\ MainActs)
  /\ \A s \in Searchers : WF_vars(Runs /\ SearcherActs(s))
  /\ WF_vars(Runs /\ RebuilderActs)

Spec == Init /\ [][Next]_vars /\ Fairness

-----------------------------------------------------------------------------
(* Properties                                                              *)

\* A search that is counted, one that began when nothing was being rebuilt, and a box
\* search of the main thread below a son that was being rebuilt are never in a tree whose
\* nodes the rebuild thread has deleted, from when they enter it to when they leave.  This
\* is about entering only, and not for every search: not for those that look at the ranges
\* of a son before they ask whether it is being rebuilt, for those that enter with the
\* pointer they had before the exchange, or for box searches of a root being rebuilt.
SearchedTreesLive ==
  /\ \A s \in Searchers : searcher[s].at \in {"plain", "counted"} /\ ~searcher[s].exposed
                            => searcher[s].tree \notin freed
  /\ main.at = "walking" /\ ~main.exposed => main.tree \notin freed

\* A rebuild cannot be noticed: at every moment the tree holds the points that were
\* added and not deleted, unless an operation was logged when its rebuild was over, or an
\* operation or a mark went to the tree that had just been exchanged.
RebuildInvisible == ~stale => Visible = expected

\* "Rebuild and update missed operations": what the new tree has missed is made up for.
\* Passing a mark on is such an operation, and it brings no deleted point back.
MarksArrive == [][MainPushLocked \/ MainPushPlain => Visible' = Visible]_vars

\* What a guarded search has before it: from the root all that the caller finds, and
\* in a tree that has left its place what that tree holds, unless it is deleted.
Guarded(state) == state.at \in {"plain", "counted", "walking"} /\ ~state.exposed
Finds(state) == IF ~Guarded(state)           THEN NULL
                ELSE IF state.tree \in freed  THEN << >>
                ELSE IF state.tree = current  THEN Visible
                                              ELSE trees[state.tree]
Reading == [r \in Searchers \cup {"main"} |-> Finds(IF r = "main" THEN main ELSE searcher[r])]

\* The trees, the thread that rebuilds them and all that is locked for it are a map of
\* points: each guarded search has before it, from beginning to end, all the points of
\* the map and no others, and the map changes by what the main thread does to it only,
\* while nobody searches; even when something was logged too late, or done to a tree that
\* had left its place, nothing changes before the eyes of a guarded search.
Map == INSTANCE PointMap WITH
         Readers <- Searchers \cup {"main"}, points <- Visible, reading <- Reading, lost <- stale
RefinesMap == Map!Spec

\* A rebuild ends, whatever is changed and searched meanwhile, and so does the thread: the
\* join of stop_thread, in the destructor, returns.
RebuildEnds ==
  (rebuild_flag \/ termination_flag) ~> (~Runs \/ ~(rebuild_flag \/ termination_flag))

\* "ERROR!!!" is never printed: nothing is in the log when a rebuild begins.
LoggerStartsEmpty == [][RebuildTakes /\ rebuild_flag' => Rebuild_Logger = << >>]_vars

=============================================================================
