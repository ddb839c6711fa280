-------------------------- MODULE IkdRebuild_proofs --------------------------
(***************************************************************************)
(* Proofs about the rebuild of the point map: for any set of points, any   *)
(* number of searches at a time and of operations of the main thread.      *)
(***************************************************************************)
EXTENDS IkdRebuild, FiniteSetTheorems, TLAPS

Bags   == [Points -> Nat]
Logged == Operations \cup {PUSH_DOWN}

(* Where the rebuild thread is: before the exchange, and as long as it       *)
(* replaces a tree at all.                                                  *)
Before    == {"wait", "copy", "copied", "copied_nothing", "empty", "build", "drain", "drained",
              "exchange", "crash", "crashed"}
After     == {"exchanged", "released", "discard"}
Replacing == Before \cup After
HasNew    == {"copied", "build", "drain", "drained", "exchange"}
Blocking  == {"copy", "copied", "copied_nothing", "exchange", "exchanged", "crash", "crashed"}
Locking   == {"wait", "copy", "copied", "copied_nothing", "drain", "drained", "exchange", "exchanged"}

MainStates ==
  [at : {"idle", "searching", "joining", "ended"}]
    \cup [at : {"root_test", "root", "push_lock", "walk_lock"}, do : Operations \cup {BOX_SEARCH}]
    \cup [at : {"root_lock", "son_lock"}, do : Operations]
    \cup [at : {"push_test", "push"}, do : Operations \cup {BOX_SEARCH}, tree : Nat]
    \cup [at : {"son"}, do : Operations, tree : Nat]
    \cup [at : {"criterion"}, may : SUBSET {"son", "Root_Node"}, tree : Nat]
    \cup [at : {"walking"}, tree : Nat, exposed : BOOLEAN]
SearcherStates ==
  [at : {"idle", "test", "enter"}] \cup [at : {"ranges"}, tree : Nat]
    \cup [at : {"plain", "counted"}, tree : Nat, exposed : BOOLEAN]
RebuilderStates ==
  [at : {"idle", "ptr", "check", "terminated"}] \cup [at : Replacing, old : Nat]

ThreadTypes ==
  /\ main \in MainStates /\ searcher \in [Searchers -> SearcherStates] /\ rebuilder \in RebuilderStates

(* The mutexes, the pointer and the flag, by where the rebuild thread is.    *)
PointerInv ==
  /\ Rebuild_Ptr \in {NULL, "son", "Root_Node"} /\ rebuild_flag \in BOOLEAN
  /\ rebuild_ptr_mutex = IF rebuilder.at \in {"ptr"} \cup Replacing THEN "rebuild" ELSE NULL
  /\ working_flag_mutex = IF rebuilder.at \in Locking THEN "rebuild" ELSE NULL
  /\ rebuild_flag <=> rebuilder.at \in Before \cup {"exchanged", "released"}
  /\ rebuilder.at \in Before \cup {"exchanged"} => Rebuild_Ptr # NULL
  /\ rebuilder.at \in {"released", "discard"} => Rebuild_Ptr = NULL

(* Trees are numbered in the order they are built in: one that is freed is   *)
(* older than the one that is replaced.                                     *)
TreesInv ==
  /\ trees \in Seq(Bags) /\ current \in 1 .. Len(trees) /\ Rebuild_Logger \in Seq(Logged)
  /\ freed \subseteq Nat
  /\ \A t \in freed : t < current /\ (rebuilder.at \in Replacing => t < rebuilder.old)
  /\ rebuilder.at \in Before => rebuilder.old = current
  /\ rebuilder.at \in HasNew => current < Len(trees)
  /\ rebuilder.at \in After => rebuilder.old < current

(* search_mutex_counter counts, or bars.                                    *)
Counted == {s \in Searchers : searcher[s].at = "counted"}
CounterInv ==
  IF rebuilder.at \in Blocking THEN search_mutex_counter = -1 /\ Counted = {}
  ELSE search_mutex_counter = Cardinality(Counted)

(* Where a guarded search is, and why that tree is not exchanged under it;   *)
(* and that one who looks at a tree that has left its place is past the only *)
(* exchange there is while it searches.                                      *)
SearchInv ==
  \A s \in Searchers :
    /\ searcher[s].at # "idle" => main.at = "searching"
    /\ searcher[s].at = "counted" => searcher[s].tree = current /\ ~searcher[s].exposed
    /\ searcher[s].at = "plain" /\ ~searcher[s].exposed =>
         searcher[s].tree = current /\ (Rebuild_Ptr = NULL \/ Torn)
    /\ searcher[s].at = "ranges" /\ searcher[s].tree # current => Rebuild_Ptr = NULL \/ Torn

WalkInv ==
  /\ search_flag_mutex \in {NULL, "main"}
  /\ search_flag_mutex = "main" => main.at = "walking" /\ ~main.exposed
  /\ main.at \in {"root", "push_test", "push_lock", "push"} /\ main.do = BOX_SEARCH =>
       Rebuild_Ptr # "Root_Node"
  /\ main.at = "walking" /\ ~main.exposed =>
       IF search_flag_mutex = "main"
       THEN main.tree = current \/ (rebuilder.at = "exchanged" /\ main.tree = rebuilder.old)
       ELSE main.tree = current /\ Rebuild_Ptr = NULL

LiveInv == ThreadTypes /\ PointerInv /\ TreesInv /\ CounterInv /\ SearchInv /\ WalkInv

(* Where the main thread is at work, by what it saw of Rebuild_Ptr, which    *)
(* only becomes NULL meanwhile: without a mutex it works where nothing is    *)
(* rebuilt, or right after an exchange.                                      *)
PlaceInv ==
  /\ push_down \in BOOLEAN /\ stale \in BOOLEAN /\ expected \in Bags
  /\ main.at \in {"root", "push_test"} => Rebuild_Ptr # "Root_Node" \/ Torn
  /\ main.at \in {"son", "push"} => Rebuild_Ptr = NULL \/ Torn
  /\ main.at = "push_test" /\ main.tree # current => Rebuild_Ptr = NULL \/ Torn
  /\ main.at = "root_lock" => Rebuild_Ptr # "son"
  /\ main.at \in {"son_lock", "push_lock"} => Rebuild_Ptr # "Root_Node"
  /\ main.at \in {"son", "son_lock"} => ~push_down
  /\ main.at \in {"push_test", "push_lock", "push"} => push_down

(* What the operations of a log make of a tree.                              *)
Replays(bag, log, result) ==
  \E f \in [0 .. Len(log) -> Bags] :
    /\ f[0] = bag /\ f[Len(log)] = result
    /\ \A i \in 1 .. Len(log) : f[i] = run_operation(f[i - 1], log[i])

(* What the new tree is going to be.                                         *)
Replaced == IF Rebuild_Ptr = "Root_Node" THEN Visible ELSE trees[current]

\* Where the rebuild thread is when operations may be logged.
Pending == {"empty", "crash", "crashed", "build", "drain"}

ReplayInv ==
  ~stale =>
    /\ Visible = expected
    /\ Rebuild_Logger # << >> => rebuilder.at \in Pending
    /\ rebuilder.at \in HasNew => Replays(trees[Len(trees)], Rebuild_Logger, Replaced)

InvisibleInv == PlaceInv /\ ReplayInv

-------------------------------------------------------------------------------
(* Bags stay bags. *)
LEMMA BagsClosed ==
  /\ EmptyBag \in Bags
  /\ \A bag \in Bags, operation \in Logged : run_operation(bag, operation) \in Bags
<1>1. EmptyBag \in Bags  BY DEF EmptyBag, Bags
<1>2. ASSUME NEW bag \in Bags, NEW operation \in Logged
      PROVE  run_operation(bag, operation) \in Bags
  <2>1. CASE operation \in [op : {"ADD_POINT"}, point : Points]
    <3>1. operation.op = "ADD_POINT" /\ operation.point \in Points  BY <2>1
    <3>2. run_operation(bag, operation) = [bag EXCEPT ![operation.point] = @ + 1]
      BY <3>1 DEF run_operation
    <3>3. QED  BY <3>1, <3>2 DEF Bags
  <2>2. CASE operation \in [op : {"DELETE_BOX"}, box : SUBSET Points \ {{}}]
    <3>1. operation.op = "DELETE_BOX"  BY <2>2
    <3>2. run_operation(bag, operation) = [p \in Points |-> IF p \in operation.box THEN 0 ELSE bag[p]]
      BY <3>1 DEF run_operation
    <3>3. QED  BY <3>2 DEF Bags
  <2>3. CASE operation = PUSH_DOWN
    <3>1. run_operation(bag, operation) = EmptyBag  BY <2>3 DEF run_operation, PUSH_DOWN
    <3>2. QED  BY <1>1, <3>1
  <2>4. QED  BY <2>1, <2>2, <2>3 DEF Operations, Logged
<1>3. QED  BY <1>1, <1>2

(* A tree is changed in its place.                                          *)
LEMMA TreeChanged ==
  ASSUME NEW q \in Seq(Bags), NEW k \in 1 .. Len(q), NEW bag \in Bags
  PROVE  LET changed == [q EXCEPT ![k] = bag]
         IN  /\ changed \in Seq(Bags) /\ Len(changed) = Len(q) /\ changed[k] = bag
             /\ \A j \in 1 .. Len(q) : j # k => changed[j] = q[j]
OBVIOUS

(* So is one that may no longer be among them, and then nothing changes.     *)
LEMMA TreeTouched ==
  ASSUME NEW q \in Seq(Bags), NEW k, NEW bag, k \in 1 .. Len(q) => bag \in Bags
  PROVE  LET changed == [q EXCEPT ![k] = bag]
         IN  changed \in Seq(Bags) /\ Len(changed) = Len(q)
<1>1. CASE k \in 1 .. Len(q)  BY <1>1, TreeChanged
<1>2. CASE k \notin 1 .. Len(q)
  <2>1. [q EXCEPT ![k] = bag] = q  BY <1>2
  <2>2. QED  BY <2>1
<1>3. QED  BY <1>1, <1>2

(* What the caller finds is a bag.                                          *)
LEMMA VisibleBag ==
  ASSUME TreesInv PROVE Visible \in Bags /\ trees[current] \in Bags
BY BagsClosed DEF TreesInv, Visible

(* An operation of the main thread, in the states that have one.            *)
LEMMA MainDoes ==
  ASSUME NEW state \in MainStates,
         state.at \in {"root_test", "root", "push_lock", "walk_lock", "root_lock", "son_lock"}
  PROVE  /\ state.do \in Operations \cup {BOX_SEARCH}
         /\ state.at \in {"root_lock", "son_lock"} => state.do \in Operations
         /\ \A place : [state EXCEPT !.at = place] = [at |-> place, do |-> state.do]
<1>1. CASE state \in [at : {"idle", "searching", "joining", "ended"}]  BY <1>1
<1>2. CASE state \in [at : {"root_test", "root", "push_lock", "walk_lock"}, do : Operations \cup {BOX_SEARCH}]
  BY <1>2
<1>3. CASE state \in [at : {"root_lock", "son_lock"}, do : Operations]  BY <1>3
<1>4. CASE state \in [at : {"push_test", "push"}, do : Operations \cup {BOX_SEARCH}, tree : Nat]  BY <1>4
<1>5. CASE state \in [at : {"son"}, do : Operations, tree : Nat]  BY <1>5
<1>6. CASE state \in [at : {"criterion"}, may : SUBSET {"son", "Root_Node"}, tree : Nat]  BY <1>6
<1>7. CASE state \in [at : {"walking"}, tree : Nat, exposed : BOOLEAN]  BY <1>7
<1>8. QED  BY <1>1, <1>2, <1>3, <1>4, <1>5, <1>6, <1>7 DEF MainStates

(* And in those where it goes on with a pointer that it has read.            *)
LEMMA MainHolds ==
  ASSUME NEW state \in MainStates, state.at \in {"push_test", "push", "son"}
  PROVE  /\ state.do \in Operations \cup {BOX_SEARCH} /\ state.tree \in Nat
         /\ state.at = "son" => state.do \in Operations
<1>1. CASE state \in [at : {"idle", "searching", "joining", "ended"}]  BY <1>1
<1>2. CASE state \in [at : {"root_test", "root", "push_lock", "walk_lock"}, do : Operations \cup {BOX_SEARCH}]
  BY <1>2
<1>3. CASE state \in [at : {"root_lock", "son_lock"}, do : Operations]  BY <1>3
<1>4. CASE state \in [at : {"push_test", "push"}, do : Operations \cup {BOX_SEARCH}, tree : Nat]  BY <1>4
<1>5. CASE state \in [at : {"son"}, do : Operations, tree : Nat]  BY <1>5
<1>6. CASE state \in [at : {"criterion"}, may : SUBSET {"son", "Root_Node"}, tree : Nat]  BY <1>6
<1>7. CASE state \in [at : {"walking"}, tree : Nat, exposed : BOOLEAN]  BY <1>7
<1>8. QED  BY <1>1, <1>2, <1>3, <1>4, <1>5, <1>6, <1>7 DEF MainStates

(* Where the main thread goes from the root, by what is being rebuilt.       *)
LEMMA SonTested ==
  ASSUME MainSonTest, main \in MainStates
  PROVE  \/ Rebuild_Ptr = "son" /\ main' = [at |-> "walk_lock", do |-> main.do]
         \/ Rebuild_Ptr = "son" /\ main' = [at |-> "son_lock", do |-> main.do] /\ main.do # BOX_SEARCH
         \/ /\ Rebuild_Ptr # "son" \/ Torn
            /\ \E tree : /\ tree = current \/ (Torn /\ tree = rebuilder.old)
                         /\ main' = [at |-> "son", do |-> main.do, tree |-> tree] /\ main.do # BOX_SEARCH
         \/ \E tree : /\ Torn /\ tree \in {current, rebuilder.old}
                      /\ main' = [at |-> "walking", tree |-> tree, exposed |-> TRUE]
         \/ /\ ~Torn /\ Rebuild_Ptr # "son" /\ main.do = BOX_SEARCH
            /\ main' = [at |-> "walking", tree |-> current, exposed |-> FALSE]
<1> USE DEF Main
<1>1. \A place : [main EXCEPT !.at = place] = [at |-> place, do |-> main.do]
  BY MainDoes DEF MainSonTest
<1>2. CASE Rebuild_Ptr = "son" /\ main' = [main EXCEPT !.at = IF main.do = BOX_SEARCH THEN "walk_lock" ELSE "son_lock"]
  BY <1>1, <1>2
<1>3. ASSUME Rebuild_Ptr # "son" \/ Torn, NEW tree, tree = current \/ (Torn /\ tree = rebuilder.old),
             main' = IF main.do = BOX_SEARCH
                     THEN [at |-> "walking", tree |-> tree, exposed |-> Torn]
                     ELSE [at |-> "son", do |-> main.do, tree |-> tree]
      PROVE  \/ main' = [at |-> "son", do |-> main.do, tree |-> tree] /\ main.do # BOX_SEARCH
             \/ /\ Torn /\ tree \in {current, rebuilder.old}
                /\ main' = [at |-> "walking", tree |-> tree, exposed |-> TRUE]
             \/ /\ ~Torn /\ Rebuild_Ptr # "son" /\ main.do = BOX_SEARCH
                /\ main' = [at |-> "walking", tree |-> current, exposed |-> FALSE]
  <2>1. Torn \in BOOLEAN  BY DEF Torn
  <2>2. CASE main.do # BOX_SEARCH  BY <1>3, <2>2
  <2>3. CASE main.do = BOX_SEARCH /\ Torn = TRUE
    <3>1. main' = [at |-> "walking", tree |-> tree, exposed |-> TRUE]  BY <1>3, <2>3, Zenon
    <3>2. QED  BY <1>3, <2>3, <3>1
  <2>4. CASE main.do = BOX_SEARCH /\ Torn = FALSE
    <3>1. tree = current  BY <1>3, <2>4
    <3>2. main' = [at |-> "walking", tree |-> current, exposed |-> FALSE]  BY <1>3, <2>4, <3>1, Zenon
    <3>3. QED  BY <1>3, <2>4, <3>2
  <2>5. QED  BY <2>1, <2>2, <2>3, <2>4
<1>4. \/ Rebuild_Ptr = "son" /\ main' = [main EXCEPT !.at = IF main.do = BOX_SEARCH THEN "walk_lock" ELSE "son_lock"]
      \/ /\ Rebuild_Ptr # "son" \/ Torn
         /\ \E tree : /\ tree = current \/ (Torn /\ tree = rebuilder.old)
                      /\ main' = IF main.do = BOX_SEARCH
                                 THEN [at |-> "walking", tree |-> tree, exposed |-> Torn]
                                 ELSE [at |-> "son", do |-> main.do, tree |-> tree]
  BY DEF MainSonTest
<1>5. QED  BY <1>2, <1>3, <1>4

(* The tree the rebuild thread replaces, while it does.                     *)
LEMMA RebuilderReplaces ==
  ASSUME NEW state \in RebuilderStates, state.at \in Replacing
  PROVE  /\ state.old \in Nat
         /\ \A place : [state EXCEPT !.at = place] = [at |-> place, old |-> state.old]
<1>1. CASE state \in [at : {"idle", "ptr", "check", "terminated"}]
  BY <1>1 DEF Replacing, Before, After
<1>2. CASE state \in [at : Replacing, old : Nat]  BY <1>2
<1>3. QED  BY <1>1, <1>2 DEF RebuilderStates

(* No tree is searched, replaced or freed at the start.                     *)
LEMMA LiveInit == Init => LiveInv
<1> SUFFICES ASSUME Init PROVE LiveInv  OBVIOUS
<1> USE DEF Init
<1>1. main = [at |-> "idle"] /\ rebuilder = [at |-> "idle"] /\ main.at = "idle" /\ rebuilder.at = "idle"
  OBVIOUS
<1>2. \A s \in Searchers : searcher[s].at = "idle"  OBVIOUS
<1>3. ThreadTypes  BY <1>1 DEF ThreadTypes, MainStates, SearcherStates, RebuilderStates
<1>4. PointerInv
  BY <1>1 DEF PointerInv, Replacing, Before, After, Locking
<1>5. TreesInv
  <2>1. [p \in Points |-> 1] \in Bags  BY DEF Bags
  <2>2. trees \in Seq(Bags) /\ Len(trees) = 1  BY <2>1
  <2>3. rebuilder.at \notin Before /\ rebuilder.at \notin HasNew /\ rebuilder.at \notin After
    BY <1>1 DEF Before, After, HasNew
  <2>4. QED  BY <2>2, <2>3 DEF TreesInv
<1>6. CounterInv
  <2>1. Counted = {}  BY <1>2 DEF Counted
  <2>2. QED  BY <1>1, <2>1, FS_EmptySet DEF CounterInv, Blocking
<1>7. SearchInv /\ WalkInv  BY <1>1, <1>2, RebuildAssumption DEF SearchInv, WalkInv
<1>8. QED  BY <1>3, <1>4, <1>5, <1>6, <1>7 DEF LiveInv

-------------------------------------------------------------------------------
(* What the main thread leaves alone whatever it does, but for starting the  *)
(* searches.                                                                *)
MainFrame ==
  /\ UNCHANGED <<searcher, rebuilder, search_mutex_counter, rebuild_flag, rebuild_ptr_mutex,
                 working_flag_mutex, current, freed>>
  /\ main' \in MainStates
  /\ trees' \in Seq(Bags) /\ Len(trees') = Len(trees) /\ Rebuild_Logger' \in Seq(Logged)
  /\ \/ UNCHANGED Rebuild_Ptr
     \/ rebuild_ptr_mutex = NULL /\ Rebuild_Ptr' \in {"son", "Root_Node"}

(* That is enough for everything that is not about its own searches.        *)
LEMMA MainKeeps ==
  ASSUME LiveInv, MainFrame, \A s \in Searchers : searcher[s].at = "idle"
  PROVE  ThreadTypes' /\ PointerInv' /\ TreesInv' /\ CounterInv' /\ SearchInv'
<1>1. ThreadTypes'  BY DEF LiveInv, MainFrame, ThreadTypes
<1>2. PointerInv'
  <2>1. CASE UNCHANGED Rebuild_Ptr  BY <2>1 DEF LiveInv, MainFrame, PointerInv
  <2>2. CASE rebuild_ptr_mutex = NULL /\ Rebuild_Ptr' \in {"son", "Root_Node"}
    <3>1. rebuilder.at \notin Replacing  BY <2>2, RebuildAssumption DEF LiveInv, PointerInv
    <3>2. QED
      BY <2>2, <3>1, RebuildAssumption DEF LiveInv, MainFrame, PointerInv, Replacing, After
  <2>3. QED  BY <2>1, <2>2 DEF MainFrame
<1>3. TreesInv'  BY DEF LiveInv, MainFrame, TreesInv
<1>4. CounterInv'
  <2>1. Counted' = Counted  BY DEF MainFrame, Counted
  <2>2. QED  BY <2>1 DEF LiveInv, MainFrame, CounterInv
<1>5. SearchInv'  BY DEF MainFrame, SearchInv
<1>6. QED  BY <1>1, <1>2, <1>3, <1>4, <1>5

(* While the main thread does something else nothing is searched.           *)
LEMMA NoSearch ==
  ASSUME LiveInv, main.at # "searching"
  PROVE  \A s \in Searchers : searcher[s].at = "idle"
BY DEF LiveInv, SearchInv

(* Unless it walks it does not hold the mutex of the searches.               *)
LEMMA NoWalk ==
  ASSUME LiveInv, main.at # "walking"  PROVE search_flag_mutex = NULL
BY DEF LiveInv, WalkInv

(* Main actions that change neither a tree nor shared state but its place.   *)
LEMMA MainMoves ==
  ASSUME LiveInv, UNCHANGED <<searcher, rebuilder, shared, contents>>, main' \in MainStates
  PROVE  MainFrame
BY DEF LiveInv, TreesInv, MainFrame, shared, contents, mutexes

(* A tree is changed below the root.                                        *)
LEMMA MainChanges ==
  ASSUME LiveInv, UNCHANGED <<searcher, rebuilder, mutexes>>, Stays, main' \in MainStates,
         \/ trees' = trees
         \/ \E k, bag : trees' = [trees EXCEPT ![k] = bag] /\ (k \in 1 .. Len(trees) => bag \in Bags),
         UNCHANGED Rebuild_Logger \/ \E operation \in Logged : Log(operation)
  PROVE  MainFrame
<1>1. trees \in Seq(Bags) /\ current \in 1 .. Len(trees)  BY DEF LiveInv, TreesInv
<1>2. trees' \in Seq(Bags) /\ Len(trees') = Len(trees)
  <2>1. CASE trees' = trees  BY <1>1, <2>1
  <2>2. ASSUME NEW k, NEW bag, trees' = [trees EXCEPT ![k] = bag], k \in 1 .. Len(trees) => bag \in Bags
        PROVE  trees' \in Seq(Bags) /\ Len(trees') = Len(trees)
    BY <1>1, <2>2, TreeTouched
  <2>3. QED  BY <2>1, <2>2
<1>3. Rebuild_Logger' \in Seq(Logged)  BY DEF LiveInv, TreesInv, Log
<1>4. QED  BY <1>2, <1>3 DEF MainFrame, Stays, mutexes

(* What is done at the root makes bags of bags.                             *)
LEMMA AtRootBags ==
  ASSUME LiveInv, NEW operation \in Operations, AtRoot(operation)
  PROVE  trees' = trees \/ \E bag \in Bags : trees' = [trees EXCEPT ![current] = bag]
<1>1. Visible \in Bags  BY VisibleBag DEF LiveInv
<1>2. run_operation(Visible, operation) \in Bags  BY <1>1, BagsClosed DEF Logged
<1>3. QED  BY <1>2 DEF AtRoot

(* The main thread walks only in the tree there is, and the tree of a        *)
(* guarded walk stays: either it holds the mutex of the searches or nothing *)
(* is being rebuilt.                                                        *)
LEMMA MainLive == LiveInv /\ MainActs => LiveInv'
<1> SUFFICES ASSUME LiveInv, MainActs PROVE LiveInv'  OBVIOUS
<1> USE RebuildAssumption DEF Main
<1>types. main \in MainStates /\ rebuilder \in RebuilderStates  BY DEF LiveInv, ThreadTypes
<1>walk. WalkInv  BY DEF LiveInv
<1>logged. Operations \cup {PUSH_DOWN} \subseteq Logged  BY DEF Logged
<1>places. \A operation \in Operations \cup {BOX_SEARCH},
              place \in {"root_test", "root", "push_lock", "walk_lock"} :
             [at |-> place, do |-> operation] \in MainStates
  BY DEF MainStates
<1>locks. \A operation \in Operations, place \in {"root_lock", "son_lock"} :
             [at |-> place, do |-> operation] \in MainStates
  BY DEF MainStates
<1>pushes. \A operation \in Operations \cup {BOX_SEARCH}, place \in {"push_test", "push"}, tree \in Nat :
             [at |-> place, do |-> operation, tree |-> tree] \in MainStates
  BY DEF MainStates
<1>sons. \A operation \in Operations, tree \in Nat :
             [at |-> "son", do |-> operation, tree |-> tree] \in MainStates
  BY DEF MainStates
<1>rest. \A place \in {"idle", "searching", "joining", "ended"} : [at |-> place] \in MainStates
  BY DEF MainStates
<1>may. \A may \in SUBSET {"son", "Root_Node"}, tree \in Nat :
             [at |-> "criterion", may |-> may, tree |-> tree] \in MainStates
  BY DEF MainStates
<1>walks. \A tree \in Nat, exposed \in BOOLEAN :
             [at |-> "walking", tree |-> tree, exposed |-> exposed] \in MainStates
  BY DEF MainStates
<1>current. current \in Nat /\ (Torn => rebuilder.old \in Nat)
  <2>1. current \in Nat  BY DEF LiveInv, TreesInv
  <2>2. Torn => rebuilder.at \in Replacing  BY DEF Torn, Replacing, After
  <2>3. QED  BY <1>types, <2>1, <2>2, RebuilderReplaces
(* Left: that a guarded walk, if there is one, is in a tree that stays.      *)
<1>1. ASSUME NEW operation \in Operations \cup {BOX_SEARCH}, MainStart(operation)  PROVE LiveInv'
  <2> USE <1>1 DEF MainStart
  <2>1. main.at = "idle" /\ main' = [at |-> "root_test", do |-> operation]  OBVIOUS
  <2>2. MainFrame  BY <2>1, <1>places, MainMoves
  <2>3. WalkInv'  BY <2>1, <1>walk DEF WalkInv, shared, mutexes
  <2>4. QED  BY <2>1, <2>2, <2>3, MainKeeps, NoSearch DEF LiveInv
<1>2. CASE MainRootTest
  <2> USE <1>2 DEF MainRootTest
  <2>1. /\ \/ main' = [at |-> "walking", tree |-> current, exposed |-> TRUE]
           \/ main' = [main EXCEPT !.at = "root_lock"] /\ main.do # BOX_SEARCH
           \/ main' = [main EXCEPT !.at = "root"] /\ (main.do = BOX_SEARCH => Rebuild_Ptr # "Root_Node")
        /\ main.at = "root_test" /\ UNCHANGED <<searcher, rebuilder, shared, contents>>
    OBVIOUS
  <2>2. /\ main.do \in Operations \cup {BOX_SEARCH}
        /\ \A place : [main EXCEPT !.at = place] = [at |-> place, do |-> main.do]
    BY <2>1, <1>types, MainDoes
  <2>3. \/ main' = [at |-> "walking", tree |-> current, exposed |-> TRUE]
        \/ main' = [at |-> "root_lock", do |-> main.do] /\ main.do \in Operations
        \/ main' = [at |-> "root", do |-> main.do] /\ (main.do = BOX_SEARCH => Rebuild_Ptr # "Root_Node")
    BY <2>1, <2>2
  <2>4. main' \in MainStates  BY <2>2, <2>3, <1>places, <1>locks, <1>walks, <1>current
  <2>5. MainFrame  BY <2>1, <2>4, MainMoves
  <2>6. WalkInv'  BY <2>1, <2>3, <1>walk DEF WalkInv, shared, mutexes
  <2>7. QED  BY <2>1, <2>5, <2>6, MainKeeps, NoSearch DEF LiveInv
<1>3. CASE MainRootLocked
  <2> USE <1>3 DEF MainRootLocked
  <2>1. /\ main.at = "root_lock" /\ main' = [at |-> "idle"] /\ Stays /\ Log(main.do)
        /\ UNCHANGED <<searcher, rebuilder, mutexes>>
    OBVIOUS
  <2>2. main.do \in Operations  BY <2>1, <1>types, MainDoes
  <2>3. MainFrame  BY <2>1, <2>2, <1>rest, <1>logged, AtRootBags, MainChanges
  <2>4. WalkInv'  BY <2>1, <1>walk DEF WalkInv, mutexes
  <2>5. QED  BY <2>1, <2>3, <2>4, MainKeeps, NoSearch DEF LiveInv
<1>4. CASE MainPushLooks
  <2> USE <1>4 DEF MainPushLooks
  <2>1. main.at = "root" /\ main' = [at |-> "push_test", do |-> main.do, tree |-> current]  OBVIOUS
  <2>2. main.do \in Operations \cup {BOX_SEARCH}  BY <2>1, <1>types, MainDoes
  <2>3. MainFrame  BY <2>1, <2>2, <1>pushes, <1>current, MainMoves
  <2>4. WalkInv'  BY <2>1, <1>walk DEF WalkInv, shared, mutexes
  <2>5. QED  BY <2>1, <2>3, <2>4, MainKeeps, NoSearch DEF LiveInv
<1>4a. CASE MainPushTest
  <2> USE <1>4a DEF MainPushTest
  <2>1. /\ \/ main' = [at |-> "push_lock", do |-> main.do]
           \/ \E tree \in {current, main.tree} : main' = [at |-> "push", do |-> main.do, tree |-> tree]
        /\ main.at = "push_test" /\ UNCHANGED <<searcher, rebuilder, shared, contents>>
    OBVIOUS
  <2>2. main.do \in Operations \cup {BOX_SEARCH} /\ main.tree \in Nat  BY <2>1, <1>types, MainHolds
  <2>3. main' \in MainStates  BY <2>1, <2>2, <1>places, <1>pushes, <1>current
  <2>4. MainFrame  BY <2>1, <2>3, MainMoves
  <2>5. WalkInv'  BY <2>1, <1>walk DEF WalkInv, shared, mutexes
  <2>6. QED  BY <2>1, <2>4, <2>5, MainKeeps, NoSearch DEF LiveInv
<1>4b. CASE MainPushLocked \/ MainPushPlain
  <2>1. /\ main.at \in {"push", "push_lock"} /\ main' = [at |-> "root", do |-> main.do] /\ Stays
        /\ UNCHANGED <<searcher, rebuilder, mutexes>> /\ (UNCHANGED Rebuild_Logger \/ Log(PUSH_DOWN))
        /\ \E k : trees' = [trees EXCEPT ![k] = EmptyBag]
    BY <1>4b DEF MainPushLocked, MainPushPlain
  <2>2. main.do \in Operations \cup {BOX_SEARCH}  BY <2>1, <1>types, MainDoes, MainHolds
  <2>3. EmptyBag \in Bags  BY BagsClosed
  <2>4. MainFrame  BY <2>1, <2>2, <2>3, <1>places, <1>logged, MainChanges
  <2>5. WalkInv'  BY <2>1, <1>walk DEF WalkInv, mutexes, Stays
  <2>6. QED  BY <2>1, <2>4, <2>5, MainKeeps, NoSearch DEF LiveInv
<1>5. CASE MainMarks
  <2> USE <1>5 DEF MainMarks
  <2>1. /\ main.at = "root" /\ main' = [at |-> "idle"] /\ Stays
        /\ UNCHANGED <<searcher, rebuilder, mutexes, Rebuild_Logger>>
    OBVIOUS
  <2>2. trees' = trees  BY DEF AtRoot
  <2>3. MainFrame  BY <2>1, <2>2, <1>rest, MainChanges
  <2>4. WalkInv'  BY <2>1, <1>walk DEF WalkInv, mutexes
  <2>5. QED  BY <2>1, <2>3, <2>4, MainKeeps, NoSearch DEF LiveInv
<1>6. CASE MainSonTest
  <2> USE <1>6 DEF MainSonTest
  <2>1. main.at = "root" /\ UNCHANGED <<searcher, rebuilder, shared, contents>>  OBVIOUS
  <2>2. main.do \in Operations \cup {BOX_SEARCH}  BY <2>1, <1>types, MainDoes
  <2>3. \/ main' = [at |-> "walk_lock", do |-> main.do]
        \/ main' = [at |-> "son_lock", do |-> main.do] /\ main.do \in Operations
        \/ \E tree \in Nat : main' = [at |-> "son", do |-> main.do, tree |-> tree] /\ main.do \in Operations
        \/ \E tree \in Nat : main' = [at |-> "walking", tree |-> tree, exposed |-> TRUE]
        \/ main' = [at |-> "walking", tree |-> current, exposed |-> FALSE] /\ Rebuild_Ptr = NULL
    <3>1. main.do = BOX_SEARCH /\ Rebuild_Ptr # "son" => Rebuild_Ptr = NULL
      BY <2>1, <1>walk DEF WalkInv, LiveInv, PointerInv
    <3> HIDE DEF MainSonTest
    <3>2. QED  BY <1>6, <1>types, <2>2, <3>1, <1>current, SonTested
  <2>4. main' \in MainStates  BY <2>2, <2>3, <1>places, <1>locks, <1>sons, <1>walks, <1>current
  <2>5. MainFrame  BY <2>1, <2>4, MainMoves
  <2>6. search_flag_mutex = NULL  BY <2>1, NoWalk
  <2>7. WalkInv'  BY <2>1, <2>3, <2>6, <1>walk DEF WalkInv, shared, mutexes, contents
  <2>8. QED  BY <2>1, <2>5, <2>7, MainKeeps, NoSearch DEF LiveInv
<1>7. CASE MainSonLocked \/ MainSonPlain
  <2>1. /\ main.at \in {"son", "son_lock"} /\ UNCHANGED <<searcher, rebuilder, mutexes>> /\ Stays
        /\ UNCHANGED Rebuild_Logger \/ Log(main.do)
        /\ \E may \in SUBSET {"son", "Root_Node"}, k \in {current, main.tree} :
             /\ main' = [at |-> "criterion", may |-> may, tree |-> k]
             /\ trees' = [trees EXCEPT ![k] = run_operation(trees[k], main.do)]
             /\ main.at = "son" \/ k = current
    BY <1>7 DEF MainSonLocked, MainSonPlain
  <2>2. main.do \in Operations /\ (main.at = "son" => main.tree \in Nat)
    BY <2>1, <1>types, MainDoes, MainHolds
  <2>3. \A k \in 1 .. Len(trees) : run_operation(trees[k], main.do) \in Bags
    BY <2>2, <1>logged, BagsClosed DEF LiveInv, TreesInv
  <2>4. main' \in MainStates /\ \E k : trees' = [trees EXCEPT ![k] = run_operation(trees[k], main.do)]
    BY <2>1, <2>2, <1>may, <1>current
  <2>5. MainFrame  BY <2>1, <2>2, <2>3, <2>4, <1>logged, MainChanges
  <2>6. WalkInv'  BY <2>1, <1>walk DEF WalkInv, mutexes
  <2>7. QED  BY <2>1, <2>5, <2>6, MainKeeps, NoSearch DEF LiveInv
<1>8. ASSUME NEW target \in {"son", "Root_Node"}, MainAsks(target)  PROVE LiveInv'
  <2> USE <1>8 DEF MainAsks
  <2>1. /\ main.at = "criterion" /\ main' = [at |-> "idle"]
        /\ UNCHANGED <<searcher, rebuilder, mutexes, contents, Rebuild_Logger>>
    OBVIOUS
  <2>2. MainFrame  BY <2>1, <1>rest DEF MainFrame, mutexes, contents, LiveInv, TreesInv
  <2>3. WalkInv'  BY <2>1, <1>walk DEF WalkInv, mutexes
  <2>4. QED  BY <2>1, <2>2, <2>3, MainKeeps, NoSearch DEF LiveInv
<1>9. CASE MainBalanced
  <2> USE <1>9 DEF MainBalanced
  <2>1. main.at = "criterion" /\ main' = [at |-> "idle"]  OBVIOUS
  <2>2. MainFrame  BY <2>1, <1>rest, MainMoves
  <2>3. WalkInv'  BY <2>1, <1>walk DEF WalkInv, shared, mutexes
  <2>4. QED  BY <2>1, <2>2, <2>3, MainKeeps, NoSearch DEF LiveInv
<1>10. CASE MainWalks
  <2> USE <1>10 DEF MainWalks
  <2>1. /\ main.at = "walk_lock" /\ main' = [at |-> "walking", tree |-> current, exposed |-> FALSE]
        /\ search_flag_mutex' = "main" /\ Stays
        /\ UNCHANGED <<searcher, rebuilder, rebuild_ptr_mutex, working_flag_mutex, trees, Rebuild_Logger>>
    OBVIOUS
  <2>2. MainFrame  BY <2>1, <1>walks, <1>current DEF MainFrame, Stays, LiveInv, TreesInv
  <2>3. WalkInv'  BY <2>1 DEF WalkInv, Stays
  <2>4. QED  BY <2>1, <2>2, <2>3, MainKeeps, NoSearch DEF LiveInv
<1>11. CASE MainWalked
  <2> USE <1>11 DEF MainWalked
  <2>1. /\ main.at = "walking" /\ main' = [at |-> "idle"] /\ search_flag_mutex' = NULL /\ Stays
        /\ UNCHANGED <<searcher, rebuilder, rebuild_ptr_mutex, working_flag_mutex, trees, Rebuild_Logger>>
    BY <1>walk DEF WalkInv
  <2>2. MainFrame  BY <2>1, <1>rest DEF MainFrame, Stays, LiveInv, TreesInv
  <2>3. WalkInv'  BY <2>1 DEF WalkInv
  <2>4. QED  BY <2>1, <2>2, <2>3, MainKeeps, NoSearch DEF LiveInv
<1>12. CASE MainSearches
  <2> USE <1>12 DEF MainSearches
  <2>1. /\ main.at = "idle" /\ main' = [at |-> "searching"]
        /\ searcher' = [s \in Searchers |-> [at |-> "test"]]
        /\ UNCHANGED <<rebuilder, shared, contents>>
    OBVIOUS
  <2>2. \A s \in Searchers : searcher[s].at = "idle"  BY <2>1, NoSearch
  <2>3. ThreadTypes'  BY <2>1, <1>rest, <1>types DEF ThreadTypes, SearcherStates
  <2>4. PointerInv' /\ TreesInv'  BY <2>1 DEF LiveInv, PointerInv, TreesInv, shared, mutexes, contents
  <2>5. CounterInv'
    <3>1. Counted = {} /\ Counted' = {}  BY <2>1, <2>2 DEF Counted
    <3>2. QED  BY <2>1, <3>1 DEF LiveInv, CounterInv, shared
  <2>6. SearchInv'  BY <2>1 DEF SearchInv
  <2>7. WalkInv'  BY <2>1, <1>walk DEF WalkInv, shared, mutexes
  <2>8. QED  BY <2>3, <2>4, <2>5, <2>6, <2>7 DEF LiveInv
<1>13. CASE MainJoins
  <2> USE <1>13 DEF MainJoins
  <2>1. main.at = "searching" /\ main' = [at |-> "idle"] /\ \A s \in Searchers : searcher[s].at = "idle"
    OBVIOUS
  <2>2. MainFrame  BY <2>1, <1>rest, MainMoves
  <2>3. WalkInv'  BY <2>1, <1>walk DEF WalkInv, shared, mutexes
  <2>4. QED  BY <2>1, <2>2, <2>3, MainKeeps DEF LiveInv
<1>14. CASE MainStops
  <2> USE <1>14 DEF MainStops
  <2>1. main.at = "idle" /\ main' = [at |-> "joining"]
        /\ UNCHANGED <<searcher, rebuilder, mutexes, contents, Rebuild_Logger>>
    OBVIOUS
  <2>2. MainFrame  BY <2>1, <1>rest DEF MainFrame, mutexes, contents, LiveInv, TreesInv
  <2>3. WalkInv'  BY <2>1, <1>walk DEF WalkInv, mutexes
  <2>4. QED  BY <2>1, <2>2, <2>3, MainKeeps, NoSearch DEF LiveInv
<1>15. CASE MainEnds
  <2> USE <1>15 DEF MainEnds
  <2>1. main.at = "joining" /\ main' = [at |-> "ended"]  OBVIOUS
  <2>2. MainFrame  BY <2>1, <1>rest, MainMoves
  <2>3. WalkInv'  BY <2>1, <1>walk DEF WalkInv, shared, mutexes
  <2>4. QED  BY <2>1, <2>2, <2>3, MainKeeps, NoSearch DEF LiveInv
<1>16. QED
  BY <1>1, <1>2, <1>3, <1>4, <1>5, <1>6, <1>7, <1>8, <1>9, <1>10, <1>11, <1>12, <1>13, <1>14, <1>15,
    <1>4a, <1>4b
  DEF MainActs

-------------------------------------------------------------------------------
(* What a search leaves alone: all but its own place and the counter.        *)
SearchFrame(s) ==
  /\ UNCHANGED <<Rebuild_Ptr, rebuild_flag, Rebuild_Logger, mutexes, termination_flag, contents, main, rebuilder>>
  /\ \E state \in SearcherStates :
       searcher' = [searcher EXCEPT ![s] = state]

LEMMA SearchKeeps ==
  ASSUME LiveInv, NEW s \in Searchers, SearchFrame(s)
  PROVE  ThreadTypes' /\ PointerInv' /\ TreesInv' /\ WalkInv'
<1>1. ThreadTypes'  BY DEF LiveInv, ThreadTypes, SearchFrame
<1>2. PointerInv'  BY DEF LiveInv, PointerInv, SearchFrame, mutexes
<1>3. TreesInv'  BY DEF LiveInv, TreesInv, SearchFrame, contents
<1>4. WalkInv'  BY DEF LiveInv, WalkInv, SearchFrame, mutexes, contents
<1>5. QED  BY <1>1, <1>2, <1>3, <1>4

(* The counted searches are finitely many.                                  *)
LEMMA CountedFinite == IsFiniteSet(Counted)
<1>1. Counted \subseteq Searchers  BY DEF Counted
<1>2. QED  BY <1>1, FS_Subset, RebuildAssumption

(* A search that is not barred enters the tree there is; what it is in stays *)
(* as long as it counts, or nothing is being rebuilt.                       *)
LEMMA SearcherLive == \A s \in Searchers : LiveInv /\ SearcherActs(s) => LiveInv'
<1> SUFFICES ASSUME NEW s \in Searchers, LiveInv, SearcherActs(s) PROVE LiveInv'  OBVIOUS
<1> USE DEF SearcherTo
<1>types. searcher \in [Searchers -> SearcherStates] /\ rebuilder \in RebuilderStates
  BY DEF LiveInv, ThreadTypes
<1>search. SearchInv  BY DEF LiveInv
<1>counter. CounterInv  BY DEF LiveInv
<1>current. current \in Nat /\ (Torn => rebuilder.old \in Nat)
  <2>1. current \in Nat  BY DEF LiveInv, TreesInv
  <2>2. Torn => rebuilder.at \in Replacing  BY DEF Torn, Replacing, After
  <2>3. QED  BY <1>types, <2>1, <2>2, RebuilderReplaces
<1>trees. \A tree \in Nat, exposed \in BOOLEAN, place \in {"plain", "counted"} :
             [at |-> place, tree |-> tree, exposed |-> exposed] \in SearcherStates
  BY DEF SearcherStates
<1>rest. /\ \A place \in {"idle", "test", "enter"} : [at |-> place] \in SearcherStates
         /\ \A tree \in Nat : [at |-> "ranges", tree |-> tree] \in SearcherStates
  BY DEF SearcherStates
<1>1. CASE SearchRootTest(s) \/ SearchTest(s)
  <2> DEFINE plain(tree) == [at |-> "plain", tree |-> tree, exposed |-> tree # current]
  <2>1. /\ searcher[s].at \in {"test", "ranges"} /\ UNCHANGED <<shared, contents, main, rebuilder>>
        /\ \/ searcher' = [searcher EXCEPT ![s] = [at |-> "idle"]]
           \/ searcher' = [searcher EXCEPT ![s] = [at |-> "enter"]]
           \/ searcher' = [searcher EXCEPT ![s] = [at |-> "ranges", tree |-> current]]
           \/ \E tree \in Nat : searcher' = [searcher EXCEPT ![s] = plain(tree)] /\ (Rebuild_Ptr = NULL \/ Torn)
    <3>1. CASE SearchRootTest(s)  BY <3>1, <1>current DEF SearchRootTest
    <3>2. CASE SearchTest(s)
      <4>1. searcher[s].at = "ranges" /\ searcher[s].tree \in Nat
        <5>1. searcher[s] \in SearcherStates /\ searcher[s].at = "ranges"  BY <3>2, <1>types DEF SearchTest
        <5>2. QED  BY <5>1 DEF SearcherStates
      <4>2. searcher[s].tree # current => Rebuild_Ptr = NULL \/ Torn  BY <4>1, <1>search DEF SearchInv
      <4>3. QED  BY <3>2, <4>1, <4>2, <1>current DEF SearchTest
    <3>3. QED  BY <1>1, <3>1, <3>2
  <2>2. PICK state \in SearcherStates :
          /\ searcher' = [searcher EXCEPT ![s] = state]
          /\ state.at # "counted"
          /\ state.at = "plain" /\ ~state.exposed => state.tree = current /\ (Rebuild_Ptr = NULL \/ Torn)
          /\ state.at = "ranges" => state.tree = current
    <3>1. \A tree \in Nat : plain(tree) \in SearcherStates  BY <1>trees
    <3>2. [at |-> "ranges", tree |-> current] \in SearcherStates  BY <1>rest, <1>current
    <3>3. CASE \E tree \in Nat : searcher' = [searcher EXCEPT ![s] = plain(tree)] /\ (Rebuild_Ptr = NULL \/ Torn)
      BY <3>1, <3>3
    <3>4. CASE \/ searcher' = [searcher EXCEPT ![s] = [at |-> "idle"]]
               \/ searcher' = [searcher EXCEPT ![s] = [at |-> "enter"]]
               \/ searcher' = [searcher EXCEPT ![s] = [at |-> "ranges", tree |-> current]]
      BY <3>2, <3>4, <1>rest
    <3>5. QED  BY <2>1, <3>3, <3>4
  <2>3. SearchFrame(s)  BY <2>1, <2>2 DEF SearchFrame, shared
  <2>4. \A r \in Searchers : searcher'[r] = IF r = s THEN state ELSE searcher[r]  BY <1>types, <2>2
  <2>5. CounterInv'
    <3>1. Counted' = Counted  BY <2>1, <2>2, <2>4 DEF Counted
    <3>2. QED  BY <2>1, <3>1, <1>counter DEF CounterInv, shared
  <2>6. SearchInv'  BY <2>1, <2>2, <2>4, <1>search DEF SearchInv, shared, contents, Torn
  <2>7. QED  BY <2>3, <2>5, <2>6, SearchKeeps DEF LiveInv
<1>2. CASE SearchEnters(s)
  <2> USE <1>2 DEF SearchEnters
  <2> DEFINE state == [at |-> "counted", tree |-> current, exposed |-> FALSE]
  <2>1. /\ searcher[s].at = "enter" /\ search_mutex_counter # -1
        /\ search_mutex_counter' = search_mutex_counter + 1
        /\ searcher' = [searcher EXCEPT ![s] = state]
    OBVIOUS
  <2>2. state \in SearcherStates /\ state.at = "counted" /\ state.tree = current /\ ~state.exposed
    BY <1>trees, <1>current
  <2>3. SearchFrame(s)  BY <2>1, <2>2 DEF SearchFrame
  <2>4. \A r \in Searchers : searcher'[r] = IF r = s THEN state ELSE searcher[r]  BY <1>types, <2>1
  <2>5. CounterInv'
    <3>1. s \notin Counted /\ Counted' = Counted \cup {s}  BY <2>1, <2>2, <2>4 DEF Counted
    <3>2. rebuilder.at \notin Blocking /\ search_mutex_counter = Cardinality(Counted)
      BY <2>1, <1>counter DEF CounterInv
    <3>3. Cardinality(Counted') = Cardinality(Counted) + 1
      BY <3>1, CountedFinite, FS_AddElement
    <3>4. QED  BY <2>1, <3>2, <3>3 DEF CounterInv
  <2> HIDE DEF state
  <2>6. SearchInv'  BY <2>1, <2>2, <2>4, <1>search DEF SearchInv, contents, Torn
  <2>7. QED  BY <2>3, <2>5, <2>6, SearchKeeps DEF LiveInv
<1>3. CASE SearchLeaves(s)
  <2> USE <1>3 DEF SearchLeaves
  <2> DEFINE state == [at |-> "idle"]
  <2>1. searcher' = [searcher EXCEPT ![s] = state]  OBVIOUS
  <2>2. state \in SearcherStates /\ state.at = "idle"  BY <1>rest
  <2>3. SearchFrame(s)  BY <2>1, <2>2 DEF SearchFrame
  <2>4. \A r \in Searchers : searcher'[r] = IF r = s THEN state ELSE searcher[r]  BY <1>types, <2>1
  <2>5. CounterInv'
    <3>1. CASE searcher[s].at = "plain"
      <4>1. Counted' = Counted  BY <2>2, <2>4, <3>1 DEF Counted
      <4>2. QED  BY <3>1, <4>1, <1>counter DEF CounterInv
    <3>2. CASE searcher[s].at = "counted"
      <4>1. s \in Counted /\ Counted' = Counted \ {s}  BY <2>2, <2>4, <3>2 DEF Counted
      <4>2. rebuilder.at \notin Blocking /\ search_mutex_counter = Cardinality(Counted)
        BY <4>1, <1>counter DEF CounterInv
      <4>3. Cardinality(Counted') = Cardinality(Counted) - 1
        BY <4>1, CountedFinite, FS_RemoveElement
      <4>4. QED  BY <3>2, <4>2, <4>3 DEF CounterInv
    <3>3. QED  BY <3>1, <3>2
  <2> HIDE DEF state
  <2>6. SearchInv'  BY <2>2, <2>4, <1>search DEF SearchInv, contents, Torn
  <2>7. QED  BY <2>3, <2>5, <2>6, SearchKeeps DEF LiveInv
<1>4. QED  BY <1>1, <1>2, <1>3 DEF SearcherActs

-------------------------------------------------------------------------------

(* A place of the rebuild thread that replaces a tree.                       *)
LEMMA RebuilderGoes ==
  ASSUME LiveInv, rebuilder.at \in Replacing
  PROVE  \A place \in Replacing :
           /\ [rebuilder EXCEPT !.at = place] = [at |-> place, old |-> rebuilder.old]
           /\ [at |-> place, old |-> rebuilder.old] \in RebuilderStates
<1>1. rebuilder \in RebuilderStates  BY DEF LiveInv, ThreadTypes
<1>2. rebuilder.old \in Nat  BY <1>1, RebuilderReplaces
<1>3. \A place : [rebuilder EXCEPT !.at = place] = [at |-> place, old |-> rebuilder.old]
  BY <1>1, RebuilderReplaces
<1>4. QED  BY <1>2, <1>3 DEF RebuilderStates

(* A search is counted or barred, not both: the counter is 0 when no search  *)
(* counts, and only then.                                                   *)
LEMMA NoneCounted ==
  LiveInv /\ search_mutex_counter = 0 => Counted = {} /\ rebuilder.at \notin Blocking
<1> SUFFICES ASSUME LiveInv, search_mutex_counter = 0
    PROVE  Counted = {} /\ rebuilder.at \notin Blocking
  OBVIOUS
<1>1. rebuilder.at \notin Blocking /\ Cardinality(Counted) = 0  BY DEF LiveInv, CounterInv
<1>2. QED  BY <1>1, CountedFinite, FS_EmptySet

(* The rebuild thread bars all searches before it exchanges the trees, and   *)
(* frees the old one after all that were in it have gone.                   *)
LEMMA RebuilderLive == LiveInv /\ RebuilderActs => LiveInv'
<1> SUFFICES ASSUME LiveInv, RebuilderActs PROVE LiveInv'  OBVIOUS
<1> USE RebuildAssumption DEF Rebuilder, ClientStays
<1>parts. ThreadTypes /\ PointerInv /\ TreesInv /\ CounterInv /\ SearchInv /\ WalkInv
  BY DEF LiveInv
<1>rest. \A place \in {"idle", "ptr", "check", "terminated"} : [at |-> place] \in RebuilderStates
  BY DEF RebuilderStates
<1>types. UNCHANGED <<main, searcher>> /\ rebuilder' \in RebuilderStates => ThreadTypes'
  BY <1>parts DEF ThreadTypes
<1>counted. UNCHANGED searcher => Counted' = Counted  BY DEF Counted
<1>1. CASE RebuildPolls
  <2> USE <1>1 DEF RebuildPolls
  <2>1. /\ rebuilder.at = "idle" /\ rebuilder' = [at |-> "ptr"] /\ rebuilder'.at = "ptr"
        /\ rebuild_ptr_mutex' = "rebuild"
    OBVIOUS
  <2>2. ThreadTypes'  BY <2>1, <1>rest, <1>types
  <2>3. PointerInv'
    BY <2>1, <1>parts DEF PointerInv, Stays, Replacing, Before, After, Locking
  <2>4. TreesInv'
    BY <2>1, <1>parts DEF TreesInv, Stays, Replacing, Before, After, HasNew
  <2>5. CounterInv'  BY <2>1, <1>parts, <1>counted DEF CounterInv, Stays, Blocking
  <2>6. SearchInv' /\ WalkInv'  BY <2>1, <1>parts DEF SearchInv, WalkInv, Torn, Stays
  <2>7. QED  BY <2>2, <2>3, <2>4, <2>5, <2>6 DEF LiveInv
<1>2. CASE RebuildTakes
  <2> USE <1>2 DEF RebuildTakes
  <2>1. /\ rebuilder.at = "ptr" /\ UNCHANGED <<Rebuild_Ptr, Rebuild_Logger, search_mutex_counter, search_flag_mutex, contents>>
        /\ \/ /\ Rebuild_Ptr = NULL /\ rebuilder' = [at |-> "check"] /\ rebuilder'.at = "check"
              /\ rebuild_ptr_mutex' = NULL /\ UNCHANGED <<working_flag_mutex, rebuild_flag>>
           \/ /\ Rebuild_Ptr # NULL /\ rebuilder' = [at |-> "wait", old |-> current]
              /\ rebuilder'.at = "wait" /\ rebuilder'.old = current
              /\ working_flag_mutex' = "rebuild" /\ rebuild_flag' /\ UNCHANGED rebuild_ptr_mutex
              /\ rebuild_flag' = TRUE
    OBVIOUS
  <2>2. current \in Nat /\ [at |-> "wait", old |-> current] \in RebuilderStates
    BY <1>parts DEF TreesInv, RebuilderStates, Replacing, Before
  <2>3. ThreadTypes'  BY <2>1, <2>2, <1>rest, <1>types
  <2>4. PointerInv'
    <3>1. CASE Rebuild_Ptr = NULL
      BY <2>1, <3>1, <1>parts DEF PointerInv, Replacing, Before, After, Locking
    <3>2. CASE Rebuild_Ptr # NULL
      <4>1. rebuilder'.at = "wait" /\ working_flag_mutex' = "rebuild" /\ rebuild_flag' = TRUE
            /\ UNCHANGED <<Rebuild_Ptr, rebuild_ptr_mutex>>
        BY <2>1, <3>2
      <4>2. QED
        BY <2>1, <3>2, <4>1, <1>parts DEF PointerInv, Replacing, Before, After, Locking
    <3>3. QED  BY <3>1, <3>2
  <2>5. TreesInv'
    BY <2>1, <1>parts DEF TreesInv, contents, Replacing, Before, After, HasNew
  <2>6. CounterInv'  BY <2>1, <1>parts, <1>counted DEF CounterInv, Blocking
  <2>7. SearchInv' /\ WalkInv'  BY <2>1, <1>parts DEF SearchInv, WalkInv, Torn, contents
  <2>8. QED  BY <2>3, <2>4, <2>5, <2>6, <2>7 DEF LiveInv
<1>3. CASE RebuildBlocksSearches
  <2> USE <1>3 DEF RebuildBlocksSearches
  <2>1. PICK from \in {"wait", "drained", "empty"}, to \in {"copy", "exchange", "crash"} :
          /\ rebuilder.at = from /\ rebuilder' = [rebuilder EXCEPT !.at = to]
          /\ to = CASE from = "wait" -> "copy" [] from = "drained" -> "exchange" [] from = "empty" -> "crash"
    OBVIOUS
  <2>2. from \in Replacing /\ to \in Replacing  BY DEF Replacing, Before
  <2>3. rebuilder' = [at |-> to, old |-> rebuilder.old] /\ rebuilder' \in RebuilderStates
    BY <2>1, <2>2, RebuilderGoes
  <2>4. rebuilder'.at = to /\ rebuilder'.old = rebuilder.old  BY <2>3
  <2>5. ThreadTypes'  BY <2>3, <1>types
  <2>6. PointerInv'
    BY <2>1, <2>4, <1>parts DEF PointerInv, mutexes, Replacing, Before, After, Locking
  <2>7. TreesInv'
    BY <2>1, <2>4, <1>parts DEF TreesInv, contents, Replacing, Before, After, HasNew
  <2>8. CounterInv'  BY <2>1, <2>4, NoneCounted, <1>counted DEF CounterInv, Blocking
  <2>9. SearchInv' /\ WalkInv'
    BY <2>1, <2>4, <1>parts DEF SearchInv, WalkInv, Torn, contents, mutexes
  <2>10. QED  BY <2>5, <2>6, <2>7, <2>8, <2>9 DEF LiveInv
<1>4. CASE RebuildCopies
  <2> USE <1>4 DEF RebuildCopies
  <2> DEFINE copy == IF Rebuild_Ptr = "Root_Node" THEN Visible ELSE trees[current]
  <2>1. /\ rebuilder.at = "copy" /\ Stays /\ UNCHANGED <<Rebuild_Logger, mutexes>>
        /\ trees' = Append([trees EXCEPT ![current] = copy], copy)
    OBVIOUS
  <2>2. PICK to \in {"copied", "copied_nothing"} : rebuilder' = [rebuilder EXCEPT !.at = to]
    OBVIOUS
  <2>3. rebuilder' = [at |-> to, old |-> rebuilder.old] /\ rebuilder' \in RebuilderStates
    BY <2>1, <2>2, RebuilderGoes DEF Replacing, Before
  <2>4. rebuilder'.at = to /\ rebuilder'.old = rebuilder.old  BY <2>3
  <2>5. copy \in Bags  BY <1>parts, VisibleBag
  <2> HIDE DEF copy
  <2>6. trees' \in Seq(Bags) /\ Len(trees') = Len(trees) + 1
    <3>1. trees \in Seq(Bags) /\ current \in 1 .. Len(trees)  BY <1>parts DEF TreesInv
    <3>2. [trees EXCEPT ![current] = copy] \in Seq(Bags) /\ Len([trees EXCEPT ![current] = copy]) = Len(trees)
      BY <2>5, <3>1, TreeChanged
    <3>3. QED  BY <2>1, <2>5, <3>2
  <2>7. ThreadTypes'  BY <2>3, <1>types
  <2>8. PointerInv'
    BY <2>1, <2>4, <1>parts DEF PointerInv, Stays, mutexes, Replacing, Before, After, Locking
  <2>9. TreesInv'
    BY <2>1, <2>4, <2>6, <1>parts DEF TreesInv, Stays, Replacing, Before, After, HasNew
  <2>10. CounterInv'  BY <2>1, <2>4, <1>parts, <1>counted DEF CounterInv, Stays, Blocking
  <2>11. SearchInv' /\ WalkInv'
    BY <2>1, <2>4, <1>parts DEF SearchInv, WalkInv, Torn, Stays, mutexes
  <2>12. QED  BY <2>7, <2>8, <2>9, <2>10, <2>11 DEF LiveInv
<1>5. CASE RebuildUnblocks
  <2> USE <1>5 DEF RebuildUnblocks
  <2>1. PICK from \in {"copied", "copied_nothing"}, to \in {"build", "empty"} :
          /\ rebuilder.at = from /\ rebuilder' = [rebuilder EXCEPT !.at = to]
          /\ from = "copied" <=> to = "build"
    OBVIOUS
  <2>2. from \in Replacing /\ to \in Replacing  BY DEF Replacing, Before
  <2>3. rebuilder' = [at |-> to, old |-> rebuilder.old] /\ rebuilder' \in RebuilderStates
    BY <2>1, <2>2, RebuilderGoes
  <2>4. rebuilder'.at = to /\ rebuilder'.old = rebuilder.old  BY <2>3
  <2>5. ThreadTypes'  BY <2>3, <1>types
  <2>6. PointerInv'
    BY <2>1, <2>4, <1>parts DEF PointerInv, Replacing, Before, After, Locking
  <2>7. TreesInv'
    BY <2>1, <2>4, <1>parts DEF TreesInv, contents, Replacing, Before, After, HasNew
  <2>8. CounterInv'  BY <2>1, <2>4, <1>parts, <1>counted, FS_EmptySet DEF CounterInv, Blocking
  <2>9. SearchInv' /\ WalkInv'
    BY <2>1, <2>4, <1>parts DEF SearchInv, WalkInv, Torn, contents
  <2>10. QED  BY <2>5, <2>6, <2>7, <2>8, <2>9 DEF LiveInv
<1>6. CASE RebuildBuilds
  <2> USE <1>6 DEF RebuildBuilds
  <2>1. rebuilder.at = "build" /\ rebuilder' = [rebuilder EXCEPT !.at = "drain"]  OBVIOUS
  <2>2. rebuilder' = [at |-> "drain", old |-> rebuilder.old] /\ rebuilder' \in RebuilderStates
    BY <2>1, RebuilderGoes DEF Replacing, Before
  <2>3. rebuilder'.at = "drain" /\ rebuilder'.old = rebuilder.old  BY <2>2
  <2>4. ThreadTypes'  BY <2>2, <1>types
  <2>5. PointerInv'
    BY <2>1, <2>3, <1>parts DEF PointerInv, Stays, Replacing, Before, After, Locking
  <2>6. TreesInv'
    BY <2>1, <2>3, <1>parts DEF TreesInv, Stays, Replacing, Before, After, HasNew
  <2>7. CounterInv'  BY <2>1, <2>3, <1>parts, <1>counted DEF CounterInv, Stays, Blocking
  <2>8. SearchInv' /\ WalkInv'  BY <2>1, <2>3, <1>parts DEF SearchInv, WalkInv, Torn, Stays
  <2>9. QED  BY <2>4, <2>5, <2>6, <2>7, <2>8 DEF LiveInv
<1>7. CASE RebuildReplays
  <2> USE <1>7 DEF RebuildReplays
  <2> DEFINE bag == run_operation(trees[Len(trees)], Head(Rebuild_Logger))
  <2>1. /\ rebuilder.at = "drain" /\ rebuilder' = [rebuilder EXCEPT !.at = "build"] /\ Stays
        /\ Rebuild_Logger # << >> /\ Rebuild_Logger' = Tail(Rebuild_Logger)
        /\ trees' = [trees EXCEPT ![Len(trees)] = bag]
        /\ UNCHANGED <<rebuild_ptr_mutex, search_flag_mutex>> /\ working_flag_mutex' = NULL
    OBVIOUS
  <2>2. rebuilder' = [at |-> "build", old |-> rebuilder.old] /\ rebuilder' \in RebuilderStates
    BY <2>1, RebuilderGoes DEF Replacing, Before
  <2>3. rebuilder'.at = "build" /\ rebuilder'.old = rebuilder.old  BY <2>2
  <2>4. /\ trees \in Seq(Bags) /\ current \in 1 .. Len(trees)
        /\ Head(Rebuild_Logger) \in Logged /\ Tail(Rebuild_Logger) \in Seq(Logged)
    BY <2>1, <1>parts DEF TreesInv
  <2>5. Len(trees) \in 1 .. Len(trees) /\ bag \in Bags  BY <2>4, BagsClosed
  <2> HIDE DEF bag
  <2>6. trees' \in Seq(Bags) /\ Len(trees') = Len(trees)  BY <2>1, <2>4, <2>5, TreeChanged
  <2>7. ThreadTypes'  BY <2>2, <1>types
  <2>8. PointerInv'
    BY <2>1, <2>3, <1>parts DEF PointerInv, Stays, Replacing, Before, After, Locking
  <2>9. TreesInv'
    BY <2>1, <2>3, <2>4, <2>6, <1>parts DEF TreesInv, Stays, Replacing, Before, After, HasNew
  <2>10. CounterInv'  BY <2>1, <2>3, <1>parts, <1>counted DEF CounterInv, Stays, Blocking
  <2>11. SearchInv' /\ WalkInv'  BY <2>1, <2>3, <1>parts DEF SearchInv, WalkInv, Torn, Stays
  <2>12. QED  BY <2>7, <2>8, <2>9, <2>10, <2>11 DEF LiveInv
<1>8. CASE RebuildDrained
  <2> USE <1>8 DEF RebuildDrained
  <2>1. rebuilder.at = "drain" /\ rebuilder' = [rebuilder EXCEPT !.at = "drained"]  OBVIOUS
  <2>2. rebuilder' = [at |-> "drained", old |-> rebuilder.old] /\ rebuilder' \in RebuilderStates
    BY <2>1, RebuilderGoes DEF Replacing, Before
  <2>3. rebuilder'.at = "drained" /\ rebuilder'.old = rebuilder.old  BY <2>2
  <2>4. ThreadTypes'  BY <2>2, <1>types
  <2>5. PointerInv'
    BY <2>1, <2>3, <1>parts DEF PointerInv, shared, mutexes, Replacing, Before, After, Locking
  <2>6. TreesInv'
    BY <2>1, <2>3, <1>parts DEF TreesInv, shared, contents, Replacing, Before, After, HasNew
  <2>7. CounterInv'  BY <2>1, <2>3, <1>parts, <1>counted DEF CounterInv, shared, Blocking
  <2>8. SearchInv' /\ WalkInv'
    BY <2>1, <2>3, <1>parts DEF SearchInv, WalkInv, Torn, shared, mutexes, contents
  <2>9. QED  BY <2>4, <2>5, <2>6, <2>7, <2>8 DEF LiveInv
<1>9. CASE RebuildExchanges
  <2> USE <1>9 DEF RebuildExchanges
  <2>1. /\ rebuilder.at = "exchange" /\ rebuilder' = [rebuilder EXCEPT !.at = "exchanged"]
        /\ current' = Len(trees) /\ UNCHANGED <<shared, trees, freed>>
    OBVIOUS
  <2>2. rebuilder' = [at |-> "exchanged", old |-> rebuilder.old] /\ rebuilder' \in RebuilderStates
    BY <2>1, RebuilderGoes DEF Replacing, Before, After
  <2>3. rebuilder'.at = "exchanged" /\ rebuilder'.old = rebuilder.old  BY <2>2
  <2>4. ThreadTypes'  BY <2>2, <1>types
  <2>5. PointerInv'
    BY <2>1, <2>3, <1>parts DEF PointerInv, shared, mutexes, Replacing, Before, After, Locking
  <2>6. rebuilder.old = current /\ current < Len(trees) /\ Rebuild_Ptr # NULL
    BY <2>1, <1>parts DEF TreesInv, PointerInv, Before, HasNew
  <2>7. TreesInv'
    <3>1. /\ trees \in Seq(Bags) /\ current \in 1 .. Len(trees) /\ Rebuild_Logger \in Seq(Logged)
          /\ freed \subseteq Nat /\ \A t \in freed : t < current
      BY <1>parts DEF TreesInv
    <3>2. current' \in 1 .. Len(trees') /\ current < current'  BY <2>1, <2>6, <3>1
    <3>3. \A t \in freed' : t < current' /\ t < rebuilder'.old
      <4>1. freed \subseteq Nat /\ \A t \in freed : t < rebuilder.old
        BY <2>1, <1>parts DEF TreesInv, Replacing, Before
      <4>2. QED  BY <2>1, <2>3, <2>6, <3>1, <3>2, <4>1
    <3>4. QED
      BY <2>1, <2>3, <2>6, <3>1, <3>2, <3>3 DEF TreesInv, shared, Before, After, HasNew
  <2>8. Counted = {}  BY <2>1, <1>parts DEF CounterInv, Blocking
  <2>9. CounterInv'  BY <2>1, <2>3, <2>8, <1>parts, <1>counted DEF CounterInv, shared, Blocking
  <2>10. SearchInv'  BY <2>1, <2>3, <2>6, <2>8, <1>parts DEF SearchInv, shared, Counted, Torn
  <2>11. WalkInv'  BY <2>1, <2>3, <2>6, <1>parts DEF WalkInv, shared, mutexes
  <2>12. QED  BY <2>4, <2>5, <2>7, <2>9, <2>10, <2>11 DEF LiveInv
<1>10. CASE RebuildCrashes
  <2> USE <1>10 DEF RebuildCrashes
  <2>1. rebuilder.at = "crash" /\ rebuilder' = [rebuilder EXCEPT !.at = "crashed"]  OBVIOUS
  <2>2. rebuilder' = [at |-> "crashed", old |-> rebuilder.old] /\ rebuilder' \in RebuilderStates
    BY <2>1, RebuilderGoes DEF Replacing, Before
  <2>3. rebuilder'.at = "crashed" /\ rebuilder'.old = rebuilder.old  BY <2>2
  <2>4. ThreadTypes'  BY <2>2, <1>types
  <2>5. PointerInv'
    BY <2>1, <2>3, <1>parts DEF PointerInv, shared, mutexes, Replacing, Before, After, Locking
  <2>6. TreesInv'
    BY <2>1, <2>3, <1>parts DEF TreesInv, shared, contents, Replacing, Before, After, HasNew
  <2>7. CounterInv'  BY <2>1, <2>3, <1>parts, <1>counted DEF CounterInv, shared, Blocking
  <2>8. SearchInv' /\ WalkInv'
    BY <2>1, <2>3, <1>parts DEF SearchInv, WalkInv, Torn, shared, mutexes, contents
  <2>9. QED  BY <2>4, <2>5, <2>6, <2>7, <2>8 DEF LiveInv
<1>11. CASE RebuildReleases
  <2> USE <1>11 DEF RebuildReleases
  <2>1. /\ rebuilder.at = "exchanged" /\ rebuilder' = [rebuilder EXCEPT !.at = "released"]
        /\ Rebuild_Ptr' = NULL /\ search_flag_mutex = NULL
    OBVIOUS
  <2>2. rebuilder' = [at |-> "released", old |-> rebuilder.old] /\ rebuilder' \in RebuilderStates
    BY <2>1, RebuilderGoes DEF Replacing, After
  <2>3. rebuilder'.at = "released" /\ rebuilder'.old = rebuilder.old  BY <2>2
  <2>4. ThreadTypes'  BY <2>2, <1>types
  <2>5. PointerInv'
    BY <2>1, <2>3, <1>parts DEF PointerInv, Replacing, Before, After, Locking
  <2>6. TreesInv'
    BY <2>1, <2>3, <1>parts DEF TreesInv, contents, Replacing, Before, After, HasNew
  <2>7. CounterInv'
    BY <2>1, <2>3, <1>parts, <1>counted, FS_EmptySet DEF CounterInv, Blocking
  <2>8. SearchInv'  BY <2>1, <1>parts DEF SearchInv, contents, Torn
  <2>9. WalkInv'  BY <2>1, <2>3, <1>parts DEF WalkInv, contents
  <2>10. QED  BY <2>4, <2>5, <2>6, <2>7, <2>8, <2>9 DEF LiveInv
<1>12. CASE RebuildLowersFlag
  <2> USE <1>12 DEF RebuildLowersFlag
  <2>1. rebuilder.at = "released" /\ rebuilder' = [rebuilder EXCEPT !.at = "discard"]  OBVIOUS
  <2>2. rebuilder' = [at |-> "discard", old |-> rebuilder.old] /\ rebuilder' \in RebuilderStates
    BY <2>1, RebuilderGoes DEF Replacing, After
  <2>3. rebuilder'.at = "discard" /\ rebuilder'.old = rebuilder.old  BY <2>2
  <2>4. ThreadTypes'  BY <2>2, <1>types
  <2>5. PointerInv'
    BY <2>1, <2>3, <1>parts DEF PointerInv, mutexes, Replacing, Before, After, Locking
  <2>6. TreesInv'
    BY <2>1, <2>3, <1>parts DEF TreesInv, contents, Replacing, Before, After, HasNew
  <2>7. CounterInv'  BY <2>1, <2>3, <1>parts, <1>counted DEF CounterInv, Blocking
  <2>8. SearchInv' /\ WalkInv'
    BY <2>1, <2>3, <1>parts DEF SearchInv, WalkInv, Torn, mutexes, contents
  <2>9. QED  BY <2>4, <2>5, <2>6, <2>7, <2>8 DEF LiveInv
<1>13. CASE RebuildDiscards
  <2> USE <1>13 DEF RebuildDiscards
  <2>1. /\ rebuilder.at = "discard" /\ rebuilder' = [at |-> "check"] /\ rebuilder'.at = "check"
        /\ freed' = freed \cup {rebuilder.old} /\ rebuild_ptr_mutex' = NULL
    OBVIOUS
  <2>2. ThreadTypes'  BY <2>1, <1>rest, <1>types
  <2>3. PointerInv'
    BY <2>1, <1>parts DEF PointerInv, Replacing, Before, After, Locking
  <2>4. rebuilder.old \in Nat /\ rebuilder.old < current
    BY <2>1, <1>parts, RebuilderReplaces DEF ThreadTypes, TreesInv, Replacing, After
  <2>5. TreesInv'
    BY <2>1, <2>4, <1>parts DEF TreesInv, Replacing, Before, After, HasNew
  <2>6. CounterInv'  BY <2>1, <1>parts, <1>counted DEF CounterInv, Blocking
  <2>7. SearchInv' /\ WalkInv'  BY <2>1, <1>parts DEF SearchInv, WalkInv, Torn
  <2>8. QED  BY <2>2, <2>3, <2>5, <2>6, <2>7 DEF LiveInv
<1>14. CASE RebuildChecks
  <2> USE <1>14 DEF RebuildChecks
  <2>1. PICK to \in {"terminated", "idle"} :
          rebuilder.at = "check" /\ rebuilder' = [at |-> to] /\ rebuilder'.at = to
    OBVIOUS
  <2>2. ThreadTypes'  BY <2>1, <1>rest, <1>types
  <2>3. PointerInv'
    BY <2>1, <1>parts DEF PointerInv, shared, mutexes, Replacing, Before, After, Locking
  <2>4. TreesInv'
    BY <2>1, <1>parts DEF TreesInv, shared, contents, Replacing, Before, After, HasNew
  <2>5. CounterInv'  BY <2>1, <1>parts, <1>counted DEF CounterInv, shared, Blocking
  <2>6. SearchInv' /\ WalkInv'
    BY <2>1, <1>parts DEF SearchInv, WalkInv, Torn, shared, mutexes, contents
  <2>7. QED  BY <2>2, <2>3, <2>4, <2>5, <2>6 DEF LiveInv
<1>15. QED
  BY <1>1, <1>2, <1>3, <1>4, <1>5, <1>6, <1>7, <1>8, <1>9, <1>10, <1>11, <1>12, <1>13, <1>14
  DEF RebuilderActs

(* Every step keeps what is searched alive.                                  *)
LEMMA LiveStep == LiveInv /\ [Next]_vars => LiveInv'
<1> SUFFICES ASSUME LiveInv, [Next]_vars PROVE LiveInv'  OBVIOUS
<1>1. CASE UNCHANGED vars
  <2>1. Counted' = Counted  BY <1>1 DEF vars, threads, Counted
  <2>2. QED
    BY <1>1, <2>1 DEF LiveInv, ThreadTypes, PointerInv, TreesInv, CounterInv, SearchInv, WalkInv, Torn,
      vars, shared, contents, threads, mutexes
<1>2. QED  BY <1>1, MainLive, SearcherLive, RebuilderLive DEF Next, Over

(* No guarded search is in a tree that the rebuild thread has deleted: it is *)
(* in the tree there is, counts where a tree is being rebuilt, and is over   *)
(* before the exchange is over.  The ranges that are looked at before, and   *)
(* the searches that enter unguarded, are not among these.                  *)
THEOREM SearchedLive == Spec => []SearchedTreesLive
<1>1. LiveInv => SearchedTreesLive
  <2> SUFFICES ASSUME LiveInv PROVE SearchedTreesLive  OBVIOUS
  <2>1. current \notin freed
    BY DEF LiveInv, TreesInv
  <2>2. rebuilder.at = "exchanged" => rebuilder.old \notin freed
    BY RebuilderReplaces DEF LiveInv, ThreadTypes, TreesInv, Replacing, After
  <2>3. QED  BY <2>1, <2>2 DEF LiveInv, SearchInv, WalkInv, SearchedTreesLive
<1>2. QED  BY LiveInit, LiveStep, <1>1, PTL DEF Spec

-------------------------------------------------------------------------------
(* A tree on which nothing has to be replayed is what is wanted.             *)
LEMMA ReplaysNone ==
  \A bag \in Bags : \A result : Replays(bag, << >>, result) <=> result = bag
<1> SUFFICES ASSUME NEW bag \in Bags, NEW result PROVE Replays(bag, << >>, result) <=> result = bag
  OBVIOUS
<1>1. Len(<< >>) = 0  OBVIOUS
<1>2. Replays(bag, << >>, result) => result = bag  BY <1>1 DEF Replays
<1>3. Replays(bag, << >>, bag)
  <2> DEFINE f == [i \in 0 .. 0 |-> bag]
  <2>1. f \in [0 .. 0 -> Bags] /\ f[0] = bag  OBVIOUS
  <2> HIDE DEF f
  <2>2. \A i \in 1 .. 0 : f[i] = run_operation(f[i - 1], << >>[i])  OBVIOUS
  <2>3. QED  BY <1>1, <2>1, <2>2 DEF Replays
<1>4. QED  BY <1>2, <1>3

(* What is logged is replayed last.                                         *)
LEMMA ReplaysLogged ==
  ASSUME NEW bag \in Bags, NEW log \in Seq(Logged), NEW result, NEW operation \in Logged,
         Replays(bag, log, result)
  PROVE  Replays(bag, Append(log, operation), run_operation(result, operation))
<1> DEFINE n == Len(log)
           longer == Append(log, operation)
<1>1. n \in Nat /\ Len(longer) = n + 1 /\ longer[n + 1] = operation /\ \A i \in 1 .. n : longer[i] = log[i]
  OBVIOUS
<1>2. PICK f \in [0 .. n -> Bags] :
        f[0] = bag /\ f[n] = result /\ \A i \in 1 .. n : f[i] = run_operation(f[i - 1], log[i])
  BY DEF Replays
<1> HIDE DEF n, longer
<1>3. result \in Bags /\ run_operation(result, operation) \in Bags  BY <1>1, <1>2, BagsClosed
<1> DEFINE g == [i \in 0 .. n + 1 |-> IF i = n + 1 THEN run_operation(result, operation) ELSE f[i]]
<1>4. g \in [0 .. n + 1 -> Bags]  BY <1>1, <1>2, <1>3
<1>5. g[0] = bag /\ g[n + 1] = run_operation(result, operation) /\ \A i \in 0 .. n : g[i] = f[i]
  BY <1>1, <1>2
<1> HIDE DEF g
<1>6. \A i \in 1 .. n + 1 : g[i] = run_operation(g[i - 1], longer[i])
  <2> SUFFICES ASSUME NEW i \in 1 .. n + 1 PROVE g[i] = run_operation(g[i - 1], longer[i])  OBVIOUS
  <2>1. CASE i = n + 1
    <3>1. i - 1 = n /\ g[n] = result  BY <1>1, <1>2, <1>5, <2>1
    <3>2. QED  BY <1>1, <1>5, <2>1, <3>1
  <2>2. CASE i # n + 1
    <3>1. i \in 1 .. n /\ i \in 0 .. n /\ i - 1 \in 0 .. n  BY <1>1, <2>2
    <3>2. QED  BY <1>1, <1>2, <1>5, <3>1
  <2>3. QED  BY <2>1, <2>2
<1>7. QED  BY <1>1, <1>4, <1>5, <1>6 DEF Replays, longer

(* What was logged first is run first, and what is left afterwards.          *)
LEMMA ReplaysRun ==
  ASSUME NEW bag \in Bags, NEW log \in Seq(Logged), NEW result, log # << >>, Replays(bag, log, result)
  PROVE  Replays(run_operation(bag, Head(log)), Tail(log), result)
<1> DEFINE n == Len(log)
           rest == Tail(log)
<1>1. n \in Nat \ {0} /\ Len(rest) = n - 1 /\ Head(log) = log[1] /\ \A i \in 1 .. n - 1 : rest[i] = log[i + 1]
  OBVIOUS
<1>2. PICK f \in [0 .. n -> Bags] :
        f[0] = bag /\ f[n] = result /\ \A i \in 1 .. n : f[i] = run_operation(f[i - 1], log[i])
  BY DEF Replays
<1> HIDE DEF n, rest
<1> DEFINE g == [i \in 0 .. n - 1 |-> f[i + 1]]
<1>3. g \in [0 .. n - 1 -> Bags]  BY <1>1, <1>2
<1>4. \A i \in 0 .. n - 1 : g[i] = f[i + 1]  OBVIOUS
<1> HIDE DEF g
<1>5. g[0] = run_operation(bag, Head(log)) /\ g[n - 1] = result
  <2>1. 0 \in 0 .. n - 1 /\ n - 1 \in 0 .. n - 1 /\ 0 + 1 = 1 /\ n - 1 + 1 = n /\ 1 - 1 = 0 /\ 1 \in 1 .. n
    BY <1>1
  <2>2. g[0] = f[1] /\ g[n - 1] = f[n]  BY <1>4, <2>1
  <2>3. f[1] = run_operation(f[0], log[1])  BY <1>2, <2>1
  <2>4. QED  BY <1>1, <1>2, <2>2, <2>3
<1>6. \A i \in 1 .. n - 1 : g[i] = run_operation(g[i - 1], rest[i])
  <2> SUFFICES ASSUME NEW i \in 1 .. n - 1 PROVE g[i] = run_operation(g[i - 1], rest[i])  OBVIOUS
  <2>1. /\ i \in 0 .. n - 1 /\ i - 1 \in 0 .. n - 1 /\ i + 1 \in 1 .. n
        /\ (i + 1) - 1 = i /\ (i - 1) + 1 = i
    BY <1>1
  <2>2. g[i] = f[i + 1] /\ g[i - 1] = f[i]  BY <1>4, <2>1
  <2>3. f[i + 1] = run_operation(f[i], log[i + 1])  BY <1>2, <2>1
  <2>4. QED  BY <1>1, <2>2, <2>3
<1>7. QED  BY <1>1, <1>3, <1>5, <1>6 DEF Replays, rest

-------------------------------------------------------------------------------
(* Deletions that leave nothing, or find nothing.                           *)
LEMMA DeletesAll ==
  ASSUME LiveInv, NEW operation \in Operations, operation.op = "DELETE_BOX"
  PROVE  /\ ~Survives(operation) => run_operation(Visible, operation) = EmptyBag
         /\ Misses(operation) => run_operation(Visible, operation) = Visible
<1>1. Visible \in Bags  BY VisibleBag DEF LiveInv
<1>2. run_operation(Visible, operation)
        = [p \in Points |-> IF p \in operation.box THEN 0 ELSE Visible[p]]
  BY DEF run_operation
<1>3. ASSUME ~Survives(operation) PROVE run_operation(Visible, operation) = EmptyBag
  <2>1. \A p \in Points : p \notin operation.box => Visible[p] = 0  BY <1>1, <1>3 DEF Survives, Bags
  <2>2. QED  BY <1>2, <2>1 DEF EmptyBag
<1>4. ASSUME Misses(operation) PROVE run_operation(Visible, operation) = Visible
  BY <1>1, <1>2, <1>4 DEF Misses, Bags
<1>5. QED  BY <1>3, <1>4

(* An operation at the root does to what the caller finds what it should,    *)
(* whether the root is marked or the tree changed.                          *)
LEMMA AtRootDoes ==
  ASSUME LiveInv, push_down \in BOOLEAN, NEW operation \in Operations, AtRoot(operation), UNCHANGED current
  PROVE  /\ Visible' = run_operation(Visible, operation)
         /\ push_down' \in BOOLEAN
         /\ \A t \in 1 .. Len(trees) : t # current => trees'[t] = trees[t]
<1>1. Visible \in Bags /\ trees \in Seq(Bags) /\ current \in 1 .. Len(trees)
  BY VisibleBag DEF LiveInv, TreesInv
<1>2. CASE operation.op = "DELETE_BOX" /\ ~Survives(operation)
  <2>1. push_down' = (push_down \/ Visible # EmptyBag) /\ trees' = trees  BY <1>2 DEF AtRoot
  <2>2. run_operation(Visible, operation) = EmptyBag  BY <1>2, DeletesAll
  <2>3. QED  BY <2>1, <2>2 DEF Visible
<1>3. CASE ~(operation.op = "DELETE_BOX" /\ ~Survives(operation))
  <2> DEFINE bag == run_operation(Visible, operation)
  <2>1. push_down' = FALSE /\ trees' = [trees EXCEPT ![current] = bag]  BY <1>3 DEF AtRoot
  <2>2. bag \in Bags  BY <1>1, BagsClosed DEF Logged
  <2> HIDE DEF bag
  <2>3. trees'[current] = bag /\ \A t \in 1 .. Len(trees) : t # current => trees'[t] = trees[t]
    BY <1>1, <2>1, <2>2, TreeChanged
  <2>4. QED  BY <2>1, <2>3 DEF Visible, bag
<1>4. QED  BY <1>2, <1>3

-------------------------------------------------------------------------------
(* All is as wanted at the start.                                           *)
LEMMA InvisibleInit == Init => InvisibleInv
<1> SUFFICES ASSUME Init PROVE InvisibleInv  OBVIOUS
<1> USE DEF Init
<1>1. main.at = "idle" /\ rebuilder.at = "idle"  OBVIOUS
<1>2. [p \in Points |-> 1] \in Bags  BY DEF Bags
<1>3. Visible = expected  BY DEF Visible
<1>4. QED  BY <1>1, <1>2, <1>3 DEF InvisibleInv, PlaceInv, ReplayInv, HasNew

(* Steps that change no tree, no logged operation and nothing wanted.        *)
Quiet ==
  /\ UNCHANGED <<trees, current, push_down, Rebuild_Logger, expected, stale>>
  /\ rebuilder'.at \in HasNew => rebuilder.at \in HasNew /\ UNCHANGED Rebuild_Ptr
  /\ rebuilder.at \in Pending => rebuilder'.at \in Pending \/ Rebuild_Logger = << >>

LEMMA ReplayQuiet == ReplayInv /\ Quiet => ReplayInv'
<1> SUFFICES ASSUME ReplayInv, Quiet PROVE ReplayInv'  OBVIOUS
<1>1. Visible' = Visible  BY DEF Quiet, Visible
<1>2. rebuilder'.at \in HasNew => Replaced' = Replaced  BY <1>1 DEF Quiet, Replaced
<1>3. QED  BY <1>1, <1>2 DEF Quiet, ReplayInv

(* Operations that are logged if there is a copy that has not seen them: both *)
(* the tree and what is to replace it change by that operation.             *)
LEMMA ReplayLogs ==
  ASSUME LiveInv, ReplayInv, NEW operation \in Logged,
         UNCHANGED <<rebuilder, current, Rebuild_Ptr>>,
         working_flag_mutex = NULL, Log(operation),
         Visible = expected => Visible' = expected',
         rebuilder.at \in HasNew => Replaced' = run_operation(Replaced, operation),
         trees' \in Seq(Bags), Len(trees') = Len(trees),
         \A t \in 1 .. Len(trees) : t # current => trees'[t] = trees[t]
  PROVE  ReplayInv'
<1> SUFFICES ASSUME ~stale' PROVE /\ Visible' = expected'
                                  /\ Rebuild_Logger' # << >> => rebuilder.at \in Pending
                                  /\ rebuilder.at \in HasNew =>
                                       Replays(trees'[Len(trees')], Rebuild_Logger', Replaced')
  BY DEF ReplayInv
<1>1. ~stale /\ (rebuild_flag => Rebuild_Ptr # NULL /\ Rebuild_Logger' = Append(Rebuild_Logger, operation))
             /\ (~rebuild_flag => Rebuild_Logger' = Rebuild_Logger)
  BY DEF Log, LiveInv, PointerInv
<1>2. /\ Visible = expected /\ (Rebuild_Logger # << >> => rebuilder.at \in Pending)
      /\ rebuilder.at \in HasNew => Replays(trees[Len(trees)], Rebuild_Logger, Replaced)
  BY <1>1 DEF ReplayInv
<1>3. rebuilder.at \notin Locking  BY RebuildAssumption DEF LiveInv, PointerInv
<1>4. rebuild_flag => rebuilder.at \in Pending
  BY <1>1, <1>3 DEF LiveInv, PointerInv, Before, Locking, Pending
<1>5. ASSUME rebuilder.at \in HasNew
      PROVE  Replays(trees'[Len(trees')], Rebuild_Logger', Replaced')
  <2>1. rebuild_flag /\ Rebuild_Logger' = Append(Rebuild_Logger, operation)
    BY <1>1, <1>5 DEF LiveInv, PointerInv, HasNew, Before
  <2>2. current < Len(trees) /\ trees \in Seq(Bags) /\ current \in 1 .. Len(trees) /\ Rebuild_Logger \in Seq(Logged)
    BY <1>5 DEF LiveInv, TreesInv
  <2>3. Len(trees) \in 1 .. Len(trees) /\ Len(trees) # current /\ trees[Len(trees)] \in Bags  BY <2>2
  <2>4. trees'[Len(trees')] = trees[Len(trees)]  BY <2>3
  <2>5. Replays(trees[Len(trees)], Append(Rebuild_Logger, operation), run_operation(Replaced, operation))
    BY <1>2, <1>5, <2>2, <2>3, ReplaysLogged
  <2>6. QED  BY <1>5, <2>1, <2>4, <2>5
<1>6. QED  BY <1>1, <1>2, <1>4, <1>5

(* Operations on what has no copy, which nobody logs.                        *)
LEMMA ReplayPlain ==
  ASSUME ReplayInv, UNCHANGED <<rebuilder, Rebuild_Logger, stale>>,
         Visible = expected => Visible' = expected',
         rebuilder.at \in HasNew => Replaced' = Replaced /\ trees' = trees
  PROVE  ReplayInv'
BY DEF ReplayInv

-------------------------------------------------------------------------------
(* A tree is changed in its place, and the caller finds that.                *)
LEMMA PlaceChanged ==
  ASSUME LiveInv, NEW bag \in Bags, trees' = [trees EXCEPT ![current] = bag], UNCHANGED current
  PROVE  /\ trees' \in Seq(Bags) /\ Len(trees') = Len(trees) /\ trees'[current] = bag
         /\ \A t \in 1 .. Len(trees) : t # current => trees'[t] = trees[t]
         /\ ~push_down' => Visible' = bag
<1>1. trees \in Seq(Bags) /\ current \in 1 .. Len(trees)  BY DEF LiveInv, TreesInv
<1>2. /\ trees' \in Seq(Bags) /\ Len(trees') = Len(trees) /\ trees'[current] = bag
      /\ \A t \in 1 .. Len(trees) : t # current => trees'[t] = trees[t]
  BY <1>1, TreeChanged
<1>3. QED  BY <1>2 DEF Visible

(* Main actions that change no tree.                                        *)
LEMMA MainQuiet ==
  ASSUME InvisibleInv,
         UNCHANGED <<trees, current, push_down, Rebuild_Logger, expected, stale, rebuilder, Rebuild_Ptr>>
  PROVE  ReplayInv' /\ (push_down \in BOOLEAN /\ stale \in BOOLEAN /\ expected \in Bags)'
<1>1. Quiet  BY DEF Quiet
<1>2. QED  BY <1>1, ReplayQuiet DEF InvisibleInv, PlaceInv

(* The main thread changes the tree as it was told to, and what it does       *)
(* while there is a copy is logged.                                         *)
LEMMA MainInvisible == LiveInv /\ InvisibleInv /\ MainActs => InvisibleInv'
<1> SUFFICES ASSUME LiveInv, InvisibleInv, MainActs PROVE InvisibleInv'  OBVIOUS
<1> USE RebuildAssumption DEF Main
<1>types. main \in MainStates /\ Operations \cup {PUSH_DOWN} \subseteq Logged
  BY DEF LiveInv, ThreadTypes, Logged
<1>place. PlaceInv /\ ReplayInv  BY DEF InvisibleInv
<1>trees. /\ trees \in Seq(Bags) /\ current \in 1 .. Len(trees)
          /\ rebuilder.at \in HasNew => Len(trees) # current /\ Len(trees) \in 1 .. Len(trees)
  BY DEF LiveInv, TreesInv
<1>copy. rebuilder.at \in HasNew => ~Torn /\ Rebuild_Ptr \in {"son", "Root_Node"}
  BY DEF HasNew, Torn, LiveInv, PointerInv, Before
<1>torn. Torn' = Torn \/ rebuilder' # rebuilder  BY DEF Torn
<1>1. ASSUME NEW operation \in Operations \cup {BOX_SEARCH}, MainStart(operation)  PROVE InvisibleInv'
  <2> USE <1>1 DEF MainStart
  <2>1. main'.at = "root_test"  OBVIOUS
  <2>2. ReplayInv' /\ (push_down \in BOOLEAN /\ stale \in BOOLEAN /\ expected \in Bags)'
    BY MainQuiet DEF shared, contents, ghosts
  <2>3. QED  BY <2>1, <2>2 DEF InvisibleInv, PlaceInv
<1>2. CASE MainRootTest
  <2> USE <1>2 DEF MainRootTest
  <2>1. ReplayInv' /\ (push_down \in BOOLEAN /\ stale \in BOOLEAN /\ expected \in Bags)'
    BY MainQuiet DEF shared, contents, ghosts
  <2>2. /\ \/ main' = [at |-> "walking", tree |-> current, exposed |-> TRUE]
           \/ main' = [main EXCEPT !.at = "root_lock"] /\ Rebuild_Ptr = "Root_Node"
           \/ main' = [main EXCEPT !.at = "root"] /\ (Rebuild_Ptr # "Root_Node" \/ Torn)
        /\ main.at = "root_test" /\ UNCHANGED <<rebuilder, Rebuild_Ptr>>
    BY DEF shared
  <2>3. \/ main'.at = "walking"
        \/ main'.at = "root_lock" /\ Rebuild_Ptr = "Root_Node"
        \/ main'.at = "root" /\ (Rebuild_Ptr # "Root_Node" \/ Torn)
    <3>1. \A place : [main EXCEPT !.at = place] = [at |-> place, do |-> main.do]
      BY <2>2, <1>types, MainDoes
    <3>2. \/ main' = [at |-> "walking", tree |-> current, exposed |-> TRUE]
          \/ main' = [at |-> "root_lock", do |-> main.do] /\ Rebuild_Ptr = "Root_Node"
          \/ main' = [at |-> "root", do |-> main.do] /\ (Rebuild_Ptr # "Root_Node" \/ Torn)
      BY <2>2, <3>1
    <3>3. QED  BY <3>2
  <2>4. QED  BY <2>1, <2>2, <2>3 DEF InvisibleInv, PlaceInv, Torn
<1>3. CASE MainRootLocked
  <2> USE <1>3 DEF MainRootLocked
  <2>1. /\ main.at = "root_lock" /\ main'.at = "idle" /\ AtRoot(main.do) /\ Log(main.do) /\ Stays
        /\ working_flag_mutex = NULL /\ expected' = run_operation(expected, main.do)
        /\ UNCHANGED <<rebuilder, current, Rebuild_Ptr>>
    BY DEF Stays
  <2>2. main.do \in Operations /\ main.do \in Logged  BY <2>1, <1>types, MainDoes
  <2>3. expected' \in Bags  BY <2>1, <2>2, <1>place, BagsClosed DEF PlaceInv
  <2>4. /\ Visible' = run_operation(Visible, main.do) /\ push_down' \in BOOLEAN
        /\ \A t \in 1 .. Len(trees) : t # current => trees'[t] = trees[t]
    BY <2>1, <2>2, <1>place, AtRootDoes DEF PlaceInv
  <2>5. trees' \in Seq(Bags) /\ Len(trees') = Len(trees)
    <3>1. trees' = trees \/ \E bag \in Bags : trees' = [trees EXCEPT ![current] = bag]
      BY <2>1, <2>2, AtRootBags
    <3>2. QED  BY <2>1, <3>1, <1>trees, PlaceChanged
  <2>6. rebuilder.at \in HasNew => Replaced' = run_operation(Replaced, main.do)
    BY <2>1, <2>4, <1>place, <1>copy DEF PlaceInv, Replaced
  <2>7. Visible = expected => Visible' = expected'  BY <2>1, <2>4
  <2>8. ReplayInv'  BY <2>1, <2>2, <2>4, <2>5, <2>6, <2>7, <1>place, ReplayLogs
  <2>9. QED  BY <2>1, <2>3, <2>4, <2>8, <1>place DEF InvisibleInv, PlaceInv, Log, LiveInv, PointerInv
<1>4. CASE MainPushLooks
  <2> USE <1>4 DEF MainPushLooks
  <2>1. ReplayInv' /\ (push_down \in BOOLEAN /\ stale \in BOOLEAN /\ expected \in Bags)'
    BY MainQuiet DEF shared, contents, ghosts
  <2>2. /\ main.at = "root" /\ push_down /\ main'.at = "push_test" /\ main'.tree = current
        /\ UNCHANGED <<rebuilder, Rebuild_Ptr, push_down, current>>
    BY DEF shared, contents
  <2>3. QED  BY <2>1, <2>2, <1>place DEF InvisibleInv, PlaceInv, Torn
<1>4a. CASE MainPushTest
  <2> USE <1>4a DEF MainPushTest
  <2>1. ReplayInv' /\ (push_down \in BOOLEAN /\ stale \in BOOLEAN /\ expected \in Bags)'
    BY MainQuiet DEF shared, contents, ghosts
  <2>2. /\ \/ main'.at = "push_lock" /\ Rebuild_Ptr = "son"
           \/ main'.at = "push" /\ (Rebuild_Ptr # "son" \/ main.tree # current)
        /\ main.at = "push_test" /\ UNCHANGED <<rebuilder, Rebuild_Ptr, push_down, current>>
    BY DEF shared, contents
  <2>3. main'.at = "push" => Rebuild_Ptr = NULL \/ Torn
    BY <2>2, <1>place DEF PlaceInv, LiveInv, PointerInv
  <2>4. QED  BY <2>1, <2>2, <2>3, <1>place DEF InvisibleInv, PlaceInv, Torn
<1>4b. CASE MainPushLocked
  <2> USE <1>4b DEF MainPushLocked
  <2>1. /\ main.at = "push_lock" /\ main'.at = "root" /\ push_down /\ push_down' = FALSE
        /\ trees' = [trees EXCEPT ![current] = EmptyBag]
        /\ working_flag_mutex = NULL /\ Log(PUSH_DOWN) /\ Rebuild_Ptr # "Root_Node"
        /\ UNCHANGED <<rebuilder, expected, current, Rebuild_Ptr>>
    BY <1>place DEF Stays, PlaceInv
  <2>2. /\ trees' \in Seq(Bags) /\ Len(trees') = Len(trees) /\ trees'[current] = EmptyBag
        /\ \A t \in 1 .. Len(trees) : t # current => trees'[t] = trees[t]
        /\ Visible' = EmptyBag /\ Visible = EmptyBag
    BY <2>1, BagsClosed, PlaceChanged DEF Visible
  <2>3. Replaced' = run_operation(Replaced, PUSH_DOWN)
    BY <2>1, <2>2 DEF Replaced, run_operation, PUSH_DOWN
  <2>4. Visible = expected => Visible' = expected'  BY <2>1, <2>2
  <2>5. ReplayInv'  BY <2>1, <2>2, <2>3, <2>4, <1>types, <1>place, ReplayLogs
  <2>6. stale' \in BOOLEAN  BY <2>1, <1>place DEF PlaceInv, Log, LiveInv, PointerInv
  <2>7. QED  BY <2>1, <2>5, <2>6, <1>place DEF InvisibleInv, PlaceInv, Torn
<1>4c. CASE MainPushPlain
  <2> USE <1>4c DEF MainPushPlain
  <2>1. /\ main.at = "push" /\ main'.at = "root" /\ push_down /\ push_down' = FALSE
        /\ trees' = [trees EXCEPT ![main.tree] = EmptyBag]
        /\ stale' = (stale \/ main.tree # current)
        /\ UNCHANGED <<rebuilder, expected, current, Rebuild_Ptr, Rebuild_Logger>>
        /\ (Rebuild_Ptr = NULL \/ Torn)
    BY <1>place DEF Stays, PlaceInv
  <2>2. ReplayInv'
    <3>1. CASE main.tree = current
      <4>1. Visible' = EmptyBag /\ Visible = EmptyBag /\ (stale \in BOOLEAN => stale' = stale)
        BY <2>1, <3>1, BagsClosed, PlaceChanged DEF Visible
      <4>2. rebuilder.at \notin HasNew  BY <2>1, <1>copy
      <4>3. stale' = stale  BY <4>1, <1>place DEF PlaceInv
      <4>4. QED  BY <2>1, <4>1, <4>2, <4>3, <1>place, ReplayPlain
    <3>2. CASE main.tree # current  BY <2>1, <3>2 DEF ReplayInv
    <3>3. QED  BY <3>1, <3>2
  <2>3. QED  BY <2>1, <2>2, <1>place DEF InvisibleInv, PlaceInv, Torn
<1>5. CASE MainMarks
  <2> USE <1>5 DEF MainMarks
  <2>1. /\ main.at = "root" /\ main.do.op = "DELETE_BOX" /\ main'.at = "idle" /\ trees' = trees
        /\ expected' = run_operation(expected, main.do)
        /\ UNCHANGED <<rebuilder, current, Rebuild_Ptr, Rebuild_Logger, stale>>
        /\ (~Survives(main.do) /\ AtRoot(main.do)) \/ (Misses(main.do) /\ UNCHANGED push_down)
    <3>1. main.at = "root" /\ main.do.op = "DELETE_BOX" /\ main'.at = "idle"  OBVIOUS
    <3>2. CASE ~Survives(main.do) /\ AtRoot(main.do)
      <4>1. trees' = trees  BY <3>1, <3>2 DEF AtRoot
      <4>2. QED  BY <3>1, <3>2, <4>1 DEF Stays
    <3>3. CASE Misses(main.do) /\ UNCHANGED <<push_down, trees>>  BY <3>1, <3>3 DEF Stays
    <3>4. QED  BY <3>2, <3>3
  <2>2. main.do \in Operations
    BY <2>1, <1>types, MainDoes DEF BOX_SEARCH
  <2>3. expected' \in Bags  BY <2>1, <2>2, <1>types, <1>place, BagsClosed DEF PlaceInv
  <2>4. Visible' = run_operation(Visible, main.do) /\ push_down' \in BOOLEAN
    <3>1. CASE AtRoot(main.do)  BY <2>1, <2>2, <3>1, <1>place, AtRootDoes DEF PlaceInv
    <3>2. CASE Misses(main.do) /\ UNCHANGED push_down
      BY <2>1, <2>2, <3>2, <1>place, DeletesAll DEF PlaceInv, Visible
    <3>3. QED  BY <2>1, <3>1, <3>2
  <2>5. rebuilder.at \in HasNew => Replaced' = Replaced /\ trees' = trees
    BY <2>1, <1>place, <1>copy DEF PlaceInv, Replaced
  <2>6. Visible = expected => Visible' = expected'  BY <2>1, <2>4
  <2>7. ReplayInv'  BY <2>1, <2>5, <2>6, <1>place, ReplayPlain
  <2>8. QED  BY <2>1, <2>3, <2>4, <2>7, <1>place DEF InvisibleInv, PlaceInv
<1>6. CASE MainSonTest
  <2> USE <1>6 DEF MainSonTest
  <2>1. ReplayInv' /\ (push_down \in BOOLEAN /\ stale \in BOOLEAN /\ expected \in Bags)'
    BY MainQuiet DEF shared, contents, ghosts
  <2>2. /\ \/ main' = [main EXCEPT !.at = "walk_lock"]
           \/ main' = [main EXCEPT !.at = "son_lock"] /\ Rebuild_Ptr = "son"
           \/ main'.at = "son" /\ (Rebuild_Ptr # "son" \/ Torn)
           \/ main'.at = "walking"
        /\ main.at = "root" /\ ~push_down /\ UNCHANGED <<rebuilder, Rebuild_Ptr, push_down>>
    BY DEF shared, contents
  <2>3. \/ main'.at = "walk_lock"
        \/ main'.at = "son_lock" /\ Rebuild_Ptr = "son"
        \/ main'.at = "son" /\ (Rebuild_Ptr # "son" \/ Torn)
        \/ main'.at = "walking"
    <3>1. \A place : [main EXCEPT !.at = place] = [at |-> place, do |-> main.do]
      BY <2>2, <1>types, MainDoes
    <3>2. \/ main' = [at |-> "walk_lock", do |-> main.do]
          \/ main' = [at |-> "son_lock", do |-> main.do] /\ Rebuild_Ptr = "son"
          \/ main'.at = "son" /\ (Rebuild_Ptr # "son" \/ Torn)
          \/ main'.at = "walking"
      BY <2>2, <3>1
    <3>3. QED  BY <3>2
  <2>4. Rebuild_Ptr \in {NULL, "son"} \/ Torn  BY <2>2, <1>place DEF PlaceInv, LiveInv, PointerInv
  <2>5. QED  BY <2>1, <2>2, <2>3, <2>4 DEF InvisibleInv, PlaceInv, Torn
<1>7. CASE MainSonLocked
  <2> DEFINE bag == run_operation(trees[current], main.do)
  <2>1. /\ main.at = "son_lock" /\ main'.at = "criterion" /\ Log(main.do)
        /\ working_flag_mutex = NULL /\ expected' = run_operation(expected, main.do)
        /\ trees' = [trees EXCEPT ![current] = bag]
        /\ UNCHANGED <<rebuilder, current, Rebuild_Ptr, push_down>>
    BY <1>7 DEF MainSonLocked, Stays
  <2>2. main.do \in Operations /\ main.do \in Logged  BY <2>1, <1>types, MainDoes
  <2>3. expected' \in Bags /\ bag \in Bags
    BY <2>1, <2>2, <1>place, BagsClosed, VisibleBag DEF PlaceInv, LiveInv
  <2>4. ~push_down /\ Visible = trees[current]  BY <2>1, <1>place DEF PlaceInv, Visible
  <2> HIDE DEF bag
  <2>5. /\ trees' \in Seq(Bags) /\ Len(trees') = Len(trees) /\ trees'[current] = bag
        /\ \A t \in 1 .. Len(trees) : t # current => trees'[t] = trees[t]
        /\ Visible' = bag
    BY <2>1, <2>3, <2>4, PlaceChanged
  <2>6. rebuilder.at \in HasNew => Replaced' = run_operation(Replaced, main.do)
    BY <2>1, <2>4, <2>5 DEF Replaced, bag
  <2>7. Visible = expected => Visible' = expected'  BY <2>1, <2>4, <2>5 DEF bag
  <2>8. ReplayInv'  BY <2>1, <2>2, <2>5, <2>6, <2>7, <1>place, ReplayLogs
  <2>9. QED  BY <2>1, <2>3, <2>8, <1>place DEF InvisibleInv, PlaceInv, Log, LiveInv, PointerInv
<1>8. CASE MainSonPlain
  <2> DEFINE bag == run_operation(trees[main.tree], main.do)
  <2>1. /\ main.at = "son" /\ main'.at = "criterion" /\ expected' = run_operation(expected, main.do)
        /\ trees' = [trees EXCEPT ![main.tree] = bag]
        /\ stale' = (stale \/ main.tree # current)
        /\ UNCHANGED <<rebuilder, current, Rebuild_Ptr, Rebuild_Logger, push_down>>
    BY <1>8 DEF MainSonPlain, Stays
  <2>2. main.do \in Operations /\ main.do \in Logged  BY <2>1, <1>types, MainHolds
  <2>3. expected' \in Bags /\ (main.tree = current => bag \in Bags)
    BY <2>1, <2>2, <1>place, BagsClosed, VisibleBag DEF PlaceInv, LiveInv
  <2>4. ~push_down /\ Visible = trees[current]  BY <2>1, <1>place DEF PlaceInv, Visible
  <2>5. ReplayInv'
    <3>1. CASE main.tree = current
      <4>1. bag = run_operation(Visible, main.do)  BY <2>4, <3>1
      <4> HIDE DEF bag
      <4>2. Visible' = bag  BY <2>1, <2>3, <2>4, <3>1, PlaceChanged
      <4>3. rebuilder.at \notin HasNew  BY <2>1, <1>place, <1>copy DEF PlaceInv
      <4>4. Visible = expected => Visible' = expected'  BY <2>1, <4>1, <4>2
      <4>5. stale' = stale  BY <2>1, <3>1, <1>place DEF PlaceInv
      <4>6. QED  BY <2>1, <4>3, <4>4, <4>5, <1>place, ReplayPlain
    <3>2. CASE main.tree # current  BY <2>1, <3>2 DEF ReplayInv
    <3>3. QED  BY <3>1, <3>2
  <2> HIDE DEF bag
  <2>6. QED  BY <2>1, <2>3, <2>5, <1>place DEF InvisibleInv, PlaceInv
<1>9. ASSUME NEW target \in {"son", "Root_Node"}, MainAsks(target)  PROVE InvisibleInv'
  <2> USE <1>9 DEF MainAsks
  <2>1. main'.at = "idle" /\ UNCHANGED <<rebuilder, Rebuild_Logger, contents, ghosts>>
        /\ (Rebuild_Ptr' = Rebuild_Ptr \/ rebuild_ptr_mutex = NULL)
    OBVIOUS
  <2>2. rebuilder.at \in HasNew => Rebuild_Ptr' = Rebuild_Ptr
    BY <2>1 DEF LiveInv, PointerInv, HasNew, Replacing, Before
  <2>3. Quiet  BY <2>1, <2>2 DEF Quiet, contents, ghosts
  <2>4. ReplayInv'  BY <2>3, <1>place, ReplayQuiet
  <2>5. QED  BY <2>1, <2>4, <1>place DEF InvisibleInv, PlaceInv, contents, ghosts
<1>10. CASE MainBalanced \/ MainWalks \/ MainWalked \/ MainSearches \/ MainJoins \/ MainStops \/ MainEnds
  <2>1. /\ main'.at \in {"idle", "walking", "searching", "joining", "ended"}
        /\ UNCHANGED <<trees, current, push_down, Rebuild_Logger, expected, stale, rebuilder, Rebuild_Ptr>>
    BY <1>10 DEF MainBalanced, MainWalks, MainWalked, MainSearches, MainJoins, MainStops, MainEnds,
      shared, contents, ghosts, Stays
  <2>2. ReplayInv' /\ (push_down \in BOOLEAN /\ stale \in BOOLEAN /\ expected \in Bags)'
    BY <2>1, MainQuiet
  <2>3. QED  BY <2>1, <2>2 DEF InvisibleInv, PlaceInv
<1>11. QED
  BY <1>1, <1>2, <1>3, <1>4, <1>5, <1>6, <1>7, <1>8, <1>9, <1>10, <1>4a, <1>4b, <1>4c DEF MainActs

-------------------------------------------------------------------------------
(* The rebuild thread changes nothing of what the caller finds: the new tree *)
(* is what the old one has become when it takes its place.                  *)
LEMMA RebuilderInvisible == LiveInv /\ InvisibleInv /\ RebuilderActs => InvisibleInv'
<1> SUFFICES ASSUME LiveInv, InvisibleInv, RebuilderActs PROVE InvisibleInv'  OBVIOUS
<1> USE RebuildAssumption DEF Rebuilder, ClientStays
<1>place. PlaceInv /\ ReplayInv  BY DEF InvisibleInv
<1>trees. /\ trees \in Seq(Bags) /\ current \in 1 .. Len(trees) /\ Rebuild_Logger \in Seq(Logged)
          /\ Visible \in Bags /\ trees[current] \in Bags
          /\ rebuilder.at \in HasNew => current < Len(trees)
  BY VisibleBag DEF LiveInv, TreesInv
<1>goes. rebuilder.at \in Replacing =>
           \A place \in Replacing : [rebuilder EXCEPT !.at = place].at = place
  <2>1. ASSUME rebuilder.at \in Replacing, NEW place \in Replacing
        PROVE  [rebuilder EXCEPT !.at = place].at = place
    <3>1. [rebuilder EXCEPT !.at = place] = [at |-> place, old |-> rebuilder.old]
      BY <2>1, RebuilderGoes
    <3>2. QED  BY <3>1
  <2>2. QED  BY <2>1
(* The place of the main thread, while the pointer stays.                    *)
<1>stays. ASSUME UNCHANGED <<main, Rebuild_Ptr, expected, stale>>, push_down' \in BOOLEAN,
                 push_down' => push_down, push_down' = push_down \/ Rebuild_Ptr = "Root_Node",
                 rebuilder.at # "exchanged", current' = current \/ rebuilder'.at = "exchanged"
          PROVE  PlaceInv'
  BY <1>stays, <1>place DEF PlaceInv, Torn
<1>1. CASE RebuildPolls \/ RebuildTakes \/ RebuildBlocksSearches \/ RebuildUnblocks \/ RebuildBuilds
           \/ RebuildDrained \/ RebuildCrashes \/ RebuildLowersFlag \/ RebuildDiscards \/ RebuildChecks
  <2>1. /\ UNCHANGED <<main, Rebuild_Ptr, expected, stale, trees, current, push_down, Rebuild_Logger>>
        /\ rebuilder.at # "exchanged"
    BY <1>1 DEF RebuildPolls, RebuildTakes, RebuildBlocksSearches, RebuildUnblocks, RebuildBuilds,
      RebuildDrained, RebuildCrashes, RebuildLowersFlag, RebuildDiscards, RebuildChecks,
      shared, contents, Stays
  <2>2. /\ rebuilder'.at \in HasNew => rebuilder.at \in HasNew
        /\ rebuilder.at \in Pending => rebuilder'.at \in Pending \/ Rebuild_Logger = << >>
    <3>1. CASE RebuildPolls  BY <3>1 DEF RebuildPolls, HasNew, Pending
    <3>2. CASE RebuildTakes
      <4>1. rebuilder.at = "ptr" /\ rebuilder'.at \in {"check", "wait"}  BY <3>2 DEF RebuildTakes
      <4>2. QED  BY <4>1 DEF HasNew, Pending
    <3>3. CASE RebuildBlocksSearches
      <4>1. \/ rebuilder.at = "wait" /\ rebuilder' = [rebuilder EXCEPT !.at = "copy"]
            \/ rebuilder.at = "drained" /\ rebuilder' = [rebuilder EXCEPT !.at = "exchange"]
            \/ rebuilder.at = "empty" /\ rebuilder' = [rebuilder EXCEPT !.at = "crash"]
        BY <3>3 DEF RebuildBlocksSearches
      <4>2. \/ rebuilder.at = "wait" /\ rebuilder'.at = "copy"
            \/ rebuilder.at = "drained" /\ rebuilder'.at = "exchange"
            \/ rebuilder.at = "empty" /\ rebuilder'.at = "crash"
        <5>1. {"wait", "drained", "empty", "copy", "exchange", "crash"} \subseteq Replacing
          BY DEF Replacing, Before
        <5>2. \A place \in {"copy", "exchange", "crash"} : [rebuilder EXCEPT !.at = place].at = place
          BY <4>1, <5>1, <1>goes
        <5>3. QED  BY <4>1, <5>2
      <4>3. QED  BY <4>2 DEF HasNew, Pending
    <3>4. CASE RebuildUnblocks
      <4>1. \/ rebuilder.at = "copied" /\ rebuilder' = [rebuilder EXCEPT !.at = "build"]
            \/ rebuilder.at = "copied_nothing" /\ rebuilder' = [rebuilder EXCEPT !.at = "empty"]
        BY <3>4 DEF RebuildUnblocks
      <4>2. \/ rebuilder.at = "copied" /\ rebuilder'.at = "build"
            \/ rebuilder.at = "copied_nothing" /\ rebuilder'.at = "empty"
        BY <4>1, <1>goes DEF Replacing, Before
      <4>3. QED  BY <4>2 DEF HasNew, Pending
    <3>5. CASE RebuildBuilds
      <4>1. rebuilder.at = "build" /\ rebuilder' = [rebuilder EXCEPT !.at = "drain"]
        BY <3>5 DEF RebuildBuilds
      <4>2. rebuilder'.at = "drain"  BY <4>1, <1>goes DEF Replacing, Before
      <4>3. QED  BY <4>1, <4>2 DEF HasNew, Pending
    <3>6. CASE RebuildDrained
      <4>1. rebuilder.at = "drain" /\ rebuilder' = [rebuilder EXCEPT !.at = "drained"]
            /\ Rebuild_Logger = << >>
        BY <3>6 DEF RebuildDrained
      <4>2. rebuilder'.at = "drained"  BY <4>1, <1>goes DEF Replacing, Before
      <4>3. QED  BY <4>1, <4>2 DEF HasNew
    <3>7. CASE RebuildCrashes
      <4>1. rebuilder.at = "crash" /\ rebuilder' = [rebuilder EXCEPT !.at = "crashed"]
        BY <3>7 DEF RebuildCrashes
      <4>2. rebuilder'.at = "crashed"  BY <4>1, <1>goes DEF Replacing, Before
      <4>3. QED  BY <4>2 DEF HasNew, Pending
    <3>8. CASE RebuildLowersFlag
      <4>1. rebuilder.at = "released" /\ rebuilder' = [rebuilder EXCEPT !.at = "discard"]
        BY <3>8 DEF RebuildLowersFlag
      <4>2. rebuilder'.at = "discard"  BY <4>1, <1>goes DEF Replacing, After
      <4>3. QED  BY <4>1, <4>2 DEF HasNew, Pending
    <3>9. CASE RebuildDiscards
      <4>1. rebuilder.at = "discard" /\ rebuilder'.at = "check"  BY <3>9 DEF RebuildDiscards
      <4>2. QED  BY <4>1 DEF HasNew, Pending
    <3>10. CASE RebuildChecks
      <4>1. rebuilder.at = "check" /\ rebuilder'.at \in {"terminated", "idle"}
        BY <3>10 DEF RebuildChecks
      <4>2. QED  BY <4>1 DEF HasNew, Pending
    <3>11. QED
      BY <1>1, <3>1, <3>2, <3>3, <3>4, <3>5, <3>6, <3>7, <3>8, <3>9, <3>10
  <2>3. Quiet  BY <2>1, <2>2 DEF Quiet
  <2>4. PlaceInv'  BY <2>1, <1>stays, <1>place DEF PlaceInv
  <2>5. QED  BY <2>3, <2>4, <1>place, ReplayQuiet DEF InvisibleInv
<1>2. CASE RebuildCopies
  <2> DEFINE copy == IF Rebuild_Ptr = "Root_Node" THEN Visible ELSE trees[current]
             old  == [trees EXCEPT ![current] = copy]
  <2>1. /\ rebuilder.at = "copy" /\ trees' = Append(old, copy)
        /\ push_down' = (push_down /\ Rebuild_Ptr # "Root_Node")
        /\ \E to \in {"copied", "copied_nothing"} : rebuilder' = [rebuilder EXCEPT !.at = to]
        /\ UNCHANGED <<main, Rebuild_Ptr, Rebuild_Logger, current, expected, stale>>
    BY <1>2 DEF RebuildCopies, Stays
  <2>2. copy \in Bags  BY <1>trees
  <2> HIDE DEF copy
  <2>3. old \in Seq(Bags) /\ Len(old) = Len(trees) /\ old[current] = copy
    BY <2>2, <1>trees, TreeChanged
  <2> HIDE DEF old
  <2>4. trees'[current] = copy /\ trees'[Len(trees')] = copy /\ trees'[Len(trees')] \in Bags
    BY <2>1, <2>2, <2>3, <1>trees
  <2>5. Visible' = Visible /\ Replaced' = copy
    <3>1. CASE Rebuild_Ptr = "Root_Node"
      <4>1. ~push_down' /\ copy = Visible  BY <2>1, <3>1 DEF copy
      <4>2. QED  BY <2>1, <2>4, <3>1, <4>1 DEF Visible, Replaced
    <3>2. CASE Rebuild_Ptr # "Root_Node"
      <4>1. copy = trees[current] /\ push_down' = push_down
        BY <2>1, <3>2, <1>place DEF copy, PlaceInv
      <4>2. QED  BY <2>1, <2>4, <3>2, <4>1 DEF Visible, Replaced
    <3>3. QED  BY <3>1, <3>2
  <2>6. ReplayInv'
    <3> SUFFICES ASSUME ~stale' PROVE /\ Visible' = expected' /\ Rebuild_Logger' = << >>
                                      /\ Replays(trees'[Len(trees')], Rebuild_Logger', Replaced')
      BY DEF ReplayInv
    <3>1. Visible = expected /\ Rebuild_Logger = << >>
      BY <2>1, <1>place DEF ReplayInv, Pending
    <3>2. Replays(trees'[Len(trees')], << >>, Replaced')  BY <2>4, <2>5, ReplaysNone
    <3>3. QED  BY <2>1, <2>5, <3>1, <3>2
  <2>7. PlaceInv'  BY <2>1, <1>stays, <1>place DEF PlaceInv
  <2>8. QED  BY <2>6, <2>7 DEF InvisibleInv
<1>3. CASE RebuildReplays
  <2> DEFINE new == trees[Len(trees)]
             bag == run_operation(new, Head(Rebuild_Logger))
  <2>1. /\ rebuilder.at = "drain" /\ rebuilder' = [rebuilder EXCEPT !.at = "build"]
        /\ Rebuild_Logger # << >> /\ Rebuild_Logger' = Tail(Rebuild_Logger)
        /\ trees' = [trees EXCEPT ![Len(trees)] = bag]
        /\ UNCHANGED <<main, Rebuild_Ptr, push_down, current, expected, stale>>
    BY <1>3 DEF RebuildReplays, Stays
  <2>2. rebuilder'.at = "build"  BY <2>1, <1>goes DEF Replacing, Before
  <2>3. Len(trees) \in 1 .. Len(trees) /\ current # Len(trees) /\ new \in Bags
    BY <2>1, <1>trees DEF HasNew
  <2>4. Head(Rebuild_Logger) \in Logged /\ bag \in Bags  BY <2>1, <2>3, <1>trees, BagsClosed
  <2> HIDE DEF new, bag
  <2>5. Len(trees') = Len(trees) /\ trees'[Len(trees)] = bag /\ trees'[current] = trees[current]
    BY <2>1, <2>3, <2>4, <1>trees, TreeChanged
  <2>6. Visible' = Visible /\ Replaced' = Replaced
    <3>1. Visible' = Visible  BY <2>1, <2>5 DEF Visible
    <3>2. QED  BY <2>1, <2>5, <3>1 DEF Replaced
  <2>7. ReplayInv'
    <3> SUFFICES ASSUME ~stale' PROVE /\ Visible' = expected' /\ rebuilder'.at \in Pending
                                      /\ Replays(trees'[Len(trees')], Rebuild_Logger', Replaced')
      BY DEF ReplayInv
    <3>1. Visible = expected /\ Replays(new, Rebuild_Logger, Replaced)
      BY <2>1, <1>place DEF ReplayInv, HasNew, new
    <3>2. Replays(bag, Tail(Rebuild_Logger), Replaced)
      BY <2>1, <2>3, <3>1, <1>trees, ReplaysRun DEF bag
    <3>3. Replays(trees'[Len(trees')], Rebuild_Logger', Replaced')  BY <2>1, <2>5, <2>6, <3>2
    <3>4. QED  BY <2>1, <2>2, <2>6, <3>1, <3>3 DEF Pending
  <2>8. PlaceInv'  BY <2>1, <1>stays, <1>place DEF PlaceInv
  <2>9. QED  BY <2>7, <2>8 DEF InvisibleInv
<1>4. CASE RebuildExchanges
  <2>1. /\ rebuilder.at = "exchange" /\ rebuilder' = [rebuilder EXCEPT !.at = "exchanged"]
        /\ current' = Len(trees)
        /\ UNCHANGED <<main, Rebuild_Ptr, Rebuild_Logger, trees, push_down, expected, stale>>
    BY <1>4 DEF RebuildExchanges, shared
  <2>2. rebuilder'.at = "exchanged"  BY <2>1, <1>goes DEF Replacing, Before, After
  <2>3. ReplayInv'
    <3> SUFFICES ASSUME ~stale' PROVE Visible' = expected' /\ Rebuild_Logger' = << >>
      BY <2>2 DEF ReplayInv, HasNew
    <3>1. Visible = expected /\ Rebuild_Logger = << >>
          /\ Replays(trees[Len(trees)], Rebuild_Logger, Replaced)
      BY <2>1, <1>place DEF ReplayInv, HasNew, Pending
    <3>2. trees[Len(trees)] \in Bags  BY <1>trees
    <3>3. trees[Len(trees)] = Replaced  BY <3>1, <3>2, ReplaysNone
    <3>4. Visible' = Visible  BY <2>1, <3>3 DEF Visible, Replaced
    <3>5. QED  BY <2>1, <3>1, <3>4
  <2>4. PlaceInv'  BY <2>1, <2>2, <1>stays, <1>place DEF PlaceInv
  <2>5. QED  BY <2>3, <2>4 DEF InvisibleInv
<1>5. CASE RebuildReleases
  <2>1. /\ rebuilder.at = "exchanged" /\ rebuilder' = [rebuilder EXCEPT !.at = "released"]
        /\ Rebuild_Ptr' = NULL
        /\ UNCHANGED <<main, Rebuild_Logger, trees, current, push_down, expected, stale>>
    BY <1>5 DEF RebuildReleases, contents
  <2>2. rebuilder'.at = "released"  BY <2>1, <1>goes DEF Replacing, After
  <2>3. Quiet  BY <2>1, <2>2 DEF Quiet, HasNew, Pending
  <2>4. PlaceInv'  BY <2>1, <1>place DEF PlaceInv
  <2>5. QED  BY <2>3, <2>4, <1>place, ReplayQuiet DEF InvisibleInv
<1>6. QED  BY <1>1, <1>2, <1>3, <1>4, <1>5 DEF RebuilderActs

(* Nor do the searches change anything.                                     *)
LEMMA InvisibleStep == LiveInv /\ InvisibleInv /\ [Next]_vars => InvisibleInv'
<1> SUFFICES ASSUME LiveInv, InvisibleInv, [Next]_vars PROVE InvisibleInv'  OBVIOUS
<1>1. ASSUME UNCHANGED <<Rebuild_Ptr, Rebuild_Logger, contents, main, rebuilder, ghosts>>
      PROVE  InvisibleInv'
  <2>1. Quiet  BY <1>1 DEF Quiet, contents, ghosts
  <2>2. PlaceInv'  BY <1>1 DEF InvisibleInv, PlaceInv, contents, ghosts, Torn
  <2>3. QED  BY <2>1, <2>2, ReplayQuiet DEF InvisibleInv
<1>2. CASE UNCHANGED vars  BY <1>1, <1>2 DEF vars, shared, threads
<1>3. ASSUME NEW s \in Searchers, SearcherActs(s) PROVE InvisibleInv'
  BY <1>1, <1>3 DEF SearcherActs, SearchRootTest, SearchTest, SearchEnters, SearchLeaves, SearcherTo, shared
<1>4. QED  BY <1>2, <1>3, MainInvisible, RebuilderInvisible DEF Next, Over

(* A rebuild is invisible to the caller, unless something is logged after it, *)
(* or done to the tree that has just been exchanged.                        *)
THEOREM NeverSeen == Spec => []RebuildInvisible
<1>1. InvisibleInv => RebuildInvisible  BY DEF InvisibleInv, ReplayInv, RebuildInvisible
<1>2. QED  BY LiveInit, LiveStep, InvisibleInit, InvisibleStep, <1>1, PTL DEF Spec

-------------------------------------------------------------------------------
(* A box search that found the son being rebuilt goes below a root that has  *)
(* passed its mark on, and the whole tree is not being rebuilt meanwhile.    *)
GuardInv ==
  main.at = "walk_lock" \/ (main.at = "walking" /\ ~main.exposed)
    => ~push_down /\ Rebuild_Ptr # "Root_Node"

(* The main thread asks for a rebuild after its own change only.            *)
LEMMA GuardStep == LiveInv /\ GuardInv /\ [Next]_vars => GuardInv'
<1> SUFFICES ASSUME LiveInv, GuardInv, [Next]_vars PROVE GuardInv'  OBVIOUS
<1> USE RebuildAssumption
<1>1. ASSUME UNCHANGED main, Rebuild_Ptr' \in {Rebuild_Ptr, NULL}, push_down' => push_down
      PROVE  GuardInv'
  BY <1>1 DEF GuardInv
<1>2. CASE MainActs
  <2>1. CASE MainSonTest
    <3> USE <2>1 DEF MainSonTest, Main
    <3>1. /\ main.at = "root" /\ ~push_down /\ main \in MainStates
          /\ UNCHANGED <<push_down, Rebuild_Ptr>>
      BY DEF LiveInv, ThreadTypes, shared, contents
    <3> HIDE DEF MainSonTest
    <3>3. \/ Rebuild_Ptr = "son" /\ main'.at \in {"walk_lock", "son_lock"}
          \/ main'.at = "son"
          \/ main'.at = "walking" /\ main'.exposed = TRUE
          \/ main'.at = "walking" /\ Rebuild_Ptr # "son" /\ main.do = BOX_SEARCH
      BY <3>1, SonTested
    <3>4. main.do = BOX_SEARCH => Rebuild_Ptr # "Root_Node"  BY <3>1 DEF LiveInv, WalkInv
    <3>5. QED  BY <3>1, <3>3, <3>4 DEF GuardInv
  <2>2. CASE MainWalks
    BY <2>2 DEF MainWalks, GuardInv, Main, Stays
  <2>3. CASE MainPushLooks \/ MainPushTest \/ MainPushLocked \/ MainPushPlain
    BY <2>3 DEF MainPushLooks, MainPushTest, MainPushLocked, MainPushPlain, Main, GuardInv
  <2>4. CASE MainRootTest
    <3>1. main.at = "root_test" /\ main \in MainStates  BY <2>4 DEF MainRootTest, LiveInv, ThreadTypes
    <3>2. \A place : [main EXCEPT !.at = place] = [at |-> place, do |-> main.do]  BY <3>1, MainDoes
    <3>3. main' = [at |-> "walking", tree |-> current, exposed |-> TRUE] \/ main'.at \in {"root", "root_lock"}
      BY <2>4, <3>2 DEF MainRootTest, Main
    <3>4. QED  BY <3>3 DEF GuardInv
  <2>5. ASSUME NEW operation \in Operations \cup {BOX_SEARCH}, MainStart(operation) PROVE GuardInv'
    BY <2>5 DEF MainStart, Main, GuardInv
  <2>6. CASE MainRootLocked \/ MainMarks \/ MainSonLocked \/ MainSonPlain
    BY <2>6 DEF MainRootLocked, MainMarks, MainSonLocked, MainSonPlain, Main, GuardInv
  <2>7. ASSUME NEW target \in {"son", "Root_Node"}, MainAsks(target) PROVE GuardInv'
    BY <2>7 DEF MainAsks, Main, GuardInv
  <2>8. CASE MainBalanced \/ MainWalked \/ MainSearches \/ MainJoins \/ MainStops \/ MainEnds
    BY <2>8 DEF MainBalanced, MainWalked, MainSearches, MainJoins, MainStops, MainEnds, Main, GuardInv
  <2>9. QED  BY <1>2, <2>1, <2>2, <2>3, <2>4, <2>5, <2>6, <2>7, <2>8 DEF MainActs
<1>3. ASSUME NEW s \in Searchers, SearcherActs(s) PROVE GuardInv'
  BY <1>1, <1>3 DEF SearcherActs, SearchRootTest, SearchTest, SearchEnters, SearchLeaves, SearcherTo,
    shared, contents
<1>4. CASE RebuilderActs
  <2>1. UNCHANGED main  BY <1>4 DEF RebuilderActs, RebuildPolls, RebuildTakes, RebuildBlocksSearches,
      RebuildCopies, RebuildUnblocks, RebuildBuilds, RebuildReplays, RebuildDrained, RebuildExchanges,
      RebuildCrashes, RebuildReleases, RebuildLowersFlag, RebuildDiscards, RebuildChecks,
      Rebuilder, ClientStays
  <2>2. Rebuild_Ptr' \in {Rebuild_Ptr, NULL}  BY <1>4 DEF RebuilderActs, RebuildPolls, RebuildTakes,
      RebuildBlocksSearches, RebuildCopies, RebuildUnblocks, RebuildBuilds, RebuildReplays, RebuildDrained,
      RebuildExchanges, RebuildCrashes, RebuildReleases, RebuildLowersFlag, RebuildDiscards, RebuildChecks,
      Stays, shared
  <2>3. push_down' => push_down  BY <1>4 DEF RebuilderActs, RebuildPolls, RebuildTakes,
      RebuildBlocksSearches, RebuildCopies, RebuildUnblocks, RebuildBuilds, RebuildReplays, RebuildDrained,
      RebuildExchanges, RebuildCrashes, RebuildReleases, RebuildLowersFlag, RebuildDiscards, RebuildChecks,
      Stays, contents
  <2>4. QED  BY <1>1, <2>1, <2>2, <2>3
<1>5. CASE UNCHANGED vars  BY <1>1, <1>5 DEF vars, threads, shared, contents
<1>6. QED  BY <1>2, <1>3, <1>4, <1>5 DEF Next, Over

(* What the searches have before them, in a tree that is not deleted.        *)
Found ==
  /\ Visible \in Bags /\ NULL \notin Bags
  /\ Reading = [r \in Searchers \cup {"main"} |->
                  IF r = "main" THEN IF Guarded(main) THEN trees[main.tree] ELSE NULL
                                ELSE IF Guarded(searcher[r]) THEN Visible ELSE NULL]
  /\ Guarded(main) => main.at = "walking" /\ (main.tree = current => trees[main.tree] = Visible)
  /\ \A s \in Searchers : Guarded(searcher[s]) => searcher[s].at \in {"plain", "counted"}

LEMMA FoundFacts == LiveInv /\ GuardInv => Found
<1> SUFFICES ASSUME LiveInv, GuardInv PROVE Found  OBVIOUS
<1>1. Visible \in Bags /\ NULL \notin Bags  BY VisibleBag, RebuildAssumption DEF LiveInv, Bags
<1>2. Guarded(main) => main.at = "walking" /\ ~main.exposed
  <2>1. main \in MainStates  BY DEF LiveInv, ThreadTypes
  <2>2. main.at \notin {"plain", "counted"}  BY <2>1 DEF MainStates
  <2>3. QED  BY <2>2 DEF Guarded
<1>3. \A s \in Searchers : Guarded(searcher[s]) =>
        searcher[s].at \in {"plain", "counted"} /\ ~searcher[s].exposed
  <2> SUFFICES ASSUME NEW s \in Searchers, Guarded(searcher[s])
               PROVE  searcher[s].at \in {"plain", "counted"} /\ ~searcher[s].exposed
    OBVIOUS
  <2>1. searcher[s] \in SearcherStates  BY DEF LiveInv, ThreadTypes
  <2>2. searcher[s].at # "walking"  BY <2>1 DEF SearcherStates
  <2>3. QED  BY <2>2 DEF Guarded
<1>4. current \notin freed /\ (rebuilder.at = "exchanged" => rebuilder.old \notin freed)
  <2>1. \A t \in freed : t \in Nat /\ t < current /\ (rebuilder.at \in Replacing => t < rebuilder.old)
    BY DEF LiveInv, TreesInv
  <2>2. current \in Nat  BY DEF LiveInv, TreesInv
  <2>3. rebuilder.at = "exchanged" => rebuilder.at \in Replacing  BY DEF Replacing, After
  <2>4. rebuilder.at = "exchanged" => rebuilder.old \in Nat
    BY <2>3, RebuilderReplaces DEF LiveInv, ThreadTypes
  <2>5. QED  BY <2>1, <2>2, <2>3, <2>4
<1>5. \A s \in Searchers : Guarded(searcher[s]) => searcher[s].tree = current
  BY <1>3 DEF LiveInv, SearchInv
<1>6. Guarded(main) => main.tree = current \/ (rebuilder.at = "exchanged" /\ main.tree = rebuilder.old)
  BY <1>2 DEF LiveInv, WalkInv
<1>7. Guarded(main) /\ main.tree = current => trees[main.tree] = Visible
  BY <1>2 DEF GuardInv, Visible
<1>8. Finds(main) = IF Guarded(main) THEN trees[main.tree] ELSE NULL
  BY <1>4, <1>6, <1>7 DEF Finds
<1>9. \A s \in Searchers : Finds(searcher[s]) = IF Guarded(searcher[s]) THEN Visible ELSE NULL
  BY <1>4, <1>5 DEF Finds
<1>10. QED  BY <1>1, <1>2, <1>3, <1>7, <1>8, <1>9 DEF Found, Reading

(* One step is taken with all the invariants before it and after it.         *)
MapInv == LiveInv /\ GuardInv /\ InvisibleInv
Stands == MapInv /\ MapInv' /\ Found /\ Found'

(* Nobody has anything before him.                                           *)
Alone == main.at # "walking" /\ \A s \in Searchers : searcher[s].at \in {"idle", "test", "ranges", "enter"}

LEMMA NobodyReads == Found /\ Alone => Map!Unread /\ Reading = [r \in Searchers \cup {"main"} |-> NULL]
<1> SUFFICES ASSUME Found, Alone PROVE Map!Unread /\ Reading = [r \in Searchers \cup {"main"} |-> NULL]
  OBVIOUS
<1>1. ~Guarded(main) /\ \A s \in Searchers : ~Guarded(searcher[s])  BY DEF Found, Alone
<1>2. Reading = [r \in Searchers \cup {"main"} |-> NULL]  BY <1>1 DEF Found
<1>3. QED  BY <1>2 DEF Map!Unread

(* What is logged too late or done to a tree that has gone, now or before,    *)
(* may change the map.                                                      *)
LEMMA MapLoses == Stands /\ stale' /\ UNCHANGED Reading => [Map!Next]_(Map!vars)
<1> SUFFICES ASSUME Stands, stale', UNCHANGED Reading PROVE [Map!Next]_(Map!vars)  OBVIOUS
<1>1. stale' = TRUE  BY DEF Stands, MapInv, InvisibleInv, PlaceInv
<1>2. Visible' \in [Points -> Nat]  BY DEF Stands, Found, Bags
<1>3. Map!Lose  BY <1>1, <1>2 DEF Map!Lose, Map!Bags
<1>4. QED  BY <1>3 DEF Map!Next

(* The caller finds what is wanted, unless something is lost.                *)
LEMMA MapExpected ==
  ASSUME Stands, ~stale', stale => stale'
  PROVE  Visible = expected /\ Visible' = expected' /\ stale = FALSE /\ stale' = FALSE
<1>1. stale \in BOOLEAN /\ stale' \in BOOLEAN  BY DEF Stands, MapInv, InvisibleInv, PlaceInv
<1>2. QED  BY <1>1 DEF Stands, MapInv, InvisibleInv, ReplayInv

(* What changes nothing of what is wanted is a step without a step.          *)
LEMMA MapStays ==
  ASSUME Stands, stale => stale', UNCHANGED Reading, expected' = expected
  PROVE  [Map!Next]_(Map!vars)
<1>1. CASE stale'  BY <1>1, MapLoses
<1>2. CASE ~stale'
  <2>1. Visible = expected /\ Visible' = expected' /\ stale = FALSE /\ stale' = FALSE
    BY <1>2, MapExpected, Zenon
  <2>2. Visible' = Visible /\ stale' = stale  BY <2>1, Zenon
  <2>3. QED  BY <2>2 DEF Map!vars
<1>3. QED  BY <1>1, <1>2

(* The main thread adds or deletes what it was told to.                      *)
LEMMA MapChanges ==
  ASSUME Stands, stale => stale', Map!Unread, UNCHANGED Reading, NEW operation \in Operations,
         expected' = run_operation(expected, operation)
  PROVE  [Map!Next]_(Map!vars)
<1>1. CASE stale'  BY <1>1, MapLoses
<1>2. CASE ~stale'
  <2>1. Visible' = run_operation(Visible, operation) /\ stale' = stale  BY <1>2, MapExpected
  <2>2. CASE operation \in [op : {"ADD_POINT"}, point : Points]
    <3>1. operation.op = "ADD_POINT" /\ operation.point \in Points  BY <2>2
    <3>2. Visible' = [Visible EXCEPT ![operation.point] = @ + 1]  BY <2>1, <3>1 DEF run_operation
    <3>3. Map!Add(operation.point)  BY <2>1, <3>2 DEF Map!Add
    <3>4. QED  BY <3>1, <3>3 DEF Map!Next
  <2>3. CASE operation \in [op : {"DELETE_BOX"}, box : SUBSET Points \ {{}}]
    <3>1. operation.op = "DELETE_BOX" /\ operation.box \in SUBSET Points  BY <2>3
    <3>2. Visible' = [p \in Points |-> IF p \in operation.box THEN 0 ELSE Visible[p]]
      BY <2>1, <3>1 DEF run_operation
    <3>3. Map!Delete(operation.box)  BY <2>1, <3>2 DEF Map!Delete
    <3>4. QED  BY <3>1, <3>3 DEF Map!Next
  <2>4. QED  BY <2>2, <2>3 DEF Operations
<1>3. QED  BY <1>1, <1>2

(* One reader begins, ends, or goes on.                                      *)
LEMMA MapReads ==
  ASSUME Stands, UNCHANGED <<Visible, stale>>, NEW r \in Searchers \cup {"main"},
         \A q \in (Searchers \cup {"main"}) \ {r} : Reading'[q] = Reading[q],
         \/ Reading'[r] = NULL
         \/ Reading'[r] = Reading[r]
         \/ Reading[r] = NULL /\ Reading'[r] = Visible
  PROVE  [Map!Next]_(Map!vars)
<1>1. Reading' = [Reading EXCEPT ![r] = Reading'[r]]
  <2>1. Reading = [q \in Searchers \cup {"main"} |-> Reading[q]]  BY DEF Stands, Found
  <2>2. Reading' = [q \in Searchers \cup {"main"} |-> Reading'[q]]  BY DEF Stands, Found
  <2>3. QED  BY <2>1, <2>2
<1>2. CASE Reading'[r] = NULL
  <2>1. Map!End(r)  BY <1>1, <1>2 DEF Map!End
  <2>2. QED  BY <2>1 DEF Map!Next
<1>3. CASE Reading'[r] = Reading[r]
  <2>1. Reading' = Reading
    <3>1. Reading = [q \in Searchers \cup {"main"} |-> Reading[q]]  BY DEF Stands, Found
    <3>2. QED  BY <1>1, <1>3, <3>1
  <2>2. QED  BY <2>1 DEF Map!vars
<1>4. CASE Reading[r] = NULL /\ Reading'[r] = Visible
  <2>1. Map!Begin(r)  BY <1>1, <1>4 DEF Map!Begin
  <2>2. QED  BY <2>1 DEF Map!Next
<1>5. QED  BY <1>2, <1>3, <1>4

(* The main thread changes the map while nobody searches, and walks in it     *)
(* from one step to a later one.                                            *)
LEMMA MainMaps == Stands /\ MainActs => [Map!Next]_(Map!vars)
<1> SUFFICES ASSUME Stands, MainActs PROVE [Map!Next]_(Map!vars)  OBVIOUS
<1> USE RebuildAssumption DEF Main
<1>inv. LiveInv /\ main \in MainStates /\ Found /\ Found'  BY DEF Stands, MapInv, LiveInv, ThreadTypes
<1>1. ASSUME main.at \in {"root", "root_lock", "son", "son_lock", "push", "push_lock"},
             main'.at \in {"idle", "criterion", "root"},
             UNCHANGED searcher
      PROVE  Map!Unread /\ UNCHANGED Reading
  <2>1. \A s \in Searchers : searcher[s].at = "idle"  BY <1>1, <1>inv, NoSearch
  <2>2. Alone /\ Alone'  BY <1>1, <2>1 DEF Alone
  <2>3. Map!Unread /\ Reading = [r \in Searchers \cup {"main"} |-> NULL]  BY <1>inv, <2>2, NobodyReads
  <2>4. (Map!Unread /\ Reading = [r \in Searchers \cup {"main"} |-> NULL])'  BY <1>inv, <2>2, NobodyReads, PTL
  <2>5. QED  BY <2>3, <2>4
<1>2. CASE MainRootLocked \/ MainMarks \/ MainSonLocked \/ MainSonPlain
  <2>1. /\ main.at \in {"root", "root_lock", "son", "son_lock"} /\ main'.at \in {"idle", "criterion"}
        /\ UNCHANGED searcher /\ expected' = run_operation(expected, main.do)
        /\ Log(main.do) \/ stale' = (stale \/ main.tree # current) \/ stale' = stale
    BY <1>2 DEF MainRootLocked, MainMarks, MainSonLocked, MainSonPlain
  <2>2. main.do \in Operations
    <3>1. CASE MainMarks
      <4>1. main.at = "root" /\ main.do.op = "DELETE_BOX"  BY <3>1 DEF MainMarks
      <4>2. main.do \in Operations \cup {BOX_SEARCH}  BY <4>1, <1>inv, MainDoes
      <4>3. QED  BY <4>1, <4>2 DEF BOX_SEARCH
    <3>2. CASE MainRootLocked \/ MainSonLocked \/ MainSonPlain
      BY <3>2, <1>inv, MainDoes, MainHolds DEF MainRootLocked, MainSonLocked, MainSonPlain
    <3>3. QED  BY <1>2, <3>1, <3>2
  <2>3. stale => stale'  BY <2>1 DEF Log
  <2>4. QED  BY <1>1, <2>1, <2>2, <2>3, MapChanges
<1>3. CASE MainPushLocked \/ MainPushPlain
  <2>1. /\ main.at \in {"push", "push_lock"} /\ main'.at = "root" /\ UNCHANGED <<searcher, expected>>
        /\ (stale => stale')
    <3>1. CASE MainPushLocked  BY <3>1 DEF MainPushLocked, Log
    <3>2. CASE MainPushPlain  BY <3>2 DEF MainPushPlain
    <3>3. QED  BY <1>3, <3>1, <3>2
  <2>2. QED  BY <1>1, <2>1, MapStays
<1>4. ASSUME UNCHANGED <<contents, ghosts>>,
             UNCHANGED searcher \/ \A s \in Searchers : searcher[s].at = "idle" /\ searcher'[s].at = "test",
             Guarded(main') => ~Guarded(main) /\ main'.tree = current
      PROVE  [Map!Next]_(Map!vars)
  <2>1. Visible' = Visible /\ UNCHANGED <<trees, current, stale>>
    BY <1>4 DEF Visible, contents, ghosts
  <2>2. ASSUME NEW q \in (Searchers \cup {"main"}) \ {"main"} PROVE Reading'[q] = Reading[q]
    <3>1. q \in Searchers /\ q # "main"  OBVIOUS
    <3>2. CASE UNCHANGED searcher
      BY <1>inv, <2>1, <3>1, <3>2 DEF Found
    <3>3. CASE searcher[q].at = "idle" /\ searcher'[q].at = "test"
      <4>1. ~Guarded(searcher[q]) /\ ~Guarded(searcher'[q])  BY <3>3 DEF Guarded
      <4>2. QED  BY <1>inv, <3>1, <4>1 DEF Found
    <3>4. QED  BY <1>4, <3>1, <3>2, <3>3
  <2>3. Reading'["main"] = NULL \/ (Reading["main"] = NULL /\ Reading'["main"] = Visible)
    <3>1. CASE Guarded(main')
      <4>1. ~Guarded(main) /\ main'.tree = current'  BY <1>4, <2>1, <3>1
      <4>2. Reading["main"] = NULL  BY <1>inv, <4>1 DEF Found
      <4>3. Reading'["main"] = trees'[main'.tree] /\ trees'[main'.tree] = Visible'
        BY <1>inv, <3>1, <4>1 DEF Found
      <4>4. QED  BY <2>1, <4>2, <4>3
    <3>2. CASE ~Guarded(main')  BY <1>inv, <3>2 DEF Found
    <3>3. QED  BY <3>1, <3>2
  <2>4. QED  BY <2>1, <2>2, <2>3, MapReads
<1>5. ASSUME NEW operation \in Operations \cup {BOX_SEARCH}, MainStart(operation)
      PROVE  [Map!Next]_(Map!vars)
  BY <1>4, <1>5 DEF MainStart, Guarded
<1>6. CASE MainRootTest
  <2>1. main.at = "root_test"  BY <1>6 DEF MainRootTest
  <2>2. \A place : [main EXCEPT !.at = place] = [at |-> place, do |-> main.do]  BY <2>1, <1>inv, MainDoes
  <2>3. main' = [at |-> "walking", tree |-> current, exposed |-> TRUE] \/ main'.at \in {"root", "root_lock"}
    BY <1>6, <2>2 DEF MainRootTest
  <2>4. ~Guarded(main')  BY <2>3 DEF Guarded
  <2>5. QED  BY <1>4, <1>6, <2>4 DEF MainRootTest
<1>7. CASE MainSonTest
  <2>1. main.at = "root" /\ ~Guarded(main)  BY <1>7 DEF MainSonTest, Guarded
  <2>3. \/ main'.at = "walking" /\ (main'.exposed = TRUE \/ main'.tree = current)
        \/ main'.at \in {"walk_lock", "son_lock", "son"}
    BY <1>7, <1>inv, SonTested
  <2>4. Guarded(main') => main'.tree = current  BY <2>3 DEF Guarded
  <2>5. QED  BY <1>4, <1>7, <2>1, <2>4 DEF MainSonTest
<1>8. CASE MainWalks
  <2>1. ~Guarded(main) /\ main'.tree = current  BY <1>8 DEF MainWalks, Guarded
  <2>2. QED  BY <1>4, <1>8, <2>1 DEF MainWalks, Stays, contents
<1>9. CASE MainWalked
  <2>1. ~Guarded(main')  BY <1>9 DEF MainWalked, Guarded
  <2>2. QED  BY <1>4, <1>9, <2>1 DEF MainWalked, Stays, contents
<1>10. CASE MainSearches
  <2>1. main.at = "idle" /\ ~Guarded(main')  BY <1>10 DEF MainSearches, Guarded
  <2>2. \A s \in Searchers : searcher[s].at = "idle" /\ searcher'[s].at = "test"
    BY <1>10, <1>inv, <2>1, NoSearch DEF MainSearches
  <2>3. QED  BY <1>4, <1>10, <2>1, <2>2 DEF MainSearches
<1>11. ASSUME NEW target \in {"son", "Root_Node"}, MainAsks(target) PROVE [Map!Next]_(Map!vars)
  BY <1>4, <1>11 DEF MainAsks, Guarded
<1>12. CASE MainBalanced \/ MainJoins \/ MainStops \/ MainEnds
  <2>1. ~Guarded(main')  BY <1>12 DEF MainBalanced, MainJoins, MainStops, MainEnds, Guarded
  <2>2. QED  BY <1>4, <1>12, <2>1 DEF MainBalanced, MainJoins, MainStops, MainEnds
<1>13. CASE MainPushLooks \/ MainPushTest
  <2>1. ~Guarded(main')  BY <1>13 DEF MainPushLooks, MainPushTest, Guarded
  <2>2. QED  BY <1>4, <1>13, <2>1 DEF MainPushLooks, MainPushTest
<1>14. QED
  BY <1>2, <1>3, <1>5, <1>6, <1>7, <1>8, <1>9, <1>10, <1>11, <1>12, <1>13 DEF MainActs

(* A nearest search has the tree there is before it, from one step to a later *)
(* one.                                                                     *)
LEMMA SearcherMaps == \A s \in Searchers : Stands /\ SearcherActs(s) => [Map!Next]_(Map!vars)
<1> SUFFICES ASSUME NEW s \in Searchers, Stands, SearcherActs(s) PROVE [Map!Next]_(Map!vars)  OBVIOUS
<1> USE RebuildAssumption
<1>inv. Found /\ Found' /\ searcher \in [Searchers -> SearcherStates]
  BY DEF Stands, MapInv, LiveInv, ThreadTypes
<1>1. UNCHANGED <<contents, ghosts, main>>
  BY DEF SearcherActs, SearchRootTest, SearchTest, SearchEnters, SearchLeaves, SearcherTo
<1>2. PICK state : /\ searcher' = [searcher EXCEPT ![s] = state]
                   /\ Guarded(state) => ~Guarded(searcher[s])
  <2>1. CASE SearchRootTest(s) \/ SearchTest(s)
    <3>1. searcher[s].at \in {"test", "ranges"} /\ \E to : searcher' = [searcher EXCEPT ![s] = to]
      BY <2>1 DEF SearchRootTest, SearchTest, SearcherTo
    <3>2. ~Guarded(searcher[s])  BY <3>1 DEF Guarded
    <3>3. QED  BY <3>1, <3>2
  <2>2. CASE SearchEnters(s)  BY <2>2 DEF SearchEnters, SearcherTo, Guarded
  <2>3. CASE SearchLeaves(s)
    <3>1. searcher' = [searcher EXCEPT ![s] = [at |-> "idle"]]  BY <2>3 DEF SearchLeaves, SearcherTo
    <3>2. ~Guarded([at |-> "idle"])  BY DEF Guarded
    <3>3. QED  BY <3>1, <3>2
  <2>4. QED  BY <2>1, <2>2, <2>3 DEF SearcherActs
<1>3. searcher'[s] = state /\ \A q \in Searchers \ {s} : searcher'[q] = searcher[q]  BY <1>inv, <1>2
<1>4. Visible' = Visible /\ UNCHANGED <<trees, current, stale>>  BY <1>1 DEF Visible, contents, ghosts
<1>5. \A q \in (Searchers \cup {"main"}) \ {s} : Reading'[q] = Reading[q]
  <2>1. ASSUME NEW q \in Searchers \ {s} PROVE Reading'[q] = Reading[q]
    BY <1>inv, <1>3, <1>4, <2>1 DEF Found
  <2>2. Reading'["main"] = Reading["main"]  BY <1>inv, <1>1, <1>4 DEF Found
  <2>3. QED  BY <2>1, <2>2
<1>6. Reading'[s] = NULL \/ (Reading[s] = NULL /\ Reading'[s] = Visible)
  BY <1>inv, <1>2, <1>3, <1>4 DEF Found
<1>7. QED  BY <1>4, <1>5, <1>6, MapReads

(* The rebuild thread changes nothing before the eyes of a search, and nothing *)
(* of the map that is not lost.                                             *)
LEMMA RebuilderMaps == Stands /\ RebuilderActs => [Map!Next]_(Map!vars)
<1> SUFFICES ASSUME Stands, RebuilderActs PROVE [Map!Next]_(Map!vars)  OBVIOUS
<1> USE RebuildAssumption DEF Rebuilder, ClientStays
<1>inv. LiveInv /\ GuardInv /\ Found /\ Found'  BY DEF Stands, MapInv
<1>trees. trees \in Seq(Bags) /\ current \in 1 .. Len(trees) /\ Rebuild_Logger \in Seq(Logged)
  BY <1>inv DEF LiveInv, TreesInv
<1>1. UNCHANGED <<main, searcher, expected, stale>>
  BY DEF RebuilderActs, RebuildPolls, RebuildTakes, RebuildBlocksSearches, RebuildCopies, RebuildUnblocks,
    RebuildBuilds, RebuildReplays, RebuildDrained, RebuildExchanges, RebuildCrashes, RebuildReleases,
    RebuildLowersFlag, RebuildDiscards, RebuildChecks, Stays
<1>2. Guarded(main) => main.at = "walking" /\ ~main.exposed  BY <1>inv DEF Found, Guarded
<1>3. Guarded(main) /\ rebuilder.at # "exchanged" => main.tree = current
  BY <1>2, <1>inv DEF LiveInv, WalkInv
(* Nobody searches what is copied or exchanged.                              *)
<1>4. rebuilder.at \in {"copy", "exchange"} => \A s \in Searchers : ~Guarded(searcher[s])
  <2> SUFFICES ASSUME rebuilder.at \in {"copy", "exchange"}, NEW s \in Searchers, Guarded(searcher[s])
               PROVE  FALSE
    OBVIOUS
  <2>1. searcher[s].at \in {"plain", "counted"} /\ ~searcher[s].exposed  BY <1>inv DEF Found, Guarded
  <2>2. Counted = {}  BY <1>inv DEF LiveInv, CounterInv, Blocking
  <2>3. searcher[s].at = "plain"  BY <2>1, <2>2 DEF Counted
  <2>4. Rebuild_Ptr = NULL  BY <2>1, <2>3, <1>inv DEF LiveInv, SearchInv, Torn
  <2>5. Rebuild_Ptr # NULL  BY <1>inv DEF LiveInv, PointerInv, Before
  <2>6. QED  BY <2>4, <2>5
<1>5. /\ Visible' = Visible \/ \A s \in Searchers : ~Guarded(searcher[s])
      /\ Guarded(main) => trees'[main.tree] = trees[main.tree]
  <2>1. CASE RebuildCopies
    <3> DEFINE copy == IF Rebuild_Ptr = "Root_Node" THEN Visible ELSE trees[current]
               old  == [trees EXCEPT ![current] = copy]
    <3>1. rebuilder.at = "copy" /\ trees' = Append(old, copy)  BY <2>1 DEF RebuildCopies
    <3>2. ASSUME Guarded(main) PROVE trees'[main.tree] = trees[main.tree]
      <4>1. copy = trees[current] /\ main.tree = current  BY <1>2, <1>3, <1>inv, <3>1, <3>2 DEF GuardInv
      <4>2. copy \in Bags  BY <1>trees, <4>1
      <4> HIDE DEF copy
      <4>3. old \in Seq(Bags) /\ Len(old) = Len(trees) /\ old[current] = copy  BY <1>trees, <4>2, TreeChanged
      <4> HIDE DEF old
      <4>4. trees'[current] = copy  BY <1>trees, <3>1, <4>3
      <4>5. QED  BY <4>1, <4>4
    <3>3. QED  BY <1>4, <3>1, <3>2
  <2>2. CASE RebuildReplays
    <3> DEFINE new == Len(trees)
               bag == run_operation(trees[new], Head(Rebuild_Logger))
    <3>1. /\ rebuilder.at = "drain" /\ Rebuild_Logger # << >> /\ trees' = [trees EXCEPT ![new] = bag]
          /\ UNCHANGED <<current, push_down>>
      BY <2>2 DEF RebuildReplays, Stays
    <3>2. new \in 1 .. Len(trees) /\ current # new /\ trees[new] \in Bags
      BY <3>1, <1>trees, <1>inv DEF LiveInv, TreesInv, HasNew
    <3>3. bag \in Bags  BY <3>1, <3>2, <1>trees, BagsClosed
    <3> HIDE DEF new, bag
    <3>4. trees'[current] = trees[current]  BY <3>1, <3>2, <3>3, <1>trees, TreeChanged
    <3>5. Visible' = Visible  BY <3>1, <3>4 DEF Visible
    <3>6. QED  BY <1>3, <3>1, <3>4, <3>5
  <2>3. CASE RebuildExchanges
    <3>1. rebuilder.at = "exchange" /\ trees' = trees  BY <2>3 DEF RebuildExchanges
    <3>2. QED  BY <1>4, <3>1
  <2>4. CASE RebuildPolls \/ RebuildTakes \/ RebuildBlocksSearches \/ RebuildUnblocks \/ RebuildBuilds
             \/ RebuildDrained \/ RebuildCrashes \/ RebuildReleases \/ RebuildLowersFlag
             \/ RebuildDiscards \/ RebuildChecks
    <3>1. UNCHANGED <<trees, current, push_down>>
      BY <2>4 DEF RebuildPolls, RebuildTakes, RebuildBlocksSearches, RebuildUnblocks, RebuildBuilds,
        RebuildDrained, RebuildCrashes, RebuildReleases, RebuildLowersFlag, RebuildDiscards, RebuildChecks,
        contents, Stays
    <3>2. QED  BY <3>1 DEF Visible
  <2>5. QED  BY <2>1, <2>2, <2>3, <2>4 DEF RebuilderActs
<1>6. Reading' = Reading
  <2>1. \A r \in Searchers \cup {"main"} : Reading'[r] = Reading[r]
    BY <1>inv, <1>1, <1>5 DEF Found
  <2>2. Reading = [r \in Searchers \cup {"main"} |-> Reading[r]]  BY <1>inv DEF Found
  <2>3. Reading' = [r \in Searchers \cup {"main"} |-> Reading'[r]]  BY <1>inv DEF Found
  <2>4. QED  BY <2>1, <2>2, <2>3
<1>7. stale => stale'  BY <1>1
<1>8. QED  BY <1>1, <1>6, <1>7, MapStays

(* All that the trees, their rebuilds and their locks come to is a map of     *)
(* points: read as a whole by the guarded searches, and changed by the main  *)
(* thread only, while nobody reads, unless something is logged too late or   *)
(* done to a tree that has left its place.                                  *)
THEOREM MapRefined == Spec => RefinesMap
<1>1. Init => GuardInv
  <2> SUFFICES ASSUME Init PROVE GuardInv  OBVIOUS
  <2>1. main.at = "idle"  BY DEF Init
  <2>2. QED  BY <2>1 DEF GuardInv
<1>2. Init => Map!Init
  <2> SUFFICES ASSUME Init PROVE Map!Init  OBVIOUS
  <2>1. Found  BY <1>1, LiveInit, FoundFacts
  <2>2. Alone  BY DEF Init, Alone
  <2>3. Reading = [r \in Searchers \cup {"main"} |-> NULL]  BY <2>1, <2>2, NobodyReads
  <2>4. stale = FALSE  BY DEF Init
  <2>5. QED  BY <2>1, <2>3, <2>4 DEF Map!Init, Map!Bags, Found, Bags
<1>3. Stands /\ [Next]_vars => [Map!Next]_(Map!vars)
  <2> SUFFICES ASSUME Stands, [Next]_vars PROVE [Map!Next]_(Map!vars)  OBVIOUS
  <2>1. ASSUME UNCHANGED vars PROVE UNCHANGED Map!vars
    BY <2>1 DEF vars, shared, contents, threads, ghosts, Map!vars, Reading, Visible, Finds, Guarded
  <2>2. QED  BY <2>1, MainMaps, SearcherMaps, RebuilderMaps DEF Next, Over
<1>4. Spec => []InvisibleInv  BY LiveInit, LiveStep, InvisibleInit, InvisibleStep, PTL DEF Spec
<1>5. MapInv /\ MapInv' /\ Found /\ Found' => Stands  BY DEF Stands
<1>6. LiveInv /\ GuardInv /\ InvisibleInv => MapInv  BY DEF MapInv
<1>7. QED
  BY <1>1, <1>2, <1>3, <1>4, <1>5, <1>6, LiveInit, LiveStep, GuardStep, FoundFacts, PTL
  DEF Spec, RefinesMap, Map!Spec

=============================================================================
