---------------------------- MODULE MCComponents ----------------------------
(***************************************************************************)
(* The allocators, the containers, the storage of objects, the timers, the *)
(* configuration, the life of the main context, the handles of value trees *)
(* and the tiling by sudoku boards, one of them in a behaviour: they share *)
(* nothing, so their states need not be combined.                          *)
(***************************************************************************)
EXTENDS StackAllocator, ListContainers, KeyedContainers, Buffers, ObjectStorage, Timekeeping,
        AppConfig, MainContext, TreeNodes, Sudoku

MCAlphabet == <<1, 3, 4>>
MCGroups == <<"app", "defaults">>
MCTags == <<"t">>
MCPaths == {<<"a">>, <<"b">>, <<"a", "c">>}
MCTiles == (-1..1) \X (-1..1)
MCBoards == {make_diagonal, [EmptyBoard EXCEPT ![1] = {1}, ![5] = {0}, ![2] = {3}]}

VARIABLE which              \* the component that runs

Components == {"stack", "chunks", "small", "map", "set", "buffers", "pool", "storage", "trie",
               "timeouts", "history", "config", "main", "nodes", "tiling"}

\* The components that do not run begin in one way only.
OneStart ==
    /\ which # "stack" => kind = CHOOSE k \in Kinds : TRUE
    /\ which # "history" => Last(revisions) = CHOOSE v \in HistVals : TRUE
    /\ which # "config" => \A k \in ConfigKeys : argOf[k] = None /\ envOf[k] = None
    /\ which # "tiling" =>
         boards = _do_enqueue([p \in Tiles |-> NoGlyph], <<0, 0>>, CHOOSE b \in FirstBoards : TRUE)

ComponentsInit ==
    /\ which \in Components
    /\ Init /\ ChunkInit /\ SmallInit /\ FlatInit /\ BuffersInit /\ PoolInit /\ StorageInit
    /\ TrieInit /\ TimeoutsInit /\ HistoriesInit /\ ConfigInit /\ MainInit /\ NodeInit /\ TilingInit
    /\ OneStart

RunStack ==
    /\ which = "stack" /\ Next
    /\ UNCHANGED <<which, chunkVars, smallVars, flatVars, bufferVars, poolVars, storageVars,
                   trieVars, timeoutVars, historyVars, configVars, mainVars, treeVars, boards>>

RunChunk ==
    /\ which = "chunks" /\ ChunkNext
    /\ UNCHANGED <<which, vars, smallVars, flatVars, bufferVars, poolVars, storageVars, trieVars,
                   timeoutVars, historyVars, configVars, mainVars, treeVars, boards>>

RunSmall ==
    /\ which = "small" /\ SmallNext
    /\ UNCHANGED <<which, vars, chunkVars, flatVars, bufferVars, poolVars, storageVars, trieVars,
                   timeoutVars, historyVars, configVars, mainVars, treeVars, boards>>

RunMap ==
    /\ which = "map" /\ MapNext
    /\ UNCHANGED <<which, vars, chunkVars, smallVars, bufferVars, poolVars, storageVars, trieVars,
                   timeoutVars, historyVars, configVars, mainVars, treeVars, boards>>

RunSet ==
    /\ which = "set" /\ SetNext
    /\ UNCHANGED <<which, vars, chunkVars, smallVars, bufferVars, poolVars, storageVars, trieVars,
                   timeoutVars, historyVars, configVars, mainVars, treeVars, boards>>

RunBuffer ==
    /\ which = "buffers" /\ BuffersNext
    /\ UNCHANGED <<which, vars, chunkVars, smallVars, flatVars, poolVars, storageVars, trieVars,
                   timeoutVars, historyVars, configVars, mainVars, treeVars, boards>>

RunPool ==
    /\ which = "pool" /\ PoolNext
    /\ UNCHANGED <<which, vars, chunkVars, smallVars, flatVars, bufferVars, storageVars, trieVars,
                   timeoutVars, historyVars, configVars, mainVars, treeVars, boards>>

RunStorage ==
    /\ which = "storage" /\ StorageNext
    /\ UNCHANGED <<which, vars, chunkVars, smallVars, flatVars, bufferVars, poolVars, trieVars,
                   timeoutVars, historyVars, configVars, mainVars, treeVars, boards>>

RunTrie ==
    /\ which = "trie" /\ TrieNext
    /\ UNCHANGED <<which, vars, chunkVars, smallVars, flatVars, bufferVars, poolVars, storageVars,
                   timeoutVars, historyVars, configVars, mainVars, treeVars, boards>>

RunTimeouts ==
    /\ which = "timeouts" /\ TimeoutsNext
    /\ UNCHANGED <<which, vars, chunkVars, smallVars, flatVars, bufferVars, poolVars, storageVars,
                   trieVars, historyVars, configVars, mainVars, treeVars, boards>>

RunHistory ==
    /\ which = "history" /\ HistoriesNext
    /\ UNCHANGED <<which, vars, chunkVars, smallVars, flatVars, bufferVars, poolVars, storageVars,
                   trieVars, timeoutVars, configVars, mainVars, treeVars, boards>>

RunConfig ==
    /\ which = "config" /\ ConfigNext
    /\ UNCHANGED <<which, vars, chunkVars, smallVars, flatVars, bufferVars, poolVars, storageVars,
                   trieVars, timeoutVars, historyVars, mainVars, treeVars, boards>>

RunMain ==
    /\ which = "main" /\ MainNext
    /\ UNCHANGED <<which, vars, chunkVars, smallVars, flatVars, bufferVars, poolVars, storageVars,
                   trieVars, timeoutVars, historyVars, configVars, treeVars, boards>>

RunNodes ==
    /\ which = "nodes" /\ NodeNext
    /\ UNCHANGED <<which, vars, chunkVars, smallVars, flatVars, bufferVars, poolVars, storageVars,
                   trieVars, timeoutVars, historyVars, configVars, mainVars, boards>>

RunTiling ==
    /\ which = "tiling" /\ TilingNext
    /\ UNCHANGED <<which, vars, chunkVars, smallVars, flatVars, bufferVars, poolVars, storageVars,
                   trieVars, timeoutVars, historyVars, configVars, mainVars, treeVars>>

ComponentsNext ==
    \/ RunStack \/ RunChunk \/ RunSmall \/ RunMap \/ RunSet \/ RunBuffer \/ RunPool \/ RunStorage
    \/ RunTrie \/ RunTimeouts \/ RunHistory \/ RunConfig \/ RunMain \/ RunNodes \/ RunTiling

ComponentsVars ==
    <<which, vars, chunkVars, smallVars, flatVars, bufferVars, poolVars, storageVars,
      trieVars, timeoutVars, historyVars, configVars, mainVars, treeVars, boards>>

ComponentsSpec == ComponentsInit /\ [][ComponentsNext]_ComponentsVars

-----------------------------------------------------------------------------
\* The vector, the list in chunks and the maps keep what their standard
\* counterparts promise: every call has the effect and the result that ListSpec
\* and MapSpec give it, and lookups by bisection find what is stored.
ContainersKeepTheirPromise ==
    /\ SmallVectorIsAList /\ ChunkListIsAList /\ FlatMapIsAMap
    /\ [](which \in {"map", "set"} => LookupsAgree)

\* What is kept in several pieces is found again: the elements of the chunks,
\* however these are filled, by iterator, by position and by bisection, and the
\* values in the nodes of the trie by the keys that basic_identifier_trie got; a
\* traversal comes to all of them, and knows the keys that are not too long.
StructuresAgree ==
    /\ which = "chunks" => ChunkPositionsCount
    /\ which = "trie" => TrieIsAMap

\* Whatever is handed out, blocks of memory, pooled objects, stored objects and
\* nodes of a value tree, has one owner that it outlives by nothing.
OwnedOnce ==
    CASE which = "buffers" -> BlocksAreOwned
      [] which = "pool" -> LentOnce
      [] which = "storage" -> CalledAsBuilt
      [] which = "nodes" -> NodesAlive
      [] OTHER -> TRUE

\* Timers and histories keep track of what has passed: the watchdog is fed in
\* time, the back-off doubles, and the revisions are the last values.
TimersAreKept ==
    CASE which = "timeouts" -> WatchdogFed /\ BackOffDoubles
      [] which = "history" -> HistoryRemembers
      [] OTHER -> TRUE

\* The context and its configuration are current whenever they are asked.
ContextIsCurrent ==
    /\ which = "config" => ReloadedValuesAreCurrent
    /\ which = "main" => ContextOutlivesItsUsers

\* sudoku_tiling: the tiles made so far fit each other, and stay.
PuzzleTilesHold == [](which = "tiling" => TilesFit) /\ TilesStay
=============================================================================
