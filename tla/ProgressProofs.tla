--------------------------- MODULE ProgressProofs ---------------------------
(***************************************************************************)
(* For any number of threads, objects, observers and addresses: the ids of *)
(* the activities are alive, and the observer is right.  The invariant     *)
(* adds to the properties where the threads' calls are (CallsInv), that    *)
(* parents outlive their sub-activities (ParentsInv), that the keys of the *)
(* map are unique (KeysInv), and what the observer knows of an activity a  *)
(* call is under way for (ViewInv).                                        *)
(***************************************************************************)
EXTENDS Progress, TLAPS

KeysInv ==
    \A a, b \in DOMAIN activities : activities[a].map_id = activities[b].map_id => a = b

CallsInv ==
    /\ \A t \in Threads : at[t] # Root => at[t] \in Slots /\ id[at[t]] # 0
    /\ \A t \in Threads : pc[t] \in {"fill", "notify", "finish"} => at[t] # Root
    /\ \A t \in Threads : pc[t] = "idle" => at[t] = Root
    /\ \A t, u \in Threads : at[t] = at[u] /\ at[t] # Root => t = u
    /\ \A t \in Threads : pc[t] = "fill" => amount[t] \in Totals
    /\ \A t \in Threads : pc[t] \in {"callback", "store", "update"} => amount[t] \in {0, Advance}

ParentsInv ==
    /\ \A s \in Live : parent[s] # Root => parent[s] \in Live
    /\ \A t \in Threads : pc[t] = "finish" => \A c \in Live : parent[c] # at[t]

Filling(s) == \E t \in Threads : pc[t] = "fill" /\ at[t] = s

InfosInv ==
    \A s \in Live : Filling(s) \/ activities[id[s]].parent_id = IdOf(parent[s])

\* What the observer was last told of s is so, and stays so.
Right(s) ==
    /\ ~Filling(s)
    /\ view[observer][id[s]] = Report(IdOf(parent[s]), activities[id[s]].curr_steps,
                                      activities[id[s]].total_steps)

\* It was told how s began, and the info is about to be filled in.
Begun(s) ==
    \E t \in Threads :
        /\ pc[t] = "fill" /\ at[t] = s
        /\ view[observer][id[s]] = Report(IdOf(parent[s]), 0, amount[t])
        /\ activities[id[s]].curr_steps = 0

\* It will be told of s.
ToBeTold(s) == \E t \in Threads : pc[t] \in {"notify", "finish"} /\ at[t] = s

ViewInv ==
    observer # None =>
        /\ DOMAIN view[observer] = DOMAIN activities
        /\ \A s \in Live : \/ view[observer][id[s]] = Unknown
                           \/ Right(s) \/ Begun(s) \/ ToBeTold(s)

Inv == TypeOK /\ IdsAreAlive /\ KeysInv /\ CallsInv /\ ParentsInv /\ InfosInv /\ ViewInv

CancelInv ==
    ~overlapped =>
        /\ told => ~keepGoing
        /\ \A t \in Threads : pc[t] = "store" /\ going[t] => keepGoing
        /\ \A t, u \in InCallback : t = u

-----------------------------------------------------------------------------
\* The id begin_activity finds is new to the map and has the counter's width.
LEMMA NextIdIsNew ==
    ASSUME TypeOK, NEW i \in NextIds
    PROVE  i \in 0..(IdLimit - 1) /\ i \notin MapIds
<1>1. PICK d \in 1..IdLimit : i = Nth(d) /\ IsFree(Nth(d))
    BY DEF NextIds
<1>2. sequence + d \in Nat /\ IdLimit \in Nat \ {0}
    BY ProgressAssumption DEF TypeOK
<1>3. (sequence + d) % IdLimit \in 0..(IdLimit - 1)
    BY <1>2
<1> QED BY <1>1, <1>3 DEF Nth, IsFree

\* Initially nothing is tracked and nobody calls.
LEMMA InitInv == Init => Inv
<1> SUFFICES ASSUME Init PROVE Inv
    OBVIOUS
<1> USE ProgressAssumption DEF Init
<1>1. Live = {}
    BY DEF Live
<1>2. TypeOK
  <2>1. DOMAIN activities = {} /\ activities \in [DOMAIN activities -> Info]
    OBVIOUS
  <2>2. DOMAIN view = Observers /\ \A o \in Observers : view[o] \in [DOMAIN view[o] -> Reports]
    OBVIOUS
  <2>3. sequence \in 0..(IdLimit - 1) /\ DOMAIN activities \subseteq Addresses
    BY <2>1
  <2>4. /\ id \in [Slots -> Addresses \cup {0}]
        /\ parent \in [Slots -> Slots \cup {Root}]
        /\ at \in [Threads -> Slots \cup {Root}]
        /\ amount \in [Threads -> Totals \cup {0, Advance}]
        /\ going \in [Threads -> BOOLEAN]
    OBVIOUS
  <2>5. pc \in [Threads -> {"idle", "fill", "callback", "store", "update", "notify", "return",
                            "finish"}]
    OBVIOUS
  <2>6. observer \in Observers \cup {None}
        /\ callback \in BOOLEAN /\ keepGoing \in BOOLEAN /\ told \in BOOLEAN /\ overlapped \in BOOLEAN
    OBVIOUS
  <2> HIDE DEF Init
  <2> QED BY <2>1, <2>2, <2>3, <2>4, <2>5, <2>6 DEF TypeOK
<1>3. KeysInv /\ CallsInv
    BY DEF KeysInv, CallsInv
<1>4. IdsAreAlive /\ ParentsInv /\ InfosInv /\ ViewInv
    BY <1>1 DEF IdsAreAlive, ParentsInv, InfosInv, ViewInv
<1> QED BY <1>2, <1>3, <1>4 DEF Inv

\* A new activity has a node and a key of its own, and the observer is told of
\* it before its info is complete.
LEMMA BeginKeeps ==
    ASSUME Inv, NEW t \in Threads, NEW s \in Slots, NEW p \in Slots \cup {Root}, NEW n \in Totals,
           BeginActivity(t, s, p, n)
    PROVE  Inv'
<1> USE ProgressAssumption
<1>1. PICK i \in NextIds : \E a \in NodesOf(i) :
        /\ sequence' = i
        /\ activities' = [x \in DOMAIN activities \cup {a} |->
                            IF x \in DOMAIN activities THEN activities[x] ELSE NewInfo(i)]
        /\ id' = [id EXCEPT ![s] = a]
        /\ view' = Notified(a, Report(IdOf(p), 0, n))
    BY DEF BeginActivity
<1>2. i \in 0..(IdLimit - 1) /\ i \notin MapIds
    BY NextIdIsNew DEF Inv
<1>3. PICK a \in Addresses \ DOMAIN activities :
        /\ sequence' = i
        /\ activities' = [x \in DOMAIN activities \cup {a} |->
                            IF x \in DOMAIN activities THEN activities[x] ELSE NewInfo(i)]
        /\ id' = [id EXCEPT ![s] = a]
        /\ view' = Notified(a, Report(IdOf(p), 0, n))
    BY <1>1, <1>2 DEF NodesOf
<1>4. /\ pc[t] = "idle" /\ id[s] = 0 /\ ~Busy(s)
      /\ p = Root \/ (p \in Live /\ ~Ending(p))
      /\ parent' = [parent EXCEPT ![s] = p]
      /\ pc' = [pc EXCEPT ![t] = "fill"]
      /\ at' = [at EXCEPT ![t] = s]
      /\ amount' = [amount EXCEPT ![t] = n]
      /\ UNCHANGED <<observer, cancelVars>>
    BY DEF BeginActivity
<1>5. /\ DOMAIN activities' = DOMAIN activities \cup {a}
      /\ activities'[a] = NewInfo(i)
      /\ \A x \in DOMAIN activities : activities'[x] = activities[x]
      /\ a # 0
      /\ \A x \in DOMAIN activities : activities[x].map_id # i
    BY <1>2, <1>3 DEF MapIds
<1>6. /\ \A r \in Slots : id'[r] = IF r = s THEN a ELSE id[r]
      /\ Live' = Live \cup {s}
      /\ s \notin Live
      /\ \A r \in Live : id[r] \in DOMAIN activities /\ id[r] # a /\ r # s /\ id'[r] = id[r]
      /\ id'[s] = a
      /\ p # s
    BY <1>3, <1>4, <1>5 DEF Live, Inv, TypeOK, IdsAreAlive
<1>7. IdOf(p) \in Addresses \cup {0} /\ IdOf(p)' = IdOf(p)
    BY <1>3, <1>4, <1>6 DEF IdOf, Inv, TypeOK, Live
<1>8. TypeOK'
  <2>1. DOMAIN activities' \subseteq Addresses /\ activities' \in [DOMAIN activities' -> Info]
    BY <1>2, <1>3, <1>5 DEF Inv, TypeOK, Info, NewInfo
  <2>2. DOMAIN view' = Observers
    BY <1>3 DEF Notified
  <2>3. \A o \in Observers : view'[o] \in [DOMAIN view'[o] -> Reports]
    BY <1>3, <1>7 DEF Notified, Inv, TypeOK, Reports, Report
  <2> QED BY <2>1, <2>2, <2>3, <1>2, <1>3, <1>4 DEF Inv, TypeOK, cancelVars
<1>9. IdsAreAlive'
    BY <1>5, <1>6 DEF Inv, IdsAreAlive
<1>10. KeysInv'
    BY <1>5 DEF Inv, KeysInv, NewInfo
<1>11. CallsInv'
  <2>1. \A u \in Threads : at[u] # s
    BY <1>4 DEF Inv, CallsInv, Busy
  <2>2. \A u \in Threads : pc'[u] = (IF u = t THEN "fill" ELSE pc[u])
                        /\ at'[u] = (IF u = t THEN s ELSE at[u])
                        /\ amount'[u] = (IF u = t THEN n ELSE amount[u])
    BY <1>4 DEF Inv, TypeOK
  <2> QED BY <2>1, <2>2, <1>5, <1>6 DEF Inv, CallsInv
<1>12. ParentsInv'
  <2>1. \A r \in Slots : parent'[r] = IF r = s THEN p ELSE parent[r]
    BY <1>4 DEF Inv, TypeOK
  <2>2. \A u \in Threads : pc'[u] = "finish" => pc[u] = "finish" /\ at'[u] = at[u] /\ at[u] # s /\ at[u] # p
    BY <1>4 DEF Inv, TypeOK, Busy, Ending, CallsInv
  <2> QED BY <2>1, <2>2, <1>4, <1>6 DEF Inv, ParentsInv, Live
<1>13. \A r \in Live : IdOf(parent[r])' = IdOf(parent[r]) /\ parent'[r] = parent[r]
    BY <1>3, <1>4, <1>6 DEF Inv, ParentsInv, IdOf, TypeOK, Live
<1>14. pc'[t] = "fill" /\ at'[t] = s /\ amount'[t] = n
       /\ \A u \in Threads : u # t => pc'[u] = pc[u] /\ at'[u] = at[u] /\ amount'[u] = amount[u]
    BY <1>4 DEF Inv, TypeOK
<1>15. InfosInv'
  <2>1. Filling(s)'
    BY <1>14 DEF Filling
  <2>2. \A r \in Live : Filling(r) => Filling(r)'
    BY <1>4, <1>14 DEF Filling
  <2> QED BY <2>1, <2>2, <1>5, <1>6, <1>13 DEF Inv, InfosInv
<1>16. ViewInv'
  <2> SUFFICES ASSUME observer # None
               PROVE  /\ DOMAIN view'[observer] = DOMAIN activities'
                      /\ \A r \in Live' : \/ view'[observer][id'[r]] = Unknown
                                          \/ Right(r)' \/ Begun(r)' \/ ToBeTold(r)'
    BY <1>4 DEF ViewInv
  <2>1. view'[observer] = [x \in DOMAIN view[observer] \cup {a} |->
                            IF x = a THEN Report(IdOf(p), 0, n) ELSE view[observer][x]]
    BY <1>3 DEF Notified, Inv, TypeOK
  <2>2. DOMAIN view[observer] = DOMAIN activities
    BY DEF Inv, ViewInv
  <2>3. Begun(s)'
    <3>1. IdOf(parent[s])' = IdOf(p) /\ view'[observer'][id'[s]] = Report(IdOf(p), 0, n)
        BY <1>4, <1>6, <1>7, <2>1 DEF Inv, TypeOK, IdOf
    <3> QED BY <3>1, <1>5, <1>6, <1>14 DEF Begun, NewInfo
  <2>4. ASSUME NEW r \in Live
        PROVE  \/ view'[observer][id'[r]] = Unknown \/ Right(r)' \/ Begun(r)' \/ ToBeTold(r)'
    <3>1. view'[observer][id'[r]] = view[observer][id[r]] /\ activities'[id'[r]] = activities[id[r]]
          /\ observer' = observer
        BY <1>4, <1>5, <1>6, <2>1, <2>2 DEF Live
    <3>2. Right(r) => Right(r)'
        BY <3>1, <1>6, <1>13, <1>14 DEF Right, Filling
    <3>3. Begun(r) => Begun(r)'
        BY <3>1, <1>4, <1>13, <1>14 DEF Begun
    <3>4. ToBeTold(r) => ToBeTold(r)'
        BY <1>4, <1>14 DEF ToBeTold
    <3> QED BY <3>1, <3>2, <3>3, <3>4 DEF Inv, ViewInv
  <2> QED BY <2>1, <2>2, <2>3, <2>4, <1>5, <1>6
<1> QED BY <1>8, <1>9, <1>10, <1>11, <1>12, <1>15, <1>16 DEF Inv

-----------------------------------------------------------------------------
\* A thread's step between its critical sections, which changes neither the
\* map nor what the observer was told, nor enters or leaves a call that does.
LEMMA QuietKeeps ==
    ASSUME Inv, TypeOK', CallsInv',
           UNCHANGED <<activities, sequence, observer, id, parent, view>>,
           \A u \in Threads :
              pc[u] \in {"fill", "notify", "finish"} \/ pc'[u] \in {"fill", "notify", "finish"}
                => pc'[u] = pc[u] /\ at'[u] = at[u] /\ amount'[u] = amount[u]
    PROVE  Inv'
<1>1. Live' = Live
    BY DEF Live
<1>2. IdsAreAlive' /\ KeysInv'
    BY <1>1 DEF Inv, IdsAreAlive, KeysInv
<1>3. ParentsInv'
    BY <1>1 DEF Inv, ParentsInv
<1>4. \A s : IdOf(s)' = IdOf(s)
    BY DEF IdOf
<1>5. \A s \in Slots : Filling(s) <=> Filling(s)'
    BY DEF Filling
<1>6. InfosInv'
    BY <1>1, <1>4, <1>5 DEF Inv, InfosInv, Live
<1>7. ViewInv'
  <2> SUFFICES ASSUME observer # None, NEW s \in Live
               PROVE  \/ view[observer][id[s]] = Unknown
                      \/ Right(s)' \/ Begun(s)' \/ ToBeTold(s)'
    BY <1>1 DEF Inv, ViewInv
  <2>1. Right(s) => Right(s)'
    BY <1>4, <1>5 DEF Right, Live
  <2>2. Begun(s) => Begun(s)'
    BY <1>4 DEF Begun
  <2>3. ToBeTold(s) => ToBeTold(s)'
    BY DEF ToBeTold
  <2> QED BY <2>1, <2>2, <2>3 DEF Inv, ViewInv
<1> QED BY <1>2, <1>3, <1>6, <1>7 DEF Inv

\* Entering update_progress or advance_progress.
LEMMA UpdateKeeps ==
    ASSUME Inv, NEW t \in Threads, NEW s \in Slots \cup {Root}, NEW k \in {0, Advance},
           UpdateProgress(t, s, k)
    PROVE  Inv'
<1> USE ProgressAssumption
<1>1. PICK q \in {"update", "callback"} : pc' = [pc EXCEPT ![t] = q]
    BY DEF UpdateProgress
<1>2. /\ pc[t] = "idle"
      /\ s = Root \/ (s \in Live /\ ~Busy(s))
      /\ at' = [at EXCEPT ![t] = s]
      /\ amount' = [amount EXCEPT ![t] = k]
      /\ overlapped' \in BOOLEAN
      /\ UNCHANGED <<trackerVars, callback, keepGoing, going, told, id, parent, view>>
    BY DEF UpdateProgress, Inv, TypeOK
<1>3. TypeOK'
    BY <1>1, <1>2 DEF Inv, TypeOK, trackerVars
<1>4. \A u \in Threads : /\ pc'[u] = (IF u = t THEN q ELSE pc[u])
                         /\ at'[u] = (IF u = t THEN s ELSE at[u])
                         /\ amount'[u] = (IF u = t THEN k ELSE amount[u])
    BY <1>1, <1>2 DEF Inv, TypeOK
<1>5. s # Root => \A u \in Threads : at[u] # s
    BY <1>2 DEF Busy, Inv, CallsInv
<1>6. CallsInv'
    BY <1>2, <1>4, <1>5 DEF Inv, CallsInv, Live
<1> QED BY <1>2, <1>3, <1>4, <1>6, QuietKeeps DEF trackerVars

\* The callback, the store of its result, the return, and the root's update.
LEMMA MovesKeep ==
    ASSUME Inv, NEW t \in Threads,
           \/ CallBack(t) \/ StoreKeepGoing(t) \/ Return(t)
           \/ (SetSteps(t) /\ at[t] = Root)
    PROVE  Inv'
<1> USE ProgressAssumption
<1>1. /\ UNCHANGED <<activities, sequence, observer, id, parent, view>>
      /\ TypeOK'
    BY DEF CallBack, StoreKeepGoing, Return, SetSteps, Done, AndKeepGoing, trackerVars, cancelVars,
       Inv, TypeOK, Advance
<1>2. \A u \in Threads : u # t => pc'[u] = pc[u] /\ at'[u] = at[u] /\ amount'[u] = amount[u]
    BY DEF CallBack, StoreKeepGoing, Return, SetSteps, Done, Inv, TypeOK
<1>3. /\ pc[t] \notin {"fill", "notify", "finish", "idle"}
      /\ \/ pc'[t] = "idle" /\ at'[t] = Root
         \/ pc'[t] = "return" /\ at'[t] = at[t]
         \/ /\ pc'[t] \in {"store", "update"} /\ at'[t] = at[t] /\ amount'[t] = amount[t]
            /\ pc[t] \in {"callback", "store"}
    BY DEF CallBack, StoreKeepGoing, Return, SetSteps, Done, Inv, TypeOK
<1>4. CallsInv'
    BY <1>1, <1>2, <1>3 DEF Inv, CallsInv
<1> QED BY <1>1, <1>2, <1>3, <1>4, QuietKeeps

\* Replacing the callback, or doing nothing.
LEMMA CallbackKeeps ==
    ASSUME Inv, (\E b \in BOOLEAN : SetCallback(b)) \/ UNCHANGED vars
    PROVE  Inv'
<1>1. /\ UNCHANGED <<activities, sequence, observer, id, parent, view, pc, at, amount>>
      /\ TypeOK'
    BY DEF SetCallback, vars, trackerVars, callVars, cancelVars, Inv, TypeOK
<1>2. CallsInv'
    BY <1>1 DEF Inv, CallsInv
<1> QED BY <1>1, <1>2, QuietKeeps

-----------------------------------------------------------------------------
\* begin_activity completes the info: what the observer was told is now so.
LEMMA FillInKeeps ==
    ASSUME Inv, NEW t \in Threads, FillIn(t)
    PROVE  Inv'
<1> USE ProgressAssumption
<1>0. PICK s \in Slots : s = at[t]
    BY DEF FillIn, Inv, CallsInv
<1>a. PICK a \in Addresses : a = id[s]
    BY <1>0 DEF FillIn, Inv, CallsInv, TypeOK
<1>1. /\ pc[t] = "fill" /\ s \in Slots /\ s # Root /\ s \in Live /\ a \in DOMAIN activities
      /\ amount[t] \in Totals
      /\ \A u \in Threads : u # t => at[u] # s
    BY <1>0, <1>a DEF FillIn, Inv, TypeOK, CallsInv, IdsAreAlive, Live
<1>2. /\ activities' = [activities EXCEPT ![a] = Filled(@, IdOf(parent[s]), amount[t])]
      /\ UNCHANGED <<sequence, observer, cancelVars, id, parent, view>>
      /\ Done(t)
    BY <1>0, <1>a DEF FillIn
<1>3. /\ DOMAIN activities' = DOMAIN activities
      /\ activities[a] \in Info
      /\ activities'[a] = Filled(activities[a], IdOf(parent[s]), amount[t])
      /\ \A x \in DOMAIN activities : x # a => activities'[x] = activities[x]
    BY <1>1, <1>2 DEF Inv, TypeOK
<1>4. IdOf(parent[s]) \in Addresses \cup {0}
    BY <1>1 DEF IdOf, Inv, TypeOK
<1>5. /\ activities'[a] \in Info
      /\ activities'[a].map_id = activities[a].map_id
      /\ activities'[a].curr_steps = activities[a].curr_steps
      /\ activities'[a].parent_id = IdOf(parent[s])
      /\ activities'[a].total_steps = amount[t]
    BY <1>1, <1>3, <1>4 DEF Filled, Info
<1>6. /\ pc'[t] = "idle" /\ at'[t] = Root
      /\ \A u \in Threads : u # t => pc'[u] = pc[u] /\ at'[u] = at[u] /\ amount'[u] = amount[u]
    BY <1>2 DEF Done, Inv, TypeOK
<1>7. TypeOK'
  <2>1. DOMAIN activities' \subseteq Addresses /\ activities' \in [DOMAIN activities' -> Info]
    BY <1>2, <1>3, <1>5 DEF Inv, TypeOK
  <2> QED BY <2>1, <1>2 DEF Inv, TypeOK, Done, cancelVars, Advance
<1>8. Live' = Live /\ \A r : IdOf(r)' = IdOf(r)
    BY <1>2 DEF Live, IdOf
<1>9. IdsAreAlive' /\ KeysInv'
    BY <1>2, <1>3, <1>5, <1>8 DEF Inv, IdsAreAlive, KeysInv
<1>10. CallsInv'
    BY <1>2, <1>6 DEF Inv, CallsInv
<1>11. ParentsInv'
    BY <1>2, <1>6, <1>8 DEF Inv, ParentsInv
<1>12. ASSUME NEW r \in Live, r # s
       PROVE  /\ activities'[id[r]] = activities[id[r]]
              /\ Filling(r) => Filling(r)'
              /\ Right(r) => Right(r)'
              /\ Begun(r) => Begun(r)'
              /\ ToBeTold(r) => ToBeTold(r)'
  <2>1. activities'[id[r]] = activities[id[r]]
    BY <1>a, <1>1, <1>3, <1>12 DEF Inv, IdsAreAlive
  <2>2. \A u \in Threads : at[u] = r => u # t
    BY <1>0, <1>12
  <2>3. Filling(r) => Filling(r)'
    BY <2>2, <1>6 DEF Filling
  <2>4. ToBeTold(r) => ToBeTold(r)'
    BY <2>2, <1>6 DEF ToBeTold
  <2>5. Right(r) => Right(r)'
    BY <2>1, <2>2, <1>1, <1>2, <1>6, <1>8 DEF Right, Filling
  <2>6. Begun(r) => Begun(r)'
    BY <2>1, <2>2, <1>2, <1>6, <1>8 DEF Begun
  <2> QED BY <2>1, <2>3, <2>4, <2>5, <2>6
<1>13. InfosInv'
    BY <1>a, <1>2, <1>5, <1>8, <1>12 DEF Inv, InfosInv
<1>14. ViewInv'
  <2> SUFFICES ASSUME observer # None, NEW r \in Live
               PROVE  \/ view[observer][id[r]] = Unknown
                      \/ Right(r)' \/ Begun(r)' \/ ToBeTold(r)'
    BY <1>2, <1>3, <1>8 DEF Inv, ViewInv
  <2>1. CASE r # s
    BY <2>1, <1>12 DEF Inv, ViewInv
  <2>2. CASE r = s
    <3>1. ~ToBeTold(s)
        BY <1>0, <1>1 DEF ToBeTold
    <3>2. ~Filling(s)'
        BY <1>0, <1>1, <1>6 DEF Filling
    <3>3. Begun(s) => Right(s)'
      <4> SUFFICES ASSUME Begun(s) PROVE Right(s)'
        OBVIOUS
      <4>1. /\ view[observer][a] = Report(IdOf(parent[s]), 0, amount[t])
            /\ activities[a].curr_steps = 0
        BY <1>0, <1>a, <1>1 DEF Begun
      <4>2. /\ view'[observer'][id[s]'] = view[observer][a]
            /\ activities'[id[s]'] = activities'[a]
            /\ IdOf(parent[s])' = IdOf(parent[s])
        BY <1>a, <1>2, <1>8
      <4> QED BY <3>2, <4>1, <4>2, <1>5 DEF Right
    <3>4. ~Right(s)
        BY <1>0, <1>1 DEF Right, Filling
    <3> QED BY <2>2, <3>1, <3>3, <3>4 DEF Inv, ViewInv
  <2> QED BY <2>1, <2>2
<1> QED BY <1>7, <1>9, <1>10, <1>11, <1>13, <1>14 DEF Inv

-----------------------------------------------------------------------------
\* The steps of an activity change, and the observer will be told.
LEMMA StepsKeep ==
    ASSUME Inv, NEW t \in Threads, NEW s \in Live, NEW c \in Nat, NEW q \in {"notify", "finish"},
           activities' = [activities EXCEPT ![id[s]].curr_steps = c],
           pc' = [pc EXCEPT ![t] = q],
           at' = [at EXCEPT ![t] = s],
           UNCHANGED <<sequence, observer, cancelVars, amount, id, parent, view>>,
           pc[t] # "fill", at[t] \in {s, Root},
           \A u \in Threads : u # t => at[u] # s,
           q = "finish" => \A r \in Live : parent[r] # s
    PROVE  Inv'
<1> USE ProgressAssumption
<1>1. PICK a \in DOMAIN activities : a = id[s] /\ a \in Addresses
    BY DEF Inv, IdsAreAlive, TypeOK
<1>2. /\ DOMAIN activities' = DOMAIN activities
      /\ activities[a] \in Info
      /\ activities'[a] = [activities[a] EXCEPT !.curr_steps = c]
      /\ \A x \in DOMAIN activities : x # a => activities'[x] = activities[x]
    BY <1>1 DEF Inv, TypeOK
<1>3. /\ activities'[a] \in Info
      /\ activities'[a].map_id = activities[a].map_id
      /\ activities'[a].parent_id = activities[a].parent_id
      /\ activities'[a].total_steps = activities[a].total_steps
    BY <1>2 DEF Info
<1>4. /\ pc'[t] = q /\ at'[t] = s
      /\ \A u \in Threads : u # t => pc'[u] = pc[u] /\ at'[u] = at[u]
      /\ s \in Slots /\ s # Root
    BY DEF Inv, TypeOK, Live
<1>5. TypeOK'
  <2>1. DOMAIN activities' \subseteq Addresses /\ activities' \in [DOMAIN activities' -> Info]
    BY <1>1, <1>2, <1>3 DEF Inv, TypeOK
  <2> QED BY <2>1, <1>4 DEF Inv, TypeOK, cancelVars
<1>6. Live' = Live /\ \A r : IdOf(r)' = IdOf(r)
    BY DEF Live, IdOf
<1>7. IdsAreAlive' /\ KeysInv'
    BY <1>1, <1>2, <1>3, <1>6 DEF Inv, IdsAreAlive, KeysInv
<1>8. CallsInv'
    BY <1>4 DEF Inv, CallsInv, Live
<1>9. ParentsInv'
    BY <1>4, <1>6 DEF Inv, ParentsInv
<1>10. \A r \in Slots : Filling(r) <=> Filling(r)'
    BY <1>4 DEF Filling
<1>11. InfosInv'
    BY <1>1, <1>2, <1>3, <1>6, <1>10 DEF Inv, InfosInv, Live
<1>12. ViewInv'
  <2> SUFFICES ASSUME observer # None, NEW r \in Live
               PROVE  \/ view[observer][id[r]] = Unknown
                      \/ Right(r)' \/ Begun(r)' \/ ToBeTold(r)'
    BY <1>2, <1>6 DEF Inv, ViewInv
  <2>1. CASE r = s
    BY <2>1, <1>4 DEF ToBeTold
  <2>2. CASE r # s
    <3>1. activities'[id[r]] = activities[id[r]]
        BY <2>2, <1>1, <1>2 DEF Inv, IdsAreAlive
    <3>2. \A u \in Threads : at[u] = r /\ pc[u] \in {"fill", "notify", "finish"} =>
                                pc'[u] = pc[u] /\ at'[u] = r
      <4>1. at[t] # r
        BY <2>2, <1>4 DEF Live
      <4> QED BY <4>1, <1>4
    <3>3. Right(r) => Right(r)'
        BY <3>1, <1>6, <1>10 DEF Right, Live
    <3>4. Begun(r) => Begun(r)'
        BY <3>1, <3>2, <1>6 DEF Begun
    <3>5. ToBeTold(r) => ToBeTold(r)'
        BY <3>2 DEF ToBeTold
    <3> QED BY <3>3, <3>4, <3>5 DEF Inv, ViewInv
  <2> QED BY <2>1, <2>2
<1> QED BY <1>5, <1>7, <1>8, <1>9, <1>11, <1>12 DEF Inv

\* _update, up to the lock.
LEMMA SetStepsKeeps ==
    ASSUME Inv, NEW t \in Threads, SetSteps(t), at[t] # Root
    PROVE  Inv'
<1> USE ProgressAssumption
<1>1. PICK s \in Live : s = at[t]
    BY DEF Inv, CallsInv, Live
<1>2. PICK c \in Nat : c = Current(activities[id[s]], amount[t])
  <2>1. id[s] \in DOMAIN activities
    BY DEF Inv, IdsAreAlive
  <2>2. amount[t] \in {0, Advance} /\ activities[id[s]].curr_steps \in Nat
    BY <2>1 DEF SetSteps, Inv, CallsInv, TypeOK, Info
  <2> QED BY <2>2 DEF Current
<1>3. /\ activities' = [activities EXCEPT ![id[s]].curr_steps = c]
      /\ pc' = [pc EXCEPT ![t] = "notify"]
      /\ at' = [at EXCEPT ![t] = s]
      /\ UNCHANGED <<sequence, observer, cancelVars, amount, id, parent, view>>
      /\ pc[t] = "update"
    BY <1>1, <1>2 DEF SetSteps, Inv, TypeOK
<1>4. \A u \in Threads : u # t => at[u] # s
    BY <1>1 DEF Inv, CallsInv
<1> QED BY <1>1, <1>3, <1>4, StepsKeep

\* finish_activity, up to the lock.
LEMMA FinishKeeps ==
    ASSUME Inv, NEW t \in Threads, NEW s \in Slots, FinishActivity(t, s)
    PROVE  Inv'
<1> USE ProgressAssumption
<1>1. s \in Live /\ id[s] \in DOMAIN activities
    BY DEF FinishActivity, Inv, IdsAreAlive
<1>2. PICK c \in Nat : c = activities[id[s]].total_steps
    BY <1>1 DEF Inv, TypeOK, Info
<1>3. /\ activities' = [activities EXCEPT ![id[s]].curr_steps = c]
      /\ pc' = [pc EXCEPT ![t] = "finish"]
      /\ at' = [at EXCEPT ![t] = s]
      /\ UNCHANGED <<sequence, observer, cancelVars, amount, id, parent, view>>
      /\ pc[t] = "idle" /\ at[t] = Root
      /\ \A r \in Live : parent[r] # s
    BY <1>2 DEF FinishActivity, Inv, CallsInv
<1>4. \A u \in Threads : u # t => at[u] # s
    BY <1>1 DEF Inv, CallsInv, FinishActivity, Busy, Live
<1> QED BY <1>1, <1>3, <1>4, StepsKeep

-----------------------------------------------------------------------------
\* The observer is told the steps of an activity, and of its parent.
LEMMA NotifyKeeps ==
    ASSUME Inv, NEW t \in Threads, NotifyObserver(t)
    PROVE  Inv'
<1> USE ProgressAssumption
<1>1. PICK s \in Live : s = at[t]
    BY DEF NotifyObserver, Inv, CallsInv, Live
<1>2. PICK a \in DOMAIN activities : a = id[s] /\ a \in Addresses
    BY DEF Inv, IdsAreAlive, TypeOK
<1>3. /\ view' = Notified(a, ReportOf(activities[a]))
      /\ pc' = [pc EXCEPT ![t] = "return"]
      /\ pc[t] = "notify"
      /\ UNCHANGED <<trackerVars, cancelVars, at, amount, id, parent>>
    BY <1>1, <1>2 DEF NotifyObserver
<1>4. /\ pc'[t] = "return"
      /\ \A u \in Threads : u # t => pc'[u] = pc[u] /\ at[u] # s
    BY <1>1, <1>3 DEF Inv, TypeOK, CallsInv, Live
<1>5. ReportOf(activities[a]) \in Reports
    BY <1>2 DEF ReportOf, Report, Reports, Inv, TypeOK, Info
<1>6. TypeOK'
  <2>1. DOMAIN view' = Observers /\ \A o \in Observers : view'[o] \in [DOMAIN view'[o] -> Reports]
    BY <1>3, <1>5 DEF Notified, Inv, TypeOK
  <2> QED BY <2>1, <1>3 DEF Inv, TypeOK, trackerVars, cancelVars
<1>7. Live' = Live /\ \A r : IdOf(r)' = IdOf(r)
    BY <1>3 DEF Live, IdOf
<1>8. IdsAreAlive' /\ KeysInv'
    BY <1>3, <1>7 DEF Inv, IdsAreAlive, KeysInv, trackerVars
<1>9. CallsInv'
    BY <1>3, <1>4 DEF Inv, CallsInv
<1>10. ParentsInv'
    BY <1>3, <1>4, <1>7 DEF Inv, ParentsInv
<1>11. \A r \in Slots : Filling(r) <=> Filling(r)'
    BY <1>3, <1>4 DEF Filling
<1>12. InfosInv'
    BY <1>3, <1>7, <1>11 DEF Inv, InfosInv, Live, trackerVars
<1>13. ViewInv'
  <2> SUFFICES ASSUME observer # None
               PROVE  /\ DOMAIN view'[observer] = DOMAIN activities
                      /\ \A r \in Live : \/ view'[observer][id[r]] = Unknown
                                         \/ Right(r)' \/ Begun(r)' \/ ToBeTold(r)'
    BY <1>3, <1>7 DEF ViewInv, trackerVars
  <2>1. view'[observer] = [x \in DOMAIN view[observer] \cup {a} |->
                            IF x = a THEN ReportOf(activities[a]) ELSE view[observer][x]]
    BY <1>3 DEF Notified, Inv, TypeOK
  <2>2. DOMAIN view[observer] = DOMAIN activities
    BY DEF Inv, ViewInv
  <2>3. Right(s)'
    <3>1. ~Filling(s)
        BY <1>1, <1>3, <1>4 DEF Filling
    <3>2. activities[a].parent_id = IdOf(parent[s])
        BY <3>1, <1>2 DEF Inv, InfosInv
    <3>3. ~Filling(s)'
        BY <3>1, <1>11 DEF Live
    <3>4. view'[observer][id[s]] = ReportOf(activities[a])
        BY <1>2, <2>1
    <3> QED BY <3>2, <3>3, <3>4, <1>2, <1>3, <1>7 DEF Right, ReportOf, trackerVars
  <2>4. ASSUME NEW r \in Live, r # s
        PROVE  \/ view'[observer][id[r]] = Unknown \/ Right(r)' \/ Begun(r)' \/ ToBeTold(r)'
    <3>1. view'[observer][id[r]] = view[observer][id[r]]
        BY <2>1, <2>2, <2>4, <1>2 DEF Inv, IdsAreAlive
    <3>2. Right(r) => Right(r)'
        BY <3>1, <1>3, <1>7, <1>11 DEF Right, Live, trackerVars
    <3>3. Begun(r) => Begun(r)'
        BY <3>1, <1>3, <1>4, <1>7 DEF Begun, trackerVars
    <3>4. ToBeTold(r) => ToBeTold(r)'
        BY <2>4, <1>1, <1>3, <1>4 DEF ToBeTold
    <3> QED BY <3>1, <3>2, <3>3, <3>4 DEF Inv, ViewInv
  <2> QED BY <2>1, <2>2, <2>3, <2>4, <1>2
<1> QED BY <1>6, <1>8, <1>9, <1>10, <1>12, <1>13 DEF Inv

\* An observer that was just registered was told nothing.
LEMMA RegisterKeeps ==
    ASSUME Inv, NEW o \in Observers, Register(o) \/ Unregister(o)
    PROVE  Inv'
<1> USE ProgressAssumption
<1>1. UNCHANGED <<activities, sequence, cancelVars, callVars, id, parent>>
    BY DEF Register, Unregister
<1>2. Unknown \in Reports
    BY DEF Unknown, Report, Reports
<1>3. TypeOK'
  <2>1. /\ DOMAIN view' = Observers
        /\ \A x \in Observers : x # o => view'[x] = view[x]
        /\ \/ view'[o] = [a \in DOMAIN activities |-> Unknown]
           \/ view'[o] = [a \in {} |-> Unknown]
    <3>1. CASE Register(o)
        BY <3>1 DEF Register, Inv, TypeOK
    <3>2. CASE Unregister(o)
        BY <3>2 DEF Unregister, Inv, TypeOK
    <3> QED BY <3>1, <3>2
  <2>2. \A x \in Observers : view'[x] \in [DOMAIN view'[x] -> Reports]
    <3>1. view'[o] \in [DOMAIN view'[o] -> Reports]
      <4>1. CASE view'[o] = [a \in DOMAIN activities |-> Unknown]
        BY <4>1, <1>2
      <4>2. CASE view'[o] = [a \in {} |-> Unknown]
        BY <4>2
      <4> QED BY <4>1, <4>2, <2>1
    <3>2. \A x \in Observers : x # o => view'[x] \in [DOMAIN view'[x] -> Reports]
        BY <2>1 DEF Inv, TypeOK
    <3> QED BY <3>1, <3>2
  <2>3. observer' \in Observers \cup {None}
    BY DEF Register, Unregister
  <2> QED BY <2>1, <2>2, <2>3, <1>1 DEF Inv, TypeOK, cancelVars, callVars
<1>4. Live' = Live /\ \A r : IdOf(r)' = IdOf(r)
    BY <1>1 DEF Live, IdOf
<1>5. IdsAreAlive' /\ KeysInv' /\ CallsInv' /\ ParentsInv'
    BY <1>1, <1>4 DEF Inv, IdsAreAlive, KeysInv, CallsInv, ParentsInv, callVars
<1>6. InfosInv'
    BY <1>1, <1>4 DEF Inv, InfosInv, Filling, callVars
<1>7. ViewInv'
  <2>1. CASE Register(o)
    <3>1. observer' = o /\ view'[o] = [a \in DOMAIN activities |-> Unknown]
        BY <2>1 DEF Register, Inv, TypeOK
    <3> QED BY <3>1, <1>1, <1>4 DEF ViewInv, Inv, IdsAreAlive
  <2>2. CASE Unregister(o)
    BY <2>2 DEF Unregister, ViewInv
  <2> QED BY <2>1, <2>2
<1> QED BY <1>3, <1>5, <1>6, <1>7 DEF Inv

-----------------------------------------------------------------------------
\* The node with the activity's key is the activity's own, and nobody else
\* refers to it: no object, no call and no sub-activity.
LEMMA EraseKeeps ==
    ASSUME Inv, NEW t \in Threads, Erase(t)
    PROVE  Inv'
<1> USE ProgressAssumption
<1>1. PICK s \in Live : s = at[t]
    BY DEF Erase, Inv, CallsInv, Live
<1>2. PICK a \in DOMAIN activities : a = id[s] /\ a \in Addresses
    BY DEF Inv, IdsAreAlive, TypeOK
<1>3. /\ pc[t] = "finish"
      /\ view' = Dismissed(a)
      /\ activities' = [x \in {y \in DOMAIN activities :
                                 activities[y].map_id # activities[a].map_id} |-> activities[x]]
      /\ id' = [id EXCEPT ![s] = 0]
      /\ parent' = [parent EXCEPT ![s] = Root]
      /\ Done(t)
      /\ UNCHANGED <<sequence, observer, cancelVars>>
    BY <1>1, <1>2 DEF Erase
<1>4. /\ DOMAIN activities' = DOMAIN activities \ {a}
      /\ \A x \in DOMAIN activities' : activities'[x] = activities[x]
  <2>1. {y \in DOMAIN activities : activities[y].map_id # activities[a].map_id}
            = DOMAIN activities \ {a}
    BY <1>2 DEF Inv, KeysInv
  <2> QED BY <2>1, <1>3
<1>5. /\ Live' = Live \ {s}
      /\ \A r \in Live : r # s => id'[r] = id[r] /\ parent'[r] = parent[r]
      /\ \A r \in Live : r # s => id[r] \in DOMAIN activities'
    BY <1>2, <1>3, <1>4 DEF Live, Inv, TypeOK, IdsAreAlive
<1>6. /\ pc'[t] = "idle" /\ at'[t] = Root
      /\ \A u \in Threads : u # t => /\ pc'[u] = pc[u] /\ at'[u] = at[u] /\ amount'[u] = amount[u]
                                     /\ at[u] # s
    BY <1>1, <1>3 DEF Done, Inv, TypeOK, CallsInv, Live
<1>7. \A r \in Live : r # s => IdOf(parent[r])' = IdOf(parent[r]) /\ parent[r] # s
  <2>1. \A r \in Live : parent[r] # s
    BY <1>1, <1>3 DEF Inv, ParentsInv
  <2> QED BY <2>1, <1>3, <1>5 DEF IdOf, Inv, ParentsInv, Live, TypeOK
<1>8. TypeOK'
  <2>1. DOMAIN activities' \subseteq Addresses /\ activities' \in [DOMAIN activities' -> Info]
    BY <1>3, <1>4 DEF Inv, TypeOK
  <2>2. DOMAIN view' = Observers /\ \A o \in Observers : view'[o] \in [DOMAIN view'[o] -> Reports]
    BY <1>3 DEF Dismissed, Inv, TypeOK
  <2> QED BY <2>1, <2>2, <1>3 DEF Inv, TypeOK, Done, cancelVars, Live, Advance
<1>9. IdsAreAlive'
    BY <1>5 DEF Inv, IdsAreAlive
<1>10. KeysInv'
    BY <1>4 DEF Inv, KeysInv
<1>11. CallsInv'
    BY <1>3, <1>6 DEF Inv, CallsInv, TypeOK
<1>12. ParentsInv'
    BY <1>5, <1>6, <1>7 DEF Inv, ParentsInv
<1>13. ASSUME NEW r \in Live, r # s
       PROVE  /\ activities'[id'[r]] = activities[id[r]]
              /\ Filling(r) <=> Filling(r)'
              /\ ToBeTold(r) => ToBeTold(r)'
              /\ observer # None => view'[observer][id'[r]] = view[observer][id[r]]
  <2>1. id[r] \in DOMAIN activities' /\ id'[r] = id[r] /\ id[r] # a
    BY <1>4, <1>5, <1>13
  <2>2. \A u \in Threads : at[u] = r => u # t
    BY <1>1, <1>13
  <2>3. Filling(r) <=> Filling(r)'
    BY <2>2, <1>3, <1>6 DEF Filling, Live
  <2>4. ToBeTold(r) => ToBeTold(r)'
    BY <2>2, <1>6 DEF ToBeTold
  <2>5. observer # None => view'[observer][id[r]] = view[observer][id[r]]
    <3> SUFFICES ASSUME observer # None PROVE view'[observer][id[r]] = view[observer][id[r]]
        OBVIOUS
    <3>1. view'[observer] = [x \in DOMAIN view[observer] \ {a} |-> view[observer][x]]
        BY <1>3 DEF Dismissed, Inv, TypeOK
    <3>2. DOMAIN view[observer] = DOMAIN activities
        BY DEF Inv, ViewInv
    <3> QED BY <3>1, <3>2, <2>1, <1>4
  <2> QED BY <2>1, <2>3, <2>4, <2>5, <1>4
<1>14. InfosInv'
    BY <1>5, <1>7, <1>13 DEF Inv, InfosInv
<1>15. ViewInv'
  <2> SUFFICES ASSUME observer # None
               PROVE  /\ DOMAIN view'[observer] = DOMAIN activities'
                      /\ \A r \in Live' : \/ view'[observer][id'[r]] = Unknown
                                          \/ Right(r)' \/ Begun(r)' \/ ToBeTold(r)'
    BY <1>3 DEF ViewInv
  <2>1. DOMAIN view'[observer] = DOMAIN activities'
    BY <1>3, <1>4 DEF Dismissed, Inv, TypeOK, ViewInv
  <2>2. ASSUME NEW r \in Live, r # s
        PROVE  \/ view'[observer][id'[r]] = Unknown \/ Right(r)' \/ Begun(r)' \/ ToBeTold(r)'
    <3>1. view'[observer'][id'[r]] = view[observer][id[r]] /\ activities'[id'[r]] = activities[id[r]]
        BY <1>3, <1>13, <2>2
    <3>2. Right(r) => Right(r)'
        BY <3>1, <2>2, <1>7, <1>13 DEF Right
    <3>3. Begun(r) => Begun(r)'
        BY <3>1, <2>2, <1>1, <1>6, <1>7 DEF Begun
    <3> QED BY <3>1, <3>2, <3>3, <2>2, <1>3, <1>13 DEF Inv, ViewInv
  <2> QED BY <2>1, <2>2, <1>5
<1> QED BY <1>8, <1>9, <1>10, <1>11, <1>12, <1>14, <1>15 DEF Inv

-----------------------------------------------------------------------------
\* Every step of the tracker keeps the invariant.
LEMMA StepKeeps == ASSUME Inv, [Next]_vars PROVE Inv'
<1>1. ASSUME NEW t \in Threads, Activity(t) PROVE Inv'
  <2>1. CASE \E s \in Slots, p \in Slots \cup {Root}, n \in Totals : BeginActivity(t, s, p, n)
    BY <2>1, BeginKeeps
  <2>2. CASE \E s \in Slots \cup {Root}, k \in {0, Advance} : UpdateProgress(t, s, k)
    BY <2>2, UpdateKeeps
  <2>3. CASE FillIn(t)
    BY <2>3, FillInKeeps
  <2>4. CASE CallBack(t) \/ StoreKeepGoing(t) \/ Return(t)
    BY <2>4, MovesKeep
  <2>5. CASE SetSteps(t)
    BY <2>5, MovesKeep, SetStepsKeeps
  <2>6. CASE NotifyObserver(t)
    BY <2>6, NotifyKeeps
  <2>7. CASE \E s \in Slots : FinishActivity(t, s)
    BY <2>7, FinishKeeps
  <2>8. CASE Erase(t)
    BY <2>8, EraseKeeps
  <2> QED BY <1>1, <2>1, <2>2, <2>3, <2>4, <2>5, <2>6, <2>7, <2>8 DEF Activity
<1>2. CASE \E o \in Observers : Register(o) \/ Unregister(o)
    BY <1>2, RegisterKeeps
<1>3. CASE (\E b \in BOOLEAN : SetCallback(b)) \/ UNCHANGED vars
    BY <1>3, CallbackKeeps
<1> QED BY <1>1, <1>2, <1>3 DEF Next

\* The inductive invariant holds in every reachable state.
THEOREM ProgressInvHolds == Spec => []Inv
<1>1. Inv /\ [Next]_vars => Inv'
    BY StepKeeps
<1> QED BY InitInv, <1>1, PTL DEF Spec

\* The tracker, the calls and the reports are well typed.
THEOREM ProgressTypeCorrect == Spec => []TypeOK
<1>1. Inv => TypeOK
    BY DEF Inv
<1> QED BY <1>1, ProgressInvHolds, PTL

\* _decode never follows an id to an erased node or to another activity's.
THEOREM IdsStayAlive == Spec => []IdsAreAlive
<1>1. Inv => IdsAreAlive
    BY DEF Inv
<1> QED BY <1>1, ProgressInvHolds, PTL

\* What the observer was told is right whenever no call is under way.
THEOREM ObserverStaysRight == Spec => []ObserverIsRight
<1>1. Inv => ObserverIsRight
  <2> SUFFICES ASSUME Inv, observer # None, NEW s \in Live, ~Busy(s),
                      view[observer][id[s]] # Unknown
               PROVE  view[observer][id[s]] = Report(IdOf(parent[s]), activities[id[s]].curr_steps,
                                                     activities[id[s]].total_steps)
    BY DEF ObserverIsRight, Inv, ViewInv
  <2>1. ~Begun(s) /\ ~ToBeTold(s)
    BY DEF Busy, Begun, ToBeTold
  <2> QED BY <2>1 DEF Inv, ViewInv, Right
<1> QED BY <1>1, ProgressInvHolds, PTL

-----------------------------------------------------------------------------
\* While callbacks do not overlap, a canceled tracker stays canceled: what a
\* thread is about to store was loaded after the last store.
LEMMA CancelStep == ASSUME TypeOK, CancelInv, [Next]_vars PROVE CancelInv'
<1> SUFFICES ASSUME ~overlapped' PROVE CancelInv'
    BY DEF CancelInv
<1>1. CASE UNCHANGED <<keepGoing, going, told, overlapped, pc>>
    BY <1>1 DEF CancelInv, InCallback
<1>2. CASE \E o \in Observers : Register(o) \/ Unregister(o)
    BY <1>2, <1>1 DEF Register, Unregister, cancelVars, callVars
<1>3. CASE (\E b \in BOOLEAN : SetCallback(b)) \/ UNCHANGED vars
    BY <1>3, <1>1 DEF SetCallback, vars, cancelVars, callVars
<1>4. ASSUME NEW t \in Threads, Activity(t) PROVE CancelInv'
  <2>1. ASSUME UNCHANGED <<keepGoing, going, told, overlapped>>,
               pc'[t] \notin {"callback", "store"},
               \A u \in Threads : u # t => pc'[u] = pc[u]
        PROVE  CancelInv'
    BY <2>1 DEF CancelInv, InCallback
  <2>2. CASE \/ \E s \in Slots, p \in Slots \cup {Root}, n \in Totals : BeginActivity(t, s, p, n)
             \/ FillIn(t) \/ SetSteps(t) \/ NotifyObserver(t) \/ Erase(t)
             \/ \E s \in Slots : FinishActivity(t, s)
    BY <2>1, <2>2, ZenonT(40) DEF TypeOK, BeginActivity, FillIn, SetSteps, NotifyObserver, Erase, FinishActivity,
       Done, cancelVars
  <2>3. CASE \E s \in Slots \cup {Root}, k \in {0, Advance} : UpdateProgress(t, s, k)
    <3>1. PICK q \in {"update", "callback"} :
            /\ pc' = [pc EXCEPT ![t] = q] /\ pc[t] = "idle"
            /\ q = "callback" => InCallback = {}
            /\ UNCHANGED <<keepGoing, going, told>> /\ ~overlapped
      <4>1. PICK s \in Slots \cup {Root}, k \in {0, Advance} : UpdateProgress(t, s, k)
        BY <2>3
      <4>2. CASE pc' = [pc EXCEPT ![t] = "update"] /\ UNCHANGED overlapped
        BY <4>1, <4>2 DEF UpdateProgress
      <4>3. CASE pc' = [pc EXCEPT ![t] = "callback"] /\ overlapped' = (overlapped \/ InCallback # {})
        <5>1. ~overlapped /\ InCallback = {}
            BY <4>3
        <5> QED BY <4>1, <4>3, <5>1 DEF UpdateProgress
      <4> QED BY <4>1, <4>2, <4>3 DEF UpdateProgress
    <3> QED BY <3>1 DEF TypeOK, CancelInv, InCallback
  <2>4. CASE CallBack(t)
    BY <2>4 DEF CallBack, AndKeepGoing, TypeOK, CancelInv, InCallback
  <2>5. CASE StoreKeepGoing(t)
    BY <2>5 DEF StoreKeepGoing, TypeOK, CancelInv, InCallback
  <2>6. CASE Return(t)
    BY <2>6 DEF Return, Done, TypeOK, CancelInv, InCallback
  <2> QED BY <1>4, <2>2, <2>3, <2>4, <2>5, <2>6 DEF Activity
<1> QED BY <1>2, <1>3, <1>4 DEF Next

\* A cancellation is undone only if callbacks overlapped.
THEOREM CancelHolds == Spec => []RevivedOnlyByOverlap
<1>1. Init => CancelInv
    BY DEF Init, CancelInv, InCallback
<1>2. TypeOK /\ CancelInv /\ [Next]_vars => CancelInv'
    BY CancelStep
<1>3. CancelInv => RevivedOnlyByOverlap
    BY DEF CancelInv, RevivedOnlyByOverlap
<1> QED BY <1>1, <1>2, <1>3, ProgressTypeCorrect, PTL DEF Spec
=============================================================================
