------------------------- MODULE UploadServer_proofs -------------------------
(***************************************************************************)
(* For any threads, users and numbers of requests and starts, and through  *)
(* every race and crash UploadServer has: a session's chunks go to the     *)
(* user who minted it, and without a race what was told is stored.         *)
(***************************************************************************)
EXTENDS UploadServer, TLAPS

\* Every place where a session key stands next to a user: what was told, what was handed
\* to PutObject, the map of sessions, and the handlers with a session in hand.
Minting == {w \in Workers : pc[w] \in {"emplaceSession", "emplaceObject", "findObject"}}
Bound == announced \cup puts
         \cup {<<k, uploadSessions[k]>> : k \in DOMAIN uploadSessions}
         \cup {<<key[w], uid[w]>> : w \in Minting}

HandlerType == /\ uuidGen \in [Workers -> Nat]
               /\ pc \in [Workers -> {"idle", "mint", "emplaceSession", "emplaceObject",
                                      "findSession", "findObject", "stuck"}]
               /\ DOMAIN uid = Workers /\ DOMAIN key = Workers
               /\ starts \in Nat

\* No key stands next to two users.
OneUserPerKey == \A a, b \in Bound : a[1] = b[1] => a[2] = b[2]
\* A key begins with the start of the process that made it.
KeysAreOfAStart == \A b \in Bound : b[1][1] \in Nat /\ b[1][1] <= starts
\* A thread of this process has yet to generate what NewKey makes next.
KeysAreFresh == up => \A b \in Bound, w \in Workers, n \in Nat :
                         b[1] = <<starts, w, n>> => n < uuidGen[w]
DeadIsIdle == ~up => \A w \in Workers : pc[w] = "idle"

BindingInv == HandlerType /\ OneUserPerKey /\ KeysAreOfAStart /\ KeysAreFresh /\ DeadIsIdle

\* A step that puts no key next to a new user keeps what is said of Bound.
LEMMA NothingNewIsBound ==
    ASSUME BindingInv, Bound' \subseteq Bound, starts' = starts, up' => up,
           HandlerType', \A w \in Workers : uuidGen'[w] = uuidGen[w]
    PROVE  OneUserPerKey' /\ KeysAreOfAStart' /\ KeysAreFresh'
<1>1. OneUserPerKey'
  BY DEF BindingInv, OneUserPerKey
<1>2. KeysAreFresh'
  BY DEF BindingInv, KeysAreFresh
<1>3. KeysAreOfAStart'
  BY DEF BindingInv, KeysAreOfAStart
<1> QED
  BY <1>1, <1>2, <1>3

\* What a call leaves of a map has no entry the call did not.
LEMMA LeftIsPart ==
    ASSUME NEW map, NEW left \in LeftOf(map)
    PROVE  DOMAIN left \subseteq DOMAIN map /\ \A k \in DOMAIN left : left[k] = map[k]
BY DEF LeftOf

LEMMA BindingInit == ServerInit => BindingInv
<1> SUFFICES ASSUME ServerInit PROVE BindingInv
  OBVIOUS
<1>1. Bound = {}
  BY DEF ServerInit, Bound, Minting, EmptyMap
<1> QED
  BY <1>1 DEF ServerInit, BindingInv, HandlerType, OneUserPerKey, KeysAreOfAStart, KeysAreFresh, DeadIsIdle

\* Every step keeps BindingInv.
LEMMA BindingStep == BindingInv /\ [ServerNext]_serverVars => BindingInv'
<1> SUFFICES ASSUME BindingInv, [ServerNext]_serverVars PROVE BindingInv'
  OBVIOUS
<1> USE DEF BindingInv
<1>1. CASE StartWithoutKey
  <2>1. Bound' = Bound
    BY <1>1 DEF StartWithoutKey, Bound, Minting
  <2> QED
    BY <1>1, <2>1 DEF StartWithoutKey, HandlerType, OneUserPerKey, KeysAreOfAStart, KeysAreFresh, DeadIsIdle
<1>2. CASE Start
  <2>1. Bound' \subseteq Bound
    BY <1>2 DEF Start, Bound, Minting, EmptyMap, DeadIsIdle
  <2>2. HandlerType' /\ DeadIsIdle' /\ starts' = starts + 1 /\ starts \in Nat
    BY <1>2 DEF Start, HandlerType, DeadIsIdle
  <2>3. \A b \in Bound' : b[1][1] \in Nat /\ b[1][1] <= starts
    BY <2>1 DEF KeysAreOfAStart
  <2>4. KeysAreOfAStart' /\ KeysAreFresh'
    BY <2>2, <2>3 DEF KeysAreOfAStart, KeysAreFresh
  <2>5. OneUserPerKey'
    BY <2>1 DEF OneUserPerKey
  <2> QED
    BY <2>2, <2>4, <2>5
<1>3. CASE Die
  <2>1. Bound' \subseteq Bound
    BY <1>3 DEF Die, Bound, Minting
  <2>2. HandlerType' /\ DeadIsIdle'
    BY <1>3 DEF Die, HandlerType, DeadIsIdle
  <2> QED
    BY <1>3, <2>1, <2>2, NothingNewIsBound DEF Die
<1>4. ASSUME NEW w \in Workers, RefuseBody(w) PROVE BindingInv'
  <2>1. Bound' = Bound
    BY <1>4 DEF RefuseBody, Bound, Minting
  <2>2. HandlerType' /\ DeadIsIdle'
    BY <1>4 DEF RefuseBody, HandlerType, DeadIsIdle
  <2> QED
    BY <1>4, <2>1, <2>2, NothingNewIsBound DEF RefuseBody
<1>5. ASSUME NEW w \in Workers, Upload(w) PROVE BindingInv'
  <2>1. HandlerType' /\ DeadIsIdle'
    BY <1>5 DEF Upload, Goto, HandlerType, DeadIsIdle
  <2>2. Bound' \subseteq Bound
    <3>1. Minting' \subseteq Minting \ {w}
      BY <1>5 DEF Upload, Goto, Minting, HandlerType
    <3>2. \A v \in Workers \ {w} : key'[v] = key[v] /\ uid'[v] = uid[v]
      BY <1>5 DEF Upload, HandlerType
    <3> QED
      BY <1>5, <3>1, <3>2 DEF Upload, Bound, Minting
  <2> QED
    BY <1>5, <2>1, <2>2, NothingNewIsBound DEF Upload
<1>6. ASSUME NEW w \in Workers, Mint(w) PROVE BindingInv'
  <2>1. HandlerType' /\ DeadIsIdle'
    BY <1>6 DEF Mint, Goto, Answered, HandlerType, DeadIsIdle
  <2>2. up
    BY <1>6 DEF Mint, DeadIsIdle
  <2>3. \A v \in Workers \ {w} : key'[v] = key[v] /\ uid'[v] = uid[v] /\ pc'[v] = pc[v]
    BY <1>6 DEF Mint, Goto, Answered, HandlerType
  <2>4. w \notin Minting
    BY <1>6 DEF Mint, Minting
  <2>5. Bound' \subseteq Bound \cup {<<NewKey(w), uid[w]>>}
    <3>1. w \in Minting' => key'[w] = NewKey(w) /\ uid'[w] = uid[w]
      BY <1>6 DEF Mint, Goto, Answered, Minting, HandlerType
    <3>2. \A v \in Minting' : v = w \/ v \in Minting
      BY <2>3 DEF Minting
    <3> QED
      BY <1>6, <2>3, <3>1, <3>2 DEF Mint, Bound, Minting
  <2>6. uuidGen[w] \in Nat /\ uuidGen' = [uuidGen EXCEPT ![w] = uuidGen[w] + 1]
    BY <1>6 DEF Mint, HandlerType
  <2>7. \A b \in Bound : b[1] # NewKey(w)
    BY <2>2, <2>6 DEF KeysAreFresh, NewKey
  <2>8. OneUserPerKey'
    BY <2>5, <2>7 DEF OneUserPerKey
  <2>9. KeysAreFresh'
    <3> SUFFICES ASSUME NEW b \in Bound', NEW v \in Workers, NEW n \in Nat, b[1] = <<starts, v, n>>
                 PROVE  n < uuidGen'[v]
      BY <1>6 DEF KeysAreFresh, Mint
    <3>1. uuidGen[v] \in Nat /\ uuidGen'[v] >= uuidGen[v] /\ (v = w => uuidGen'[v] = uuidGen[v] + 1)
      BY <2>6 DEF HandlerType
    <3>2. CASE b \in Bound
      <4>1. n < uuidGen[v]
        BY <2>2, <3>2 DEF KeysAreFresh
      <4> QED
        BY <2>6, <3>1, <4>1 DEF HandlerType
    <3>3. CASE b = <<NewKey(w), uid[w]>>
      BY <3>1, <3>3 DEF NewKey
    <3> QED
      BY <2>5, <3>2, <3>3
  <2>10. KeysAreOfAStart'
    <3>1. starts' = starts /\ starts \in Nat /\ NewKey(w)[1] = starts
      BY <1>6 DEF Mint, HandlerType, NewKey
    <3> QED
      BY <2>5, <3>1 DEF KeysAreOfAStart
  <2> QED
    BY <2>1, <2>8, <2>9, <2>10
<1>7. ASSUME NEW w \in Workers, EmplaceSession(w) PROVE BindingInv'
  <2>1. \/ uploadSessions' \in LeftOf(TryEmplace(uploadSessions, key[w], uid[w]))
        \/ uploadSessions' = uploadSessions
    BY <1>7 DEF EmplaceSession
  <2>2. HandlerType' /\ DeadIsIdle'
    BY <1>7 DEF EmplaceSession, Goto, Answered, HandlerType, DeadIsIdle
  <2>3. \A v \in Workers \ {w} : key'[v] = key[v] /\ uid'[v] = uid[v] /\ pc'[v] = pc[v]
    BY <1>7 DEF EmplaceSession, Goto, Answered, HandlerType
  <2>4. w \in Minting /\ (w \in Minting' => key'[w] = key[w] /\ uid'[w] = uid[w])
    BY <1>7 DEF EmplaceSession, Goto, Answered, Minting, HandlerType
  <2>5. \A k \in DOMAIN uploadSessions' : <<k, uploadSessions'[k]>> \in Bound
    <3>1. <<key[w], uid[w]>> \in Bound
      BY <2>4 DEF Bound
    <3>2. \A k \in DOMAIN uploadSessions : <<k, uploadSessions[k]>> \in Bound
      BY DEF Bound
    <3> DEFINE map == TryEmplace(uploadSessions, key[w], uid[w])
    <3>3. \A k \in DOMAIN map : <<k, map[k]>> \in Bound
      BY <3>1, <3>2 DEF TryEmplace
    <3> HIDE DEF map
    <3>4. CASE uploadSessions' \in LeftOf(map)
      BY <3>3, <3>4, LeftIsPart
    <3> QED
      BY <2>1, <3>2, <3>4 DEF map
  <2>6. Bound' \subseteq Bound
    <3>1. \A v \in Minting' : <<key'[v], uid'[v]>> \in Bound
      BY <2>3, <2>4 DEF Bound, Minting
    <3>2. announced' = announced /\ puts' = puts
      BY <1>7 DEF EmplaceSession
    <3> QED
      BY <2>5, <3>1, <3>2 DEF Bound
  <2> QED
    BY <1>7, <2>2, <2>6, NothingNewIsBound DEF EmplaceSession
<1>8. ASSUME NEW w \in Workers, EmplaceObject(w) PROVE BindingInv'
  <2>1. HandlerType' /\ DeadIsIdle'
    BY <1>8 DEF EmplaceObject, Goto, Answered, HandlerType, DeadIsIdle
  <2>2. <<key[w], uid[w]>> \in Bound
    BY <1>8 DEF EmplaceObject, Bound, Minting
  <2>3. \A v \in Minting' : v \in Minting /\ key'[v] = key[v] /\ uid'[v] = uid[v]
    BY <1>8 DEF EmplaceObject, Goto, Answered, Minting, HandlerType
  <2>4. Bound' \subseteq Bound
    BY <1>8, <2>2, <2>3 DEF EmplaceObject, Bound
  <2> QED
    BY <1>8, <2>1, <2>4, NothingNewIsBound DEF EmplaceObject
<1>9. ASSUME NEW w \in Workers, Chunk(w) PROVE BindingInv'
  <2>1. HandlerType' /\ DeadIsIdle'
    BY <1>9 DEF Chunk, Goto, HandlerType, DeadIsIdle
  <2>2. \A v \in Minting' : v \in Minting /\ key'[v] = key[v] /\ uid'[v] = uid[v]
    BY <1>9 DEF Chunk, Goto, Minting, HandlerType
  <2>3. Bound' \subseteq Bound
    BY <1>9, <2>2 DEF Chunk, Bound
  <2> QED
    BY <1>9, <2>1, <2>3, NothingNewIsBound DEF Chunk
<1>10. ASSUME NEW w \in Workers, FindSession(w) PROVE BindingInv'
  <2>1. HandlerType' /\ DeadIsIdle'
    BY <1>10 DEF FindSession, Goto, Answered, HandlerType, DeadIsIdle
  <2>2. \A v \in Workers \ {w} : key'[v] = key[v] /\ uid'[v] = uid[v] /\ pc'[v] = pc[v]
    BY <1>10 DEF FindSession, Goto, Answered, HandlerType
  <2>3. w \in Minting' => key[w] \in DOMAIN uploadSessions /\ key'[w] = key[w] /\ uid'[w] = uploadSessions[key[w]]
    BY <1>10 DEF FindSession, Goto, Answered, Minting, HandlerType
  <2>4. \A v \in Minting' : <<key'[v], uid'[v]>> \in Bound
    BY <2>2, <2>3 DEF Minting, Bound
  <2>5. Bound' \subseteq Bound
    BY <1>10, <2>4 DEF FindSession, Bound
  <2> QED
    BY <1>10, <2>1, <2>5, NothingNewIsBound DEF FindSession
<1>11. ASSUME NEW w \in Workers, FindObject(w) PROVE BindingInv'
  <2>1. HandlerType' /\ DeadIsIdle'
    BY <1>11 DEF FindObject, PutObject, Goto, Answered, HandlerType, DeadIsIdle
  <2>2. <<key[w], uid[w]>> \in Bound
    BY <1>11 DEF FindObject, Bound, Minting
  <2>3. \A v \in Minting' : v \in Minting /\ key'[v] = key[v] /\ uid'[v] = uid[v]
    BY <1>11 DEF FindObject, Goto, Answered, Minting, HandlerType
  <2>4. Bound' \subseteq Bound
    BY <1>11, <2>2, <2>3 DEF FindObject, PutObject, Bound
  <2> QED
    BY <1>11, <2>1, <2>4, NothingNewIsBound DEF FindObject
<1>13. ASSUME NEW w \in Workers, NeverReturns(w) PROVE BindingInv'
  <2>1. HandlerType' /\ DeadIsIdle'
    BY <1>13 DEF NeverReturns, Goto, HandlerType, DeadIsIdle
  <2>2. Bound' \subseteq Bound
    BY <1>13 DEF NeverReturns, Goto, Bound, Minting, HandlerType
  <2> QED
    BY <1>13, <2>1, <2>2, NothingNewIsBound DEF NeverReturns
<1>12. CASE UNCHANGED serverVars
  <2>1. Bound' = Bound
    BY <1>12 DEF serverVars, Bound, Minting
  <2> QED
    BY <1>12, <2>1 DEF serverVars, HandlerType, OneUserPerKey, KeysAreOfAStart, KeysAreFresh, DeadIsIdle
<1> QED
  BY <1>1, <1>2, <1>3, <1>4, <1>5, <1>6, <1>7, <1>8, <1>9, <1>10, <1>11, <1>12, <1>13 DEF ServerNext, Handle

LEMMA BindingHolds == ServerSpec => []BindingInv
BY BindingInit, BindingStep, PTL DEF ServerSpec

\* ChunksGoToTheMinter: whatever races and crashes there are, the user handed to PutObject
\* with a session is the one its key was made for.
THEOREM UploadChunksGoToTheMinter == ServerSpec => []ChunksGoToTheMinter
<1>1. BindingInv => ChunksGoToTheMinter
  BY DEF BindingInv, OneUserPerKey, Bound, ChunksGoToTheMinter
<1> QED
  BY <1>1, BindingHolds, PTL

-----------------------------------------------------------------------------
\* What the step to come stores is in place while nothing has raced: a handler that has
\* left the first map finds its session there, and object ids are those of their keys.
IdsAreOfKeys == \A k \in DOMAIN sessionObjects : sessionObjects[k] = MakeObjectId(k)
HalfStored == up /\ ~raced =>
                \A w \in Workers : pc[w] = "emplaceObject" =>
                  key[w] \in DOMAIN uploadSessions /\ uploadSessions[key[w]] = uid[w]
StoredInv == IdsAreOfKeys /\ HalfStored /\ ToldIsStored

LEMMA StoredInit == ServerInit => StoredInv
BY DEF ServerInit, StoredInv, IdsAreOfKeys, HalfStored, ToldIsStored, EmptyMap

\* Every step keeps StoredInv.
LEMMA StoredStep == BindingInv /\ StoredInv /\ [ServerNext]_serverVars => StoredInv'
<1> SUFFICES ASSUME BindingInv, StoredInv, [ServerNext]_serverVars PROVE StoredInv'
  OBVIOUS
<1> USE DEF StoredInv
<1>0. HandlerType /\ DeadIsIdle
  BY DEF BindingInv
<1>1. CASE StartWithoutKey
  BY <1>1 DEF StartWithoutKey, IdsAreOfKeys, HalfStored, ToldIsStored, MakeObjectId
<1>2. CASE Start
  <2>1. starts \in Nat /\ starts' = starts + 1
    BY <1>0, <1>2 DEF Start, HandlerType
  <2>2. \A told \in announced' : told[1][1] # starts'
    <3>1. \A told \in announced : told[1][1] \in Nat /\ told[1][1] <= starts
      BY DEF BindingInv, KeysAreOfAStart, Bound
    <3> QED
      BY <1>2, <2>1, <3>1 DEF Start
  <2>3. ToldIsStored'
    BY <2>2 DEF ToldIsStored
  <2> QED
    BY <1>0, <1>2, <2>3 DEF Start, DeadIsIdle, IdsAreOfKeys, HalfStored, EmptyMap
<1>3. CASE Die
  BY <1>3 DEF Die, IdsAreOfKeys, HalfStored, ToldIsStored, MakeObjectId
<1>4. ASSUME NEW w \in Workers,
             \/ RefuseBody(w) \/ Upload(w) \/ Mint(w) \/ Chunk(w) \/ FindSession(w) \/ FindObject(w)
             \/ NeverReturns(w)
      PROVE  StoredInv'
  <2>1. /\ uploadSessions' = uploadSessions /\ sessionObjects' = sessionObjects
        /\ announced' = announced /\ up' = up /\ starts' = starts
    BY <1>4 DEF RefuseBody, Upload, Mint, Chunk, FindSession, FindObject, NeverReturns
  <2>0. raced => raced'
    BY <1>4, Zenon DEF RefuseBody, Upload, Mint, Chunk, FindSession, FindObject, NeverReturns, EnterToRead, EnterToWrite
  <2>2. \A v \in Workers : pc'[v] = "emplaceObject" =>
                             pc[v] = "emplaceObject" /\ key'[v] = key[v] /\ uid'[v] = uid[v]
    BY <1>0, <1>4 DEF RefuseBody, Upload, Mint, Chunk, FindSession, FindObject, NeverReturns, Goto, Answered, HandlerType
  <2>3. HalfStored'
    BY <2>0, <2>1, <2>2 DEF HalfStored
  <2> QED
    BY <2>0, <2>1, <2>3 DEF IdsAreOfKeys, ToldIsStored, MakeObjectId
<1>5. ASSUME NEW w \in Workers, EmplaceSession(w) PROVE StoredInv'
  <2>1. sessionObjects' = sessionObjects /\ announced' = announced /\ up' = up /\ starts' = starts
    BY <1>5 DEF EmplaceSession
  <2>0. raced => raced'
    BY <1>5, Zenon DEF EmplaceSession, EnterToWrite
  <2>2. ~raced => \A k \in DOMAIN uploadSessions :
          k \in DOMAIN uploadSessions' /\ uploadSessions'[k] = uploadSessions[k]
    BY <1>5 DEF EmplaceSession, LeftOf, TryEmplace
  <2>3. ~raced /\ pc'[w] = "emplaceObject" => uploadSessions' = TryEmplace(uploadSessions, key[w], uid[w])
    BY <1>0, <1>5 DEF EmplaceSession, LeftOf, Goto, Answered, HandlerType
  <2>4. key[w] \in DOMAIN uploadSessions => uploadSessions[key[w]] = uid[w]
    <3>1. <<key[w], uid[w]>> \in Bound
      BY <1>5 DEF EmplaceSession, Bound, Minting
    <3> QED
      BY <3>1 DEF BindingInv, OneUserPerKey, Bound
  <2>5. ~raced /\ pc'[w] = "emplaceObject" =>
          /\ key'[w] \in DOMAIN uploadSessions' /\ uploadSessions'[key'[w]] = uid'[w]
    BY <1>0, <1>5, <2>3, <2>4 DEF EmplaceSession, Goto, Answered, TryEmplace, HandlerType
  <2>6. \A v \in Workers \ {w} : pc'[v] = pc[v] /\ key'[v] = key[v] /\ uid'[v] = uid[v]
    BY <1>0, <1>5 DEF EmplaceSession, Goto, Answered, HandlerType
  <2>7. HalfStored'
    BY <2>0, <2>1, <2>2, <2>5, <2>6 DEF HalfStored
  <2>8. ToldIsStored'
    BY <2>0, <2>1, <2>2 DEF ToldIsStored, MakeObjectId
  <2> QED
    BY <2>1, <2>7, <2>8 DEF IdsAreOfKeys, MakeObjectId
<1>6. ASSUME NEW w \in Workers, EmplaceObject(w) PROVE StoredInv'
  <2>1. uploadSessions' = uploadSessions /\ up' = up /\ raced' = raced /\ starts' = starts
    BY <1>6 DEF EmplaceObject
  <2> DEFINE whole == TryEmplace(sessionObjects, key[w], MakeObjectId(key[w]))
  <2>2. \/ sessionObjects' \in LeftOf(whole)
        \/ sessionObjects' = sessionObjects
    BY <1>6 DEF EmplaceObject
  <2>3. IdsAreOfKeys'
    <3>1. \A k \in DOMAIN whole : whole[k] = MakeObjectId(k)
      BY DEF IdsAreOfKeys, TryEmplace
    <3> HIDE DEF whole
    <3>2. CASE sessionObjects' \in LeftOf(whole)
      BY <3>1, <3>2, LeftIsPart DEF IdsAreOfKeys, MakeObjectId
    <3>3. CASE sessionObjects' = sessionObjects
      BY <3>3 DEF IdsAreOfKeys, MakeObjectId
    <3> QED
      BY <2>2, <3>2, <3>3
  <2>4. HalfStored'
    BY <1>0, <1>6, <2>1 DEF EmplaceObject, Goto, Answered, HalfStored, HandlerType
  <2>7. ~raced => DOMAIN sessionObjects \subseteq DOMAIN sessionObjects'
    BY <2>2 DEF LeftOf, TryEmplace
  <2>5. ASSUME up', ~raced', NEW told \in announced', told[1][1] = starts
        PROVE  /\ told[1] \in DOMAIN uploadSessions' /\ uploadSessions'[told[1]] = told[2]
               /\ told[1] \in DOMAIN sessionObjects'
    <3>1. CASE told \in announced
      BY <2>1, <2>5, <2>7, <3>1 DEF ToldIsStored
    <3>2. CASE told \notin announced
      <4>1. told = <<key[w], uid[w]>> /\ key[w] \in DOMAIN sessionObjects'
        BY <1>6, <2>1, <2>5, <3>2 DEF EmplaceObject, LeftOf, TryEmplace
      <4>2. key[w] \in DOMAIN uploadSessions /\ uploadSessions[key[w]] = uid[w]
        BY <1>6, <2>1, <2>5 DEF EmplaceObject, HalfStored
      <4> QED
        BY <2>1, <4>1, <4>2
    <3> QED
      BY <3>1, <3>2
  <2>6. ToldIsStored'
    BY <2>1, <2>3, <2>5 DEF ToldIsStored, IdsAreOfKeys, MakeObjectId
  <2> QED
    BY <2>3, <2>4, <2>6
<1>7. CASE UNCHANGED serverVars
  BY <1>7 DEF serverVars, IdsAreOfKeys, HalfStored, ToldIsStored, MakeObjectId
<1> QED
  BY <1>1, <1>2, <1>3, <1>4, <1>5, <1>6, <1>7 DEF ServerNext, Handle

\* ToldIsStored: while no two threads have met in a map, a session the process told is in both
\* maps, with the user and the object id it was minted with, whatever failed or crashed.
THEOREM UploadToldIsStored == ServerSpec => []ToldIsStored
<1>1. StoredInv => ToldIsStored
  BY DEF StoredInv
<1> QED
  BY <1>1, BindingHolds, StoredInit, StoredStep, PTL DEF ServerSpec
=============================================================================
