---------------------------- MODULE UploadServer ----------------------------
(***************************************************************************)
(* cmd/main.cpp of the object store: /upload mints a session, and          *)
(* /upload/<key>/chunk sends data to one.  Crow runs the handlers on       *)
(* several threads, and both change two unordered_maps without a lock: a   *)
(* thread enters a map, and takes effect on it when it leaves.             *)
(*                                                                         *)
(* Two threads inside one map, one of them writing, are a data race.  From *)
(* then on any call may lose entries, its own or others', miss one that is *)
(* there, or go round a chain for ever, and the process may die: what a    *)
(* chained hash table does when its buckets move under it.  A node is      *)
(* linked only when it is complete, and nothing is ever erased: a key      *)
(* keeps its value, and an iterator its node.                              *)
(* A process that dies loses both maps (they are to become a database);    *)
(* its clients keep the keys they were told.                               *)
(***************************************************************************)
EXTENDS Integers, FiniteSets

CONSTANTS Workers,      \* Crow's threads
          Uids,         \* users
          NoUid,        \* a request without a user in hand
          MaxRequests,  \* bound: requests received in all
          MaxStarts     \* bound: starts of the process

ASSUME UploadAssumption == /\ Workers # {} /\ IsFiniteSet(Workers) /\ NoUid \notin Uids
                           /\ MaxRequests \in Nat /\ MaxStarts \in Nat \ {0}

VARIABLES
    up,              \* whether app.run() is serving
    rootDir,         \* whether the directory "data" exists
    uploadSessions,  \* session key -> uid
    sessionObjects,  \* session key -> object id
    uuidGen,         \* thread -> the uuids it has generated
    pc,              \* thread -> where its handler is
    uid,             \* thread -> the user of the request or of the session in hand
    key,             \* thread -> the session key of the request in hand
    raced,           \* whether two threads have raced on a map since the start
    announced,       \* <<key, uid>> of every 200 of /upload, of this process or an earlier one
    puts,            \* <<key, uid>> of every PutObject, likewise
    requests, starts \* counters, for the bounds

serverVars == <<up, rootDir, uploadSessions, sessionObjects, uuidGen, pc, uid, key, raced,
                announced, puts, requests, starts>>

NoKey == <<>>

\* Mutant: one generator for all threads, which two of them read at once.
SharedKey(w) == <<starts, Cardinality(DOMAIN uploadSessions)>>
\* time_generator_v7 is thread_local: its state is the thread's own.
NewKey(w) == <<starts, w, uuidGen[w]>>

\* make_object_id: a keyed digest of the uuid, distinct for distinct sessions.
MakeObjectId(k) == [object |-> k]

EmptyMap == [k \in {} |-> NoUid]
\* try_emplace: an entry already there stays.
TryEmplace(map, k, v) == [j \in DOMAIN map \cup {k} |-> IF j \in DOMAIN map THEN map[j] ELSE v]

Writers(map) == {w \in Workers : pc[w] = IF map = "sessions" THEN "emplaceSession"
                                                             ELSE "emplaceObject"}
Readers(map) == {w \in Workers : pc[w] = IF map = "sessions" THEN "findSession"
                                                             ELSE "findObject"}

\* What a call leaves of a map it was to turn into this one.
LeftOf(map) == {map} \cup IF raced THEN {[k \in kept |-> map[k]] : kept \in SUBSET DOMAIN map} ELSE {}

\* Thread w enters a map, to write or to read, and races with whoever is in it.
EnterToWrite(map) == raced' = (raced \/ Writers(map) \cup Readers(map) # {})
EnterToRead(map)  == raced' = (raced \/ Writers(map) # {})

Goto(w, label) == pc' = [pc EXCEPT ![w] = label]
Answered(w) == /\ Goto(w, "idle")
               /\ uid' = [uid EXCEPT ![w] = NoUid]
               /\ key' = [key EXCEPT ![w] = NoKey]

-----------------------------------------------------------------------------
(* main *)

\* LoadServerKey throws on a missing or malformed key, and main ends there.
StartWithoutKey == /\ ~up /\ starts < MaxStarts
                   /\ starts' = starts + 1
                   /\ UNCHANGED <<up, rootDir, uploadSessions, sessionObjects, uuidGen, pc, uid, key,
                                  raced, announced, puts, requests>>

\* It makes the directory, finds it there, or fails and says it did not.
CreateRootDir == rootDir' \in {rootDir, TRUE}

\* The maps are empty; main goes on whatever became of the directory.
Start == /\ ~up /\ starts < MaxStarts
         /\ up' = TRUE
         /\ starts' = starts + 1
         /\ CreateRootDir
         /\ uploadSessions' = EmptyMap /\ sessionObjects' = EmptyMap
         /\ uuidGen' = [w \in Workers |-> 0]
         /\ raced' = FALSE
         /\ UNCHANGED <<pc, uid, key, announced, puts, requests>>

\* A crash, of a race or of anything else: the handlers in progress never answer.
Die == /\ up
       /\ up' = FALSE
       /\ pc' = [w \in Workers |-> "idle"]
       /\ uid' = [w \in Workers |-> NoUid]
       /\ key' = [w \in Workers |-> NoKey]
       /\ UNCHANGED <<rootDir, uploadSessions, sessionObjects, uuidGen, raced, announced,
                      puts, requests, starts>>

-----------------------------------------------------------------------------
(* POST /upload *)

\* A body that is no JSON is answered 400 at once; one without a uid throws, 500.  So does a
\* chunk whose body cannot be copied.
RefuseBody(w) == /\ up /\ pc[w] = "idle" /\ requests < MaxRequests
                 /\ requests' = requests + 1
                 /\ UNCHANGED <<up, rootDir, uploadSessions, sessionObjects, uuidGen, pc, uid, key,
                                raced, announced, puts, starts>>

Upload(w) == /\ up /\ pc[w] = "idle" /\ requests < MaxRequests
             /\ requests' = requests + 1
             /\ \E user \in Uids : uid' = [uid EXCEPT ![w] = user]
             /\ Goto(w, "mint")
             /\ UNCHANGED <<up, rootDir, uploadSessions, sessionObjects, uuidGen, key, raced,
                            announced, puts, starts>>

\* The uuid and the object id; a digest that cannot be computed throws, 500.
Mint(w) == /\ pc[w] = "mint"
           /\ uuidGen' = [uuidGen EXCEPT ![w] = @ + 1]
           /\ \/ /\ key' = [key EXCEPT ![w] = NewKey(w)]
                 /\ EnterToWrite("sessions")
                 /\ Goto(w, "emplaceSession")
                 /\ UNCHANGED uid
              \/ Answered(w) /\ UNCHANGED raced
           /\ UNCHANGED <<up, rootDir, uploadSessions, sessionObjects, announced, puts,
                          requests, starts>>

EmplaceSession(w) ==
    /\ pc[w] = "emplaceSession"
    /\ \/ /\ uploadSessions' \in LeftOf(TryEmplace(uploadSessions, key[w], uid[w]))
          /\ EnterToWrite("objects")
          /\ Goto(w, "emplaceObject")
          /\ UNCHANGED <<uid, key>>
       \/ /\ Answered(w)      \* bad_alloc: 500
          /\ UNCHANGED <<uploadSessions, raced>>
    /\ UNCHANGED <<up, rootDir, sessionObjects, uuidGen, announced, puts, requests, starts>>

\* Mutant: the answer leaves, and the object id is not stored.
AnswerFirst(w) ==
    /\ pc[w] = "emplaceObject"
    /\ announced' = announced \cup {<<key[w], uid[w]>>}
    /\ Answered(w)
    /\ UNCHANGED <<up, rootDir, uploadSessions, sessionObjects, uuidGen, raced, puts, requests, starts>>

EmplaceObject(w) ==
    /\ pc[w] = "emplaceObject"
    /\ \/ /\ sessionObjects' \in LeftOf(TryEmplace(sessionObjects, key[w], MakeObjectId(key[w])))
          /\ announced' = announced \cup {<<key[w], uid[w]>>}
       \/ UNCHANGED <<sessionObjects, announced>>     \* bad_alloc: 500
    /\ Answered(w)
    /\ UNCHANGED <<up, rootDir, uploadSessions, uuidGen, raced, puts, requests, starts>>

-----------------------------------------------------------------------------
(* POST /upload/<key>/chunk, with a key some 200 has told, or any other *)

Chunk(w) == /\ up /\ pc[w] = "idle" /\ requests < MaxRequests
            /\ requests' = requests + 1
            /\ \E k \in {told[1] : told \in announced} \cup {<<0>>} :
                 key' = [key EXCEPT ![w] = k]
            /\ EnterToRead("sessions")
            /\ Goto(w, "findSession")
            /\ UNCHANGED <<up, rootDir, uploadSessions, sessionObjects, uuidGen, uid, announced,
                           puts, starts>>

\* It points to the session's node from here on.
FindSession(w) ==
    /\ pc[w] = "findSession"
    /\ \/ /\ key[w] \in DOMAIN uploadSessions
          /\ uid' = [uid EXCEPT ![w] = uploadSessions[key[w]]]
          /\ EnterToRead("objects")
          /\ Goto(w, "findObject")
          /\ UNCHANGED key
       \/ /\ key[w] \notin DOMAIN uploadSessions \/ raced     \* 400
          /\ Answered(w)
          /\ UNCHANGED raced
    /\ UNCHANGED <<up, rootDir, uploadSessions, sessionObjects, uuidGen, announced, puts,
                   requests, starts>>

\* It returns function_not_supported, so far.
PutObject(k, user) == puts' = puts \cup {<<k, user>>}

\* The object id is only logged; PutObject gets the session's user, and whatever it
\* returns the answer is 200, unless there is no memory for its copy of the data.
FindObject(w) ==
    /\ pc[w] = "findObject"
    /\ PutObject(key[w], uid[w]) \/ UNCHANGED puts
    /\ Answered(w)
    /\ UNCHANGED <<up, rootDir, uploadSessions, sessionObjects, uuidGen, raced, announced,
                   requests, starts>>

\* After a race, a call on a map may follow a chain that has become a cycle.
NeverReturns(w) ==
    /\ raced /\ pc[w] \in {"emplaceSession", "emplaceObject", "findSession", "findObject"}
    /\ Goto(w, "stuck")
    /\ UNCHANGED <<up, rootDir, uploadSessions, sessionObjects, uuidGen, uid, key, raced, announced,
                   puts, requests, starts>>

-----------------------------------------------------------------------------
ServerInit == /\ up = FALSE /\ rootDir \in BOOLEAN
              /\ uploadSessions = EmptyMap /\ sessionObjects = EmptyMap
              /\ uuidGen = [w \in Workers |-> 0]
              /\ pc = [w \in Workers |-> "idle"]
              /\ uid = [w \in Workers |-> NoUid]
              /\ key = [w \in Workers |-> NoKey]
              /\ raced = FALSE /\ announced = {} /\ puts = {}
              /\ requests = 0 /\ starts = 0

Handle(w) == Mint(w) \/ EmplaceSession(w) \/ EmplaceObject(w) \/ FindSession(w) \/ FindObject(w)
             \/ NeverReturns(w)

ServerNext == \/ Start \/ StartWithoutKey \/ Die
              \/ \E w \in Workers : Upload(w) \/ RefuseBody(w) \/ Chunk(w) \/ Handle(w)

ServerSpec == ServerInit /\ [][ServerNext]_serverVars

\* /upload and /chunk over threads, races, crashes and clients of an earlier process: the user
\* PutObject is given for a session is the one whose request minted it, and no session is told
\* to two users.
ChunksGoToTheMinter ==
    \A told, put \in announced \cup puts : told[1] = put[1] => told[2] = put[2]

\* "stored at mint time": while no two threads have met in a map, a session that this process
\* has told is in both maps, with the user and the object id it was minted with.
ToldIsStored ==
    up /\ ~raced =>
      \A told \in announced : told[1][1] = starts =>
        /\ told[1] \in DOMAIN uploadSessions /\ uploadSessions[told[1]] = told[2]
        /\ told[1] \in DOMAIN sessionObjects
        /\ sessionObjects[told[1]] = MakeObjectId(told[1])
=============================================================================
