------------------------- MODULE TpmResourceManager -------------------------
(***************************************************************************)
(* trunks/resource_manager.cc: trunksd gives its clients virtual handles   *)
(* for the few transient objects a TPM can hold, tracks the sessions they  *)
(* start, and saves, flushes and reloads both when the TPM runs short.     *)
(*                                                                         *)
(* Commands are synchronous, so that each is one action, with all the      *)
(* ContextSave, ContextLoad and FlushContext commands it leads to.  The    *)
(* methods are operators on the record m of the members and of the TPM     *)
(* behind them; a method that sends commands yields [m, rc].  The TPM is   *)
(* external and follows the TPM 2.0 specification: it answers with a       *)
(* warning when and only when it is short of something, and with an error  *)
(* only when it does not know a handle or a context.                       *)
(*                                                                         *)
(* An object is what it is and a version: 0 for a key and, for a sequence  *)
(* object, one more than its updates.  Its context is a copy of it.  The   *)
(* context of a session is the session's number, and the TPM accepts it    *)
(* while that session is saved.                                            *)
(***************************************************************************)
EXTENDS Integers, Sequences, FiniteSets

CONSTANTS
    Senders,         \* sender ids
    ObjectSlots,     \* transient objects that the TPM can hold
    SessionSlots,    \* bound on the sessions that it can hold loaded
    SessionHandles,  \* sessions, loaded or saved, that it can track
    MaxGap,          \* saves it allows since that of the oldest saved session
    MaxVirtual,      \* number of virtual handles
    Objects,         \* the objects that clients create, which bounds those alive
    MaxSessions,     \* bound on the sessions started
    MaxVersion       \* bound on the version of a sequence object

None == 0

\* At most two handles are named by a command, CreateVirtualHandle() would not
\* return if all handles were taken, and saving all sessions once must be
\* possible (real TPMs allow 255 saves or more).
ASSUME TpmAssumption ==
    /\ ObjectSlots \in Nat /\ ObjectSlots > 1
    /\ SessionSlots \in Nat /\ SessionSlots > 0
    /\ SessionHandles \in Nat /\ SessionHandles >= SessionSlots
    /\ MaxGap \in Nat /\ MaxGap >= SessionHandles
    /\ IsFiniteSet(Objects) /\ None \notin Objects
    /\ MaxVirtual \in Nat /\ MaxVirtual > Cardinality(Objects)
    /\ MaxSessions \in Nat /\ MaxVersion \in Nat

VARIABLES
    m,        \* the ResourceManager and the TPM
    given,    \* history: the object behind each virtual handle clients hold
    held,     \* history: the session behind each session handle they hold
    started,  \* number of sessions started so far
    last      \* what came of the last command

vars == <<m, given, held, started, last>>

Content == [obj : Objects, ver : 0..MaxVersion]
NoContent == [obj |-> None, ver |-> 0]
MaybeContent == Content \cup {NoContent}
Slots == 1..ObjectSlots
Handles == 1..SessionHandles
Virtual == 1..MaxVirtual
SessionKeys == Handles \X Senders
Warnings == {"CONTEXT_GAP", "OBJECT_MEMORY", "SESSION_MEMORY", "MEMORY", "SESSION_HANDLES"}

\* The maps of the manager are functions; No... stands for a missing entry.
HandleInfo == [tpm : Slots, ctx : MaybeContent, sender : Senders]
NoInfo == [tpm |-> None, ctx |-> NoContent, sender |-> None]
ObjectInfo == [v : Virtual, info : HandleInfo]
SessionInfo == [loaded : BOOLEAN, ctx : 0..MaxSessions, created : 1..MaxSessions]
NoSessionInfo == [loaded |-> FALSE, ctx |-> None, created |-> 0]
TpmSession == [sid : 0..MaxSessions, loaded : BOOLEAN, age : 0..(MaxGap + 1)]
NoSession == [sid |-> None, loaded |-> FALSE, age |-> 0]

Managers ==
    [room : 1..SessionSlots,                                      \* sessions the TPM holds loaded
     objs : [Slots -> MaybeContent],                              \* the TPM's objects
     ses : [Handles -> TpmSession],                               \* the TPM's sessions
     unloaded : [Virtual -> HandleInfo \cup {NoInfo}],            \* unloaded_object_infos_
     loaded : Seq(ObjectInfo),                                    \* loaded_object_infos_
     t2v : [Slots -> Virtual \cup {None}],                        \* tpm_to_virtual_handle_
     sessions : [SessionKeys -> SessionInfo \cup {NoSessionInfo}],\* session_handles_
     lru : Seq(SessionKeys),                                      \* and their order of last use
     cache : [Virtual -> Objects \cup {None}],                    \* public_area_cache_
     next : Virtual,                                              \* next_virtual_handle_
     seen : SUBSET Warnings,                                      \* warnings_already_seen_
     suspended : BOOLEAN,
     lost : BOOLEAN]         \* history: a sleep cost the TPM what the manager takes for loaded

Elements(s) == {s[i] : i \in DOMAIN s}
Distinct(s) == \A i, j \in DOMAIN s : s[i] = s[j] => i = j
Tracked(k) == {key \in SessionKeys : k.sessions[key] # NoSessionInfo}
Given == {v \in Virtual : given[v] # NoContent}

TypeOK ==
    /\ m \in Managers
    /\ m.seen = {}
    /\ Elements(m.lru) = Tracked(m) /\ Distinct(m.lru)
    /\ given \in [Virtual -> MaybeContent]
    /\ held \in [SessionKeys -> 0..MaxSessions]
    /\ started \in 0..MaxSessions

AsExpected == [objects |-> TRUE, sessions |-> TRUE, right |-> TRUE, latest |-> TRUE]

\* Initialize() has flushed whatever the TPM held.
Init ==
    /\ \E n \in 1..SessionSlots :
         m = [room |-> n,
              objs |-> [t \in Slots |-> NoContent],
              ses |-> [h \in Handles |-> NoSession],
              unloaded |-> [v \in Virtual |-> NoInfo],
              loaded |-> <<>>,
              t2v |-> [t \in Slots |-> None],
              sessions |-> [key \in SessionKeys |-> NoSessionInfo],
              lru |-> <<>>,
              cache |-> [v \in Virtual |-> None],
              next |-> 1,
              seen |-> {},
              suspended |-> FALSE,
              lost |-> FALSE]
    /\ given = [v \in Virtual |-> NoContent]
    /\ held = [key \in SessionKeys |-> None]
    /\ started = 0 /\ last = AsExpected

-----------------------------------------------------------------------------
(***************************************************************************)
(* Helpers.                                                                *)
(***************************************************************************)

Least(S) == CHOOSE x \in S : \A y \in S : x <= y

RemoveAt(s, i) == [j \in 1..(Len(s) - 1) |-> IF j < i THEN s[j] ELSE s[j + 1]]

\* The last index is n: turn gives what is there after each turn of a loop from
\* what was there before it and from its number.
Loop(turn, x, n) ==
    LET y[i \in 0..n] == IF i = 0 THEN x ELSE turn[<<y[i - 1], i>>]
    IN  y[n]

-----------------------------------------------------------------------------
(***************************************************************************)
(* The TPM.                                                                *)
(***************************************************************************)

FreeSlots(k) == {t \in Slots : k.objs[t] = NoContent}
LoadedSessions(k) == {h \in Handles : k.ses[h].sid # None /\ k.ses[h].loaded}
SavedSessions(k) == {h \in Handles : k.ses[h].sid # None /\ ~k.ses[h].loaded}
FreeHandles(k) == {h \in Handles : k.ses[h].sid = None}
AtGap(k) == \E h \in SavedSessions(k) : k.ses[h].age >= MaxGap
OldestSaved(k, h) == \A g \in SavedSessions(k) : k.ses[g].age <= k.ses[h].age

\* general: the TPM has one memory for everything and says so.
Short(what, general) == IF general THEN "MEMORY" ELSE what

TpmLoadObject(k, ctx, general) ==
    IF ctx = NoContent THEN [m |-> k, rc |-> "error"]
    ELSE IF FreeSlots(k) = {} THEN [m |-> k, rc |-> Short("OBJECT_MEMORY", general)]
    ELSE LET t == Least(FreeSlots(k))
         IN  [m |-> [k EXCEPT !.objs[t] = ctx], rc |-> "ok", slot |-> t]

TpmFlushSession(k, h) == [k EXCEPT !.ses[h] = NoSession]

\* A session was saved, and the others saved before are one save older.
Saved(ses, h) ==
    [g \in Handles |-> IF g = h THEN [ses[g] EXCEPT !.loaded = FALSE, !.age = 0]
                       ELSE IF ses[g].sid # None /\ ~ses[g].loaded THEN [ses[g] EXCEPT !.age = @ + 1]
                       ELSE ses[g]]

TpmSaveSession(k, h) ==
    IF h \notin LoadedSessions(k) THEN [m |-> k, rc |-> "error"]
    ELSE IF AtGap(k) THEN [m |-> k, rc |-> "CONTEXT_GAP"]
    ELSE [m |-> [k EXCEPT !.ses = Saved(@, h)], rc |-> "ok"]

TpmLoadSession(k, h, ctx, general) ==
    IF h \notin SavedSessions(k) \/ k.ses[h].sid # ctx THEN [m |-> k, rc |-> "error"]
    ELSE IF AtGap(k) /\ ~OldestSaved(k, h) THEN [m |-> k, rc |-> "CONTEXT_GAP"]
    ELSE IF Cardinality(LoadedSessions(k)) >= k.room
    THEN [m |-> k, rc |-> Short("SESSION_MEMORY", general)]
    ELSE [m |-> [k EXCEPT !.ses[h] = [@ EXCEPT !.loaded = TRUE, !.age = 0]], rc |-> "ok"]

\* The answer to a command that turned the TPM from k into x.
Done(k, x, cmd, slots, new) ==
    [m |-> IF cmd.continue THEN x ELSE TpmFlushSession(x, cmd.sessions[1][1]),
     rc |-> "ok", new |-> new,
     acted |-> [i \in DOMAIN slots |-> k.objs[slots[i]]],
     sids |-> [i \in DOMAIN cmd.sessions |-> k.ses[cmd.sessions[i][1]].sid]]

\* The TPM executes the command on the objects in the given slots.
TpmExecute(k, cmd, slots) ==
    LET DoneAs(x, new) == Done(k, x, cmd, slots, new)
        Refuses(w) == [m |-> k, rc |-> w]
        Missing == \/ \E i \in DOMAIN slots : k.objs[slots[i]] = NoContent
                   \/ \E i \in DOMAIN cmd.sessions : cmd.sessions[i][1] \notin LoadedSessions(k)
    IN  CASE Missing -> Refuses("error")
          [] ~Missing /\ cmd.kind = "create" ->
               IF FreeSlots(k) = {} THEN Refuses(Short("OBJECT_MEMORY", cmd.general))
               ELSE LET t == Least(FreeSlots(k))
                    IN  DoneAs([k EXCEPT !.objs[t] = cmd.new], t)
          [] ~Missing /\ cmd.kind = "start" ->
               IF Cardinality(LoadedSessions(k)) >= k.room
               THEN Refuses(Short("SESSION_MEMORY", cmd.general))
               ELSE IF FreeHandles(k) = {} THEN Refuses("SESSION_HANDLES")
               ELSE IF AtGap(k) THEN Refuses("CONTEXT_GAP")
               ELSE LET h == Least(FreeHandles(k))
                        new == [sid |-> started + 1, loaded |-> TRUE, age |-> 0]
                    IN  DoneAs([k EXCEPT !.ses[h] = new], h)
          [] ~Missing /\ cmd.kind = "update" -> DoneAs([k EXCEPT !.objs[slots[1]].ver = @ + 1], None)
          [] OTHER -> DoneAs(k, None)

\* What is sent to the TPM, in fixing warnings too: the client's command on the
\* objects in the given slots, or a context command on behalf of it.
TpmSend(k, cmd, req) ==
    CASE req.op = "execute"     -> TpmExecute(k, cmd, req.slots)
      [] req.op = "saveSession" -> TpmSaveSession(k, req.key[1])
      [] req.op = "loadSession" -> TpmLoadSession(k, req.key[1], k.sessions[req.key].ctx, cmd.general)
      [] req.op = "loadObject"  -> TpmLoadObject(k, k.unloaded[req.v].ctx, cmd.general)

-----------------------------------------------------------------------------
(***************************************************************************)
(* Objects.                                                                *)
(***************************************************************************)

IndexOf(k, v) == {i \in DOMAIN k.loaded : k.loaded[i].v = v}
IsLoaded(k, v) == IndexOf(k, v) # {}
Known(k, v) == IsLoaded(k, v) \/ k.unloaded[v] # NoInfo
InfoOf(k, v) == k.loaded[Least(IndexOf(k, v))].info

\* SaveContext() of an object, which is not repeated once there is a context.
\* It fails, leaving no context, if the TPM has flushed the object.
SavedContext(k, info) == IF info.ctx # NoContent THEN info.ctx ELSE k.objs[info.tpm]

\* An object is saved and flushed; both may find that the TPM has done so.  An
\* object that cannot be saved or flushed for another reason would be skipped.
EvictAt(k, i) ==
    LET item == k.loaded[i]
    IN  [k EXCEPT !.objs[item.info.tpm] = NoContent,
                  !.t2v[item.info.tpm] = None,
                  !.unloaded[item.v] = [item.info EXCEPT !.ctx = SavedContext(k, item.info)],
                  !.loaded = RemoveAt(@, i)]

MutantEvictable(k, cmd) == DOMAIN k.loaded

\* Loaded objects that the command does not name.
Evictable(k, cmd) == {i \in DOMAIN k.loaded : k.loaded[i].v \notin Elements(cmd.handles)}

\* The least recently used object, of another sender if there is one.
EvictOneObject(k, cmd) ==
    LET others == {i \in Evictable(k, cmd) : k.loaded[i].info.sender # cmd.sender}
    IN  IF others # {} THEN EvictAt(k, Least(others))
        ELSE IF Evictable(k, cmd) # {} THEN EvictAt(k, Least(Evictable(k, cmd)))
        ELSE k

EvictNext(k, cmd) ==
    IF Evictable(k, cmd) = {} THEN k ELSE EvictAt(k, Least(Evictable(k, cmd)))

EvictObjects(k, cmd) ==
    LET n == Len(k.loaded)
    IN  Loop([x \in Managers \X (1..n) |-> EvictNext(x[1], cmd)], k, n)

MutantCleanupFlushedObject(k, v) ==
    IF k.unloaded[v] # NoInfo
    THEN [k EXCEPT !.unloaded[v] = NoInfo]
    ELSE IF IsLoaded(k, v)
    THEN [k EXCEPT !.t2v[InfoOf(k, v).tpm] = None,
                   !.loaded = RemoveAt(@, Least(IndexOf(k, v)))]
    ELSE k

\* CleanupFlushedHandle(VirtualHandle).
CleanupFlushedObject(k, v) ==
    IF k.unloaded[v] # NoInfo
    THEN [k EXCEPT !.unloaded[v] = NoInfo, !.cache[v] = None]
    ELSE IF IsLoaded(k, v)
    THEN [k EXCEPT !.t2v[InfoOf(k, v).tpm] = None,
                   !.loaded = RemoveAt(@, Least(IndexOf(k, v))),
                   !.cache[v] = None]
    ELSE k

After(v) == IF v = MaxVirtual THEN 1 ELSE v + 1

MutantCreateVirtualHandle(k) == [v |-> k.next, next |-> After(k.next)]

\* The next handle that is not in use, and the one to go on from.
CreateVirtualHandle(k) ==
    LET Distance(v) == IF v >= k.next THEN v - k.next ELSE v - k.next + MaxVirtual
        free == {v \in Virtual : ~Known(k, v)}
        v == CHOOSE x \in free : \A y \in free : Distance(x) <= Distance(y)
    IN  [v |-> v, next |-> After(v)]

\* The loop that updates the LRU: an object that is named goes to the end, and
\* the one that takes its place is passed over.
Rotate(s, i, named) == IF s[i].v \in named THEN Append(RemoveAt(s, i), s[i]) ELSE s

UpdateLru(k, cmd) ==
    LET n == IF k.loaded = <<>> THEN 0 ELSE Len(k.loaded) - 1
        turn == [x \in Seq(ObjectInfo) \X (1..n) |-> Rotate(x[1], x[2], Elements(cmd.handles))]
    IN  [k EXCEPT !.loaded = Loop(turn, @, n)]

-----------------------------------------------------------------------------
(***************************************************************************)
(* Sessions, and the fixing of warnings, which they share with objects.    *)
(***************************************************************************)

Unused(lru, key) ==
    IF key \in Elements(lru) THEN RemoveAt(lru, CHOOSE i \in DOMAIN lru : lru[i] = key) ELSE lru

\* CleanupFlushedHandle(SessionHandle).
CleanupFlushedSession(k, key) ==
    [k EXCEPT !.sessions[key] = NoSessionInfo, !.lru = Unused(@, key)]

Candidates(k, cmd) ==
    {key \in Tracked(k) : k.sessions[key].loaded /\ key \notin Elements(cmd.sessions)}

LeastRecentlyUsed(k, S) == k.lru[Least({i \in DOMAIN k.lru : k.lru[i] \in S})]

\* ChooseSessionToEvict(): of another sender if there is one, the one that was
\* used least recently.
SessionToEvict(k, cmd) ==
    LET others == {key \in Candidates(k, cmd) : key[2] # cmd.sender}
    IN  LeastRecentlyUsed(k, IF others # {} THEN others ELSE Candidates(k, cmd))

MutantFlushSession(k, cmd) ==
    IF Candidates(k, cmd) = {} THEN k ELSE CleanupFlushedSession(k, SessionToEvict(k, cmd))

FlushSession(k, cmd) ==
    IF Candidates(k, cmd) = {} THEN k
    ELSE LET key == SessionToEvict(k, cmd)
         IN  CleanupFlushedSession(TpmFlushSession(k, key[1]), key)

\* Saving and loading a session are requests to the TPM like others, and meet
\* warnings that are fixed in turn: context is the function that answers them.
ContextRequests == [op : {"saveSession", "loadSession"}, key : SessionKeys]

SavedAs(r, key) ==
    LET Note(k) == [k EXCEPT !.sessions[key] = [@ EXCEPT !.loaded = FALSE, !.ctx = k.ses[key[1]].sid]]
    IN  IF r.rc # "ok" THEN r ELSE [r EXCEPT !.m = Note(@)]

\* SaveContext() of a session.
SaveSession(k, key, context) ==
    IF ~k.sessions[key].loaded THEN [m |-> k, rc |-> "error"]
    ELSE SavedAs(context[<<k, [op |-> "saveSession", key |-> key]>>], key)

LoadedAs(r, key) ==
    LET Note(k) == [k EXCEPT !.sessions[key] = [@ EXCEPT !.loaded = TRUE]]
    IN  IF r.rc # "ok" THEN r ELSE [r EXCEPT !.m = Note(@)]

\* LoadContext() of a session.
LoadSession(k, key, context) ==
    IF k.sessions[key].loaded THEN [m |-> k, rc |-> "error"]
    ELSE LoadedAs(context[<<k, [op |-> "loadSession", key |-> key]>>], key)

EvictSession(k, cmd, context) ==
    LET OrFlush(r) == IF r.rc = "ok" THEN r.m ELSE FlushSession(r.m, cmd)
    IN  IF Candidates(k, cmd) = {} THEN k
        ELSE OrFlush(SaveSession(k, SessionToEvict(k, cmd), context))

\* A loop over the sessions in S, in the order of their creation.
ForEach(k, S, step) ==
    LET At(c) == {key \in S : k.sessions[key].created = c}
        turn == [x \in Managers \X (1..MaxSessions) |->
                   IF At(x[2]) = {} THEN x[1] ELSE step[<<x[1], CHOOSE key \in At(x[2]) : TRUE>>]]
    IN  Loop(turn, k, MaxSessions)

MutantFixContextGap(k, context) == k

\* Loading and saving a session again gives it a new context counter; loaded
\* sessions that use the handle of a saved one make room for it meanwhile.
FixContextGap(k, context) ==
    LET ungap == {key \in Tracked(k) : ~k.sessions[key].loaded}
        reload == {key \in Tracked(k) : k.sessions[key].loaded /\ \E u \in ungap : u[1] = key[1]}
        Resave(r, key) == IF r.rc = "ok" THEN SaveSession(r.m, key, context).m ELSE r.m
        Save == [x \in Managers \X SessionKeys |-> SaveSession(x[1], x[2], context).m]
        Ungap == [x \in Managers \X SessionKeys |-> Resave(LoadSession(x[1], x[2], context), x[2])]
        Load == [x \in Managers \X SessionKeys |-> LoadSession(x[1], x[2], context).m]
    IN  ForEach(ForEach(ForEach(k, reload, Save), ungap, Ungap), reload, Load)

\* Never attempt to fix the same warning twice.
Fixable(k, w) == w \in Warnings /\ w \notin k.seen

Fix(k, cmd, w, context) ==
    CASE w = "CONTEXT_GAP"     -> FixContextGap(k, context)
      [] w = "OBJECT_MEMORY"   -> EvictOneObject(k, cmd)
      [] w = "SESSION_MEMORY"  -> EvictSession(k, cmd, context)
      [] w = "MEMORY"          -> EvictSession(EvictObjects(k, cmd), cmd, context)
      [] w = "SESSION_HANDLES" -> FlushSession(k, cmd)

MutantFixWarnings(k, cmd, w, context) == Fix([k EXCEPT !.seen = @ \cup {w}], cmd, w, context)

\* FixWarnings() of a warning that is fixable; the outermost call forgets the
\* warnings seen.
FixWarnings(k, cmd, w, context) ==
    [Fix([k EXCEPT !.seen = @ \cup {w}], cmd, w, context)
       EXCEPT !.seen = IF k.seen = {} THEN {} ELSE @]

\* Another turn, if the answer was a warning that can be fixed.
Retry(r, cmd, req, context) ==
    IF Fixable(r.m, r.rc) THEN TpmSend(FixWarnings(r.m, cmd, r.rc, context), cmd, req) ELSE r

FixOnly(r, cmd, context) ==
    IF Fixable(r.m, r.rc) THEN [r EXCEPT !.m = FixWarnings(@, cmd, r.rc, context)] ELSE r

\* The loop around each command sent, of kMaxCommandAttempts = 3 turns, the last
\* of which ends in a fix, too.
SendFixing(k, cmd, req, context) ==
    FixOnly(Retry(Retry(TpmSend(k, cmd, req), cmd, req, context), cmd, req, context), cmd, context)

\* Saving and loading sessions meet the context gap and one kind of shortage, and
\* neither is fixed twice: inside two fixes there is nothing left to be fixed.
InsideTwoFixes(cmd) == [x \in Managers \X ContextRequests |-> TpmSend(x[1], cmd, x[2])]

InsideFix(cmd) ==
    [x \in Managers \X ContextRequests |-> SendFixing(x[1], cmd, x[2], InsideTwoFixes(cmd))]

Send(k, cmd, req) == SendFixing(k, cmd, req, InsideFix(cmd))

\* For the sessions that a command needs.
OutsideFixes(cmd) == [x \in Managers \X ContextRequests |-> Send(x[1], cmd, x[2])]

\* Other loaded sessions of the same handle are saved or else flushed first.
EnsureLoaded(k, key, context) ==
    LET rivals == {x \in Tracked(k) : k.sessions[x].loaded /\ x[1] = key[1] /\ x[2] # key[2]}
        OrFlush(r, rival) == IF r.rc = "ok" THEN r.m
                             ELSE CleanupFlushedSession(TpmFlushSession(r.m, rival[1]), rival)
        Evict == [x \in Managers \X SessionKeys |-> OrFlush(SaveSession(x[1], x[2], context), x[2])]
        Load(x) == IF x.sessions[key].loaded THEN [m |-> x, rc |-> "ok"] ELSE LoadSession(x, key, context)
        Used(x) == [x EXCEPT !.lru = Append(Unused(@, key), key)]
        Touch(r) == IF r.rc # "ok" THEN r ELSE [m |-> Used(r.m), rc |-> "ok"]
    IN  IF key \notin Tracked(k) THEN [m |-> k, rc |-> "error"]
        ELSE Touch(Load(ForEach(k, rivals, Evict)))

EnsureSessionIsLoaded(k, cmd, key) == EnsureLoaded(k, key, OutsideFixes(cmd))

-----------------------------------------------------------------------------
(***************************************************************************)
(* Commands.                                                               *)
(***************************************************************************)

\* LoadContext() of an object.
LoadObject(k, cmd, v) == Send(k, cmd, [op |-> "loadObject", v |-> v])

\* The object in a slot of the TPM has a handle, and an entry at the end of the LRU.
Entered(k, v, info) ==
    [k EXCEPT !.t2v[info.tpm] = v, !.loaded = Append(@, [v |-> v, info |-> info])]

\* ProcessInputHandle(): the object is in the TPM and its handle there known.
ProcessInputHandle(k, cmd, v) ==
    LET Reloaded(x, slot) ==
            [Entered(x, v, [k.unloaded[v] EXCEPT !.tpm = slot]) EXCEPT !.unloaded[v] = NoInfo]
        Found(r) == IF r.rc # "ok" THEN r ELSE [r EXCEPT !.m = Reloaded(@, r.slot)]
    IN  IF IsLoaded(k, v) THEN [m |-> k, rc |-> "ok", slot |-> InfoOf(k, v).tpm]
        ELSE IF k.unloaded[v] = NoInfo THEN [m |-> k, rc |-> "error"]
        ELSE Found(LoadObject(k, cmd, v))

ProcessOutputObject(k, slot, sender) ==
    LET info == [tpm |-> slot, ctx |-> NoContent, sender |-> sender]
        New(c) == [m |-> [Entered(k, c.v, info) EXCEPT !.next = c.next], v |-> c.v]
    IN  IF k.t2v[slot] # None THEN [m |-> k, v |-> k.t2v[slot]]
        ELSE New(CreateVirtualHandle(k))

ProcessOutputSession(k, h, sender, now) ==
    IF <<h, sender>> \in Tracked(k) THEN k
    ELSE [k EXCEPT !.sessions[<<h, sender>>] = [loaded |-> TRUE, ctx |-> None, created |-> now],
                   !.lru = Append(@, <<h, sender>>)]

\* Objects that nothing refers to any more, one of which a new one may be.
NewObjects(k) ==
    LET contexts == {k.unloaded[v].ctx.obj : v \in Virtual}
                    \cup {k.loaded[i].info.ctx.obj : i \in DOMAIN k.loaded}
        known == {k.objs[t].obj : t \in Slots} \cup {k.cache[v] : v \in Virtual}
    IN  Objects \ (contexts \cup known \cup {given[v].obj : v \in Virtual})

Execute(k, cmd, slots) == Send(k, cmd, [op |-> "execute", slots |-> slots])

\* Handle by handle; the first failure ends the command.
ProcessHandle(p, cmd, i) ==
    LET Add(r) == IF r.rc # "ok" THEN [p EXCEPT !.m = r.m, !.rc = r.rc]
                  ELSE [p EXCEPT !.m = r.m, !.slots = Append(@, r.slot)]
    IN  IF p.rc # "ok" \/ i > Len(cmd.handles) THEN p
        ELSE Add(ProcessInputHandle(p.m, cmd, cmd.handles[i]))

ProcessInputHandles(k, cmd) ==
    ProcessHandle(ProcessHandle([m |-> k, rc |-> "ok", slots |-> <<>>], cmd, 1), cmd, 2)

\* Of the sessions that a command may carry, one.
WithSession(p, cmd) ==
    LET Also(e) == [p EXCEPT !.m = e.m, !.rc = e.rc]
    IN  IF p.rc # "ok" \/ cmd.sessions = <<>> THEN p
        ELSE Also(EnsureSessionIsLoaded(p.m, cmd, cmd.sessions[1]))

\* Input handles, then the session.
Prepare(k, cmd) == WithSession(ProcessInputHandles(UpdateLru(k, cmd), cmd), cmd)

ExecutePrepared(p, cmd) == IF p.rc # "ok" THEN p ELSE Execute(p.m, cmd, p.slots)

\* The command, once what it names is loaded.
PrepareAndExecute(k, cmd) == ExecutePrepared(Prepare(k, cmd), cmd)

Cached(k, cmd) == cmd.kind = "readpublic" /\ cmd.sessions = <<>> /\ k.cache[cmd.handles[1]] # None

\* A session without continueSession ended with the command.
EndSession(k, cmd) == IF cmd.continue THEN k ELSE CleanupFlushedSession(k, cmd.sessions[1])

\* What follows a command that succeeded.
Finish(r, cmd) ==
    LET Ended(k) ==
          CASE cmd.kind = "create" -> ProcessOutputObject(k, r.new, cmd.sender)
            [] cmd.kind = "start" ->
                 [m |-> ProcessOutputSession(k, r.new, cmd.sender, started + 1), v |-> r.new]
            [] cmd.kind = "readpublic" /\ cmd.sessions = <<>> ->
                 [m |-> [k EXCEPT !.cache[cmd.handles[1]] = r.acted[1].obj],
                  v |-> None]
            [] OTHER -> [m |-> k, v |-> None]
    IN  Ended(EndSession(r.m, cmd))

\* A suspended manager answers TPM_RC_RETRY, which changes nothing, to commands
\* with handles until max_suspend_duration_ is over and it resumes by itself.
Awake(cmd) ==
    {[m EXCEPT !.suspended = s] :
       s \in IF cmd.kind = "use" /\ cmd.handles = <<>> THEN {m.suspended, FALSE} ELSE {FALSE}}

\* The answer r to a command, f being what followed.
Succeeds(cmd, r, f) ==
    LET first == cmd.handles[1]
        objs == [i \in DOMAIN cmd.handles |-> given[cmd.handles[i]]]
        Right == /\ \A i \in DOMAIN objs : objs[i].obj = r.acted[i].obj
                 /\ \A i \in DOMAIN cmd.sessions : held[cmd.sessions[i]] = r.sids[i]
    IN  /\ m' = f.m
        /\ last' = [AsExpected EXCEPT !.right = Right, !.latest = (r.acted = objs)]
        /\ given' = CASE cmd.kind = "create" -> [given EXCEPT ![f.v] = r.m.objs[r.new]]
                      [] cmd.kind = "update" -> [given EXCEPT ![first].ver = @ + 1]
                      [] OTHER -> given
        /\ held' = IF cmd.kind = "start"
                   THEN [held EXCEPT ![<<f.v, cmd.sender>>] = started + 1]
                   ELSE IF cmd.continue THEN held ELSE [held EXCEPT ![cmd.sessions[1]] = None]
        /\ started' = IF cmd.kind = "start" THEN started + 1 ELSE started

\* History: loading what a command names may save three sessions, each of which
\* brings the oldest saved one closer to the gap; with more than three sessions
\* three attempts may not be enough to get away from it.
NearGap(k) == \E h \in SavedSessions(k) : k.ses[h].age + 3 >= MaxGap
Crowded(k, cmd) == NearGap(k) /\ Cardinality(Tracked(k)) > IF cmd.kind = "start" THEN 2 ELSE 3

\* Whether it is for want of objects or of sessions that a command fails, given
\* whether its objects could be loaded.
Fails(k, cmd, r, loaded) ==
    LET wanted == loaded /\ (cmd.kind = "start" \/ cmd.sessions # <<>>)
        none == cmd.kind = "start" /\ FreeHandles(k) = {}
    IN  /\ m' = r.m
        /\ last' = [AsExpected EXCEPT !.objects = wanted,
                                      !.sessions = ~wanted \/ none \/ Crowded(k, cmd)]
        /\ UNCHANGED <<given, held, started>>

FromCache(k, cmd) ==
    /\ m' = UpdateLru(k, cmd)
    /\ last' = [AsExpected EXCEPT !.right = k.cache[cmd.handles[1]] = given[cmd.handles[1]].obj]
    /\ UNCHANGED <<given, held, started>>

\* SendCommandWithSenderAndWait() for a client that holds what it names.
CommandFrom(k, cmd) ==
    \/ Cached(k, cmd) /\ FromCache(k, cmd)
    \/ /\ ~Cached(k, cmd)
       /\ \E r \in {PrepareAndExecute(k, cmd)} :
            \/ /\ r.rc # "ok"
               /\ Fails(k, cmd, r, ProcessInputHandles(UpdateLru(k, cmd), cmd).rc = "ok")
            \/ r.rc = "ok" /\ \E f \in {Finish(r, cmd)} : Succeeds(cmd, r, f)

Command(cmd) == \E k \in Awake(cmd) : CommandFrom(k, cmd)

Cmd(kind, sender, handles, general) ==
    [kind |-> kind, sender |-> sender, handles |-> handles, sessions |-> <<>>,
     continue |-> TRUE, general |-> general, new |-> NoContent]

\* Load, CreatePrimary, HashSequenceStart...: a key or a sequence object,
\* perhaps under a parent.
CreateObject(sender, handles, object, version, general) ==
    /\ Len(handles) <= 1
    /\ Command([Cmd("create", sender, handles, general)
                  EXCEPT !.new = [obj |-> object, ver |-> version]])

\* A command on objects, perhaps with a session that may end with it.  One on
\* a sequence object (SequenceUpdate) changes it.
UseObjects(sender, handles, sessions, continue, general) ==
    LET updates == handles # <<>> /\ given[handles[1]].ver \in 1..(MaxVersion - 1)
    IN  Command([Cmd(IF updates THEN "update" ELSE "use", sender, handles, general)
                   EXCEPT !.sessions = sessions, !.continue = continue])

ReadPublic(sender, v, general) ==
    /\ given[v].ver = 0
    /\ Command(Cmd("readpublic", sender, <<v>>, general))

StartAuthSession(sender, general) ==
    /\ started < MaxSessions
    /\ Command(Cmd("start", sender, <<>>, general))

\* A handle that no client holds must not lead to anyone's object.
UseDeadHandle(sender, v) ==
    /\ v \notin Given
    /\ \E r \in {PrepareAndExecute([m EXCEPT !.suspended = FALSE], Cmd("use", sender, <<v>>, FALSE))} :
          m' = r.m /\ last' = [AsExpected EXCEPT !.right = r.rc # "ok"]
    /\ UNCHANGED <<given, held, started>>

\* ProcessFlushContext(), which is not refused while suspended.
FlushObject(v) ==
    /\ Known(m, v)
    /\ \E s \in {m.suspended, FALSE} :
         LET k == [m EXCEPT !.suspended = s]
         IN  m' = IF IsLoaded(k, v)
                  THEN CleanupFlushedObject([k EXCEPT !.objs[InfoOf(k, v).tpm] = NoContent], v)
                  ELSE CleanupFlushedObject(k, v)
    /\ given' = [given EXCEPT ![v] = NoContent]
    /\ last' = AsExpected
    /\ UNCHANGED <<held, started>>

FlushHeldSession(key) ==
    /\ key \in Tracked(m)
    /\ \E s \in {m.suspended, FALSE} :
         m' = CleanupFlushedSession(TpmFlushSession([m EXCEPT !.suspended = s], key[1]), key)
    /\ held' = [held EXCEPT ![key] = None]
    /\ last' = AsExpected
    /\ UNCHANGED <<given, started>>

\* SaveAllContexts() evicts the objects only.
Suspend ==
    /\ ~m.suspended
    /\ m' = EvictObjects([m EXCEPT !.suspended = TRUE], Cmd("none", None, <<>>, FALSE))
    /\ last' = AsExpected
    /\ UNCHANGED <<given, held, started>>

Resume ==
    /\ m.suspended
    /\ m' = [m EXCEPT !.suspended = FALSE]
    /\ last' = AsExpected
    /\ UNCHANGED <<given, held, started>>

\* The system sleeps and the TPM is reset: what is loaded is lost.  powerd goes
\* to sleep without asking the manager, which may have resumed by itself or
\* after a restart of powerd; if it has not, no object may be at stake.
Sleep ==
    /\ m' = [m EXCEPT !.objs = [t \in Slots |-> NoContent],
                      !.ses = [h \in Handles |-> IF @[h].loaded THEN NoSession ELSE @[h]],
                      !.lost = @ \/ LoadedSessions(m) # {} \/ m.loaded # <<>>]
    /\ last' = [AsExpected EXCEPT !.objects = (m.suspended => m.loaded = <<>>)]
    /\ UNCHANGED <<given, held, started>>

\* What a command may name: up to two objects, and a session of the sender.
ObjectLists == {<<>>} \cup {<<v>> : v \in Given}
               \cup {<<p[1], p[2]>> : p \in {q \in Given \X Given : q[1] # q[2]}}
SessionLists(sender) == {<<>>} \cup {<<key>> : key \in {x \in Tracked(m) : x[2] = sender}}

ObjectCommand(sender, general) ==
    \/ \E handles \in ObjectLists, object \in NewObjects(m), version \in {0, 1} \cap (0..MaxVersion) :
          CreateObject(sender, handles, object, version, general)
    \/ \E handles \in ObjectLists, sessions \in SessionLists(sender), continue \in BOOLEAN :
          /\ sessions = <<>> => continue
          /\ UseObjects(sender, handles, sessions, continue, general)
    \/ \E v \in Given : ReadPublic(sender, v, general)

Operation ==
    \/ \E sender \in Senders, general \in BOOLEAN :
          ObjectCommand(sender, general) \/ StartAuthSession(sender, general)
    \/ \E sender \in Senders, v \in Virtual : UseDeadHandle(sender, v)
    \/ \E v \in Virtual : FlushObject(v)
    \/ \E key \in SessionKeys : FlushHeldSession(key)
    \/ Suspend \/ Resume \/ Sleep

\* The manager does not notice that the TPM lost a session, or an object while
\* it was not suspended, and what it knows is wrong from then on (see README):
\* nothing is said of that.
Next == ~m.lost /\ Operation

Spec == Init /\ [][Next]_vars

-----------------------------------------------------------------------------

\* A command acts on the objects and the sessions that the client was given
\* the handles of, whatever was evicted, reloaded and reused in between, and a
\* handle that nobody holds acts on nothing.
RightObjects == last.right

\* A shortage in the TPM never makes a command fail that names objects the client
\* holds, as room is always made for them and for a new one; nor does a sleep
\* that finds the manager suspended, as all objects have been saved and none was
\* loaded again meanwhile.
LiveObjectsWork == last.objects

\* Nor does a shortage or the context gap make one fail for want of a session that
\* the client holds and the manager has not had to flush, or of a new one while
\* the TPM has a handle for it: away from the gap however many sessions there
\* are, and close to it with three of them or fewer.
LiveSessionsWork == last.sessions

\* Both ways of looking up an object agree and each object is in one place,
\* nothing stays in a slot of the TPM that the manager could not flush, and a
\* cached public area is that of the object its handle now stands for.
MapsAgree ==
    /\ \A i \in DOMAIN m.loaded : /\ m.t2v[m.loaded[i].info.tpm] = m.loaded[i].v
                                 /\ m.unloaded[m.loaded[i].v] = NoInfo
    /\ \A i, j \in DOMAIN m.loaded : m.loaded[i].v = m.loaded[j].v => i = j
    /\ \A t \in Slots : m.t2v[t] # None => \E i \in DOMAIN m.loaded : m.loaded[i].info.tpm = t
    /\ \A t \in Slots : m.objs[t] # NoContent => m.t2v[t] # None
    /\ \A v \in Virtual : m.cache[v] # None => v \in Given /\ m.cache[v] = given[v].obj

\* The manager knows every session in the TPM, which ones are loaded, and the
\* saved ones by their contexts.
SessionsAgree ==
    ~m.lost =>
        /\ \A key \in Tracked(m) :
              /\ held[key] # None
              /\ m.ses[key[1]].sid = held[key]
              /\ m.ses[key[1]].loaded = m.sessions[key].loaded
              /\ ~m.sessions[key].loaded => m.sessions[key].ctx = held[key]
        /\ \A h \in Handles : m.ses[h].sid # None => \E key \in Tracked(m) : key[1] = h

-----------------------------------------------------------------------------
(***************************************************************************)
(* What comments in the code say and the code does not do.                 *)
(***************************************************************************)

\* "We already saved the context of this transient object, we don't need to
\* save it again": an object that is reloaded is as it was when evicted.
ReloadedIsLatest == last.latest

=============================================================================
