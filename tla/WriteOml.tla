----------------------------- MODULE WriteOml -----------------------------
(***************************************************************************)
(* The OML writer plugin of collectd: write threads call oml_write(), which *)
(* creates measurement points on the fly in a list that session_lock       *)
(* guards and injects under each point's mp_lock; collectd's main thread   *)
(* calls oml_config(), oml_init() and oml_cleanup().                       *)
(*                                                                         *)
(* The step of a thread is a section it runs under a lock, or the access   *)
(* that acquires or releases one.  An MPoint* is its position in mpoint,   *)
(* counted from the end of the linked list; 0 is NULL.                     *)
(***************************************************************************)
EXTENDS Integers, Sequences

CONSTANTS
  Threads,    \* collectd's write threads
  Names,      \* values of ds->type
  Main,       \* collectd's main thread
  Nobody,     \* holder of a free mutex
  MaxWrites   \* bound: calls of oml_write()

ASSUME ThreadAssumption == Main \notin Threads /\ Nobody \notin Threads /\ Main # Nobody
ASSUME WritesAssumption == MaxWrites \in Nat

VARIABLES
  session_lock, mpoint, oml_initialized,  \* Session; mpoint holds the points in creation order
  settings,     \* Session: node_id, domain, collect_uri, loglevel, buffer_size
  mp_lock,      \* holder of each point's mp_lock
  phase,        \* collectd's main thread
  oml,          \* the OML client library
  omlArgs,      \* the settings omlc_init() was given
  pc, ds, mp,   \* write thread: control, data set name, result of find_mpoint()
  writes        \* calls made so far

sessionVars == <<session_lock, mpoint, oml_initialized, settings, mp_lock>>
omlVars == <<oml, omlArgs>>
writerVars == <<pc, ds, mp, writes>>
vars == <<sessionVars, phase, omlVars, writerVars>>

Keys == {"NodeID", "Domain", "CollectURI", "OMLLogLevel", "OMLBufferSize"}

\* The settings that are copied as strings.
StringKeys == {"NodeID", "Domain", "CollectURI"}

\* The settings that become arguments of omlc_init().
OmlKeys == Keys \ {"OMLLogLevel"}

\* module_register(): the session zeroed, its lock made, the callbacks registered.
Init ==
  /\ session_lock = Nobody /\ mpoint = <<>> /\ oml_initialized = FALSE
  /\ settings = [k \in Keys |-> "default"] /\ mp_lock = <<>>
  /\ phase = "config" /\ oml = "none" /\ omlArgs = [k \in OmlKeys |-> "default"]
  /\ pc = [t \in Threads |-> "idle"] /\ ds \in [Threads -> Names]
  /\ mp = [t \in Threads |-> 0] /\ writes = 0

-----------------------------------------------------------------------------
(* collectd's main thread *)

\* oml_config(): a string key keeps what its fresh buffer holds behind the copy, as strncpy()
\* of strlen() bytes adds no terminator; a buffer size is terminated, but one that collectd passes
\* on without a decimal point has its length computed from NULL.  A log level that is no number
\* and any other key are refused.
\* collectd reads its configuration before it starts the write threads.
Config ==
  /\ phase = "config" /\ session_lock = Nobody /\ writes = 0
  /\ \/ /\ \E k \in Keys :
             \E v \in {"value"} \cup (IF k \in StringKeys THEN {"value and garbage"} ELSE {}) :
               settings' = [settings EXCEPT ![k] = v]
        /\ UNCHANGED phase
     \/ phase' = "aborted" /\ UNCHANGED settings
  /\ UNCHANGED <<session_lock, mpoint, oml_initialized, mp_lock, omlVars, writerVars>>

\* oml_init() as far as omlc_init() and omlc_start(), either of which may fail; it keeps
\* session_lock while OML connects.
InitOml ==
  /\ phase = "config" /\ session_lock = Nobody
  /\ session_lock' = Main /\ phase' = "init"
  /\ omlArgs' = [k \in OmlKeys |-> settings[k]]
  /\ oml' \in {"started", "failed"}
  /\ UNCHANGED <<mpoint, oml_initialized, settings, mp_lock, writerVars>>

\* oml_init(): the outcome is recorded and the lock released; collectd is told 0 either way.
InitDone ==
  /\ phase = "init"
  /\ oml_initialized' = (oml = "started")
  /\ session_lock' = Nobody /\ phase' = "running"
  /\ UNCHANGED <<mpoint, settings, mp_lock, omlVars, writerVars>>

\* oml_cleanup(), which collectd calls once its write threads are gone.  For each point it frees
\* the names of the columns, the six string literals first, until *md->name is 0; but the
\* list ends in a NULL name, so a session with a point never gets past the first one.
Cleanup ==
  /\ phase = "running" /\ session_lock = Nobody
  /\ \A t \in Threads : pc[t] = "idle"
  /\ oml' = "closed"
  /\ \/ mpoint = <<>> /\ phase' = "done" /\ UNCHANGED <<session_lock, mp_lock>>
     \/ /\ mpoint # <<>> /\ phase' = "crashed"
        /\ session_lock' = Main
        /\ mp_lock' = [mp_lock EXCEPT ![Len(mpoint)] = Main]
  /\ UNCHANGED <<mpoint, oml_initialized, settings, omlArgs, writerVars>>

-----------------------------------------------------------------------------
(* Write threads *)

\* collectd dispatches a value of data set n; it may do so before oml_init() has run.
Dispatch(t, n) ==
  /\ phase \in {"config", "init", "running"} /\ pc[t] = "idle" /\ writes < MaxWrites
  /\ pc' = [pc EXCEPT ![t] = "find"] /\ ds' = [ds EXCEPT ![t] = n]
  /\ writes' = writes + 1
  /\ UNCHANGED <<sessionVars, phase, omlVars, mp>>

\* find_mpoint_struct(): the newest point with that name, or NULL.
Found(n) ==
  LET named == {i \in 1..Len(mpoint) : mpoint[i].name = n}
  IN  IF named = {} THEN 0 ELSE CHOOSE i \in named : \A j \in named : j <= i

\* Mutant: find_mpoint() looks for the point without session_lock.
LookupUnlocked(t) ==
  /\ pc[t] = "find"
  /\ mp' = [mp EXCEPT ![t] = Found(ds[t])]
  /\ pc' = [pc EXCEPT ![t] = "found"]
  /\ UNCHANGED <<sessionVars, phase, omlVars, ds, writes>>

\* find_mpoint(): take session_lock and look the point up.
Lookup(t) ==
  /\ pc[t] = "find" /\ session_lock = Nobody
  /\ session_lock' = t
  /\ mp' = [mp EXCEPT ![t] = Found(ds[t])]
  /\ pc' = [pc EXCEPT ![t] = "found"]
  /\ UNCHANGED <<mpoint, oml_initialized, settings, mp_lock, phase, omlVars, ds, writes>>

\* Mutant: create_mpoint() does not make the new point's mutex.
FindDoneNoLock(t) ==
  /\ pc[t] = "found"
  /\ \/ mp[t] # 0 /\ UNCHANGED <<mpoint, mp>>
     \/ /\ mp[t] = 0
        /\ mpoint' = Append(mpoint, [name |-> ds[t], known |-> oml = "started"])
        /\ mp' = [mp EXCEPT ![t] = Len(mpoint')]
  /\ session_lock' = Nobody
  /\ pc' = [pc EXCEPT ![t] = "check"]
  /\ UNCHANGED <<oml_initialized, settings, mp_lock, phase, omlVars, ds, writes>>

\* find_mpoint(): create_mpoint() and configure_mpoint() when there is none; then unlock.
\* omlc_add_mp() is called whether or not OML is up.
FindDone(t) ==
  /\ pc[t] = "found"
  /\ \/ mp[t] # 0 /\ UNCHANGED <<mpoint, mp_lock, mp>>
     \/ /\ mp[t] = 0
        /\ mpoint' = Append(mpoint, [name |-> ds[t], known |-> oml = "started"])
        /\ mp_lock' = Append(mp_lock, Nobody)
        /\ mp' = [mp EXCEPT ![t] = Len(mpoint')]
  /\ session_lock' = Nobody
  /\ pc' = [pc EXCEPT ![t] = "check"]
  /\ UNCHANGED <<oml_initialized, settings, phase, omlVars, ds, writes>>

\* Mutant: oml_write() does not test oml_initialized.
CheckNothing(t) ==
  /\ pc[t] = "check" /\ session_lock = Nobody
  /\ pc' = [pc EXCEPT ![t] = "fill"]
  /\ UNCHANGED <<sessionVars, phase, omlVars, ds, mp, writes>>

\* oml_write(): under session_lock, return when OML is not initialised.
Check(t) ==
  /\ pc[t] = "check" /\ session_lock = Nobody
  /\ pc' = [pc EXCEPT ![t] = IF mp[t] = 0 \/ ~oml_initialized THEN "idle" ELSE "fill"]
  /\ UNCHANGED <<sessionVars, phase, omlVars, ds, mp, writes>>

\* oml_write(): OML is initialised, but the value list is too long for v[64].
TooMany(t) ==
  /\ pc[t] = "check" /\ session_lock = Nobody
  /\ mp[t] # 0 /\ oml_initialized
  /\ pc' = [pc EXCEPT ![t] = "idle"]
  /\ UNCHANGED <<sessionVars, phase, omlVars, ds, mp, writes>>

\* Mutant: omlc_inject() without mp_lock.
LockPointNot(t) ==
  /\ pc[t] = "fill"
  /\ pc' = [pc EXCEPT ![t] = "inject"]
  /\ UNCHANGED <<sessionVars, phase, omlVars, ds, mp, writes>>

\* oml_write(): the values are filled in and mp_lock taken.
LockPoint(t) ==
  /\ pc[t] = "fill" /\ mp_lock[mp[t]] = Nobody
  /\ mp_lock' = [mp_lock EXCEPT ![mp[t]] = t]
  /\ pc' = [pc EXCEPT ![t] = "inject"]
  /\ UNCHANGED <<session_lock, mpoint, oml_initialized, settings, phase, omlVars, ds, mp, writes>>

\* Mutant: mp_lock is not released.
InjectKeepLock(t) ==
  /\ pc[t] = "inject"
  /\ pc' = [pc EXCEPT ![t] = "idle"]
  /\ UNCHANGED <<sessionVars, phase, omlVars, ds, mp, writes>>

\* oml_write(): omlc_inject() and unlock.
Inject(t) ==
  /\ pc[t] = "inject"
  /\ mp_lock' = [mp_lock EXCEPT ![mp[t]] = Nobody]
  /\ pc' = [pc EXCEPT ![t] = "idle"]
  /\ UNCHANGED <<session_lock, mpoint, oml_initialized, settings, phase, omlVars, ds, mp, writes>>

-----------------------------------------------------------------------------
MainThread == Config \/ InitOml \/ InitDone \/ Cleanup

Writer(t) == Lookup(t) \/ FindDone(t) \/ Check(t) \/ TooMany(t) \/ LockPoint(t) \/ Inject(t)

Next ==
  \/ MainThread
  \/ \E t \in Threads : Writer(t) \/ \E n \in Names : Dispatch(t, n)

Spec == Init /\ [][Next]_vars

\* A thread that can go on does: each write thread inside oml_write(), and oml_init() once begun.
FairSpec == Spec /\ WF_vars(InitDone) /\ \A t \in Threads : WF_vars(Writer(t))

-----------------------------------------------------------------------------
(* Properties *)

Settings(keys) == [keys -> {"default", "value", "value and garbage"}]
Points == [name : Names, known : BOOLEAN]
Holders == Threads \cup {Main, Nobody}

\* The types of the session, of the threads' locals and of the library's state.
TypeOK ==
  /\ session_lock \in Holders
  /\ mpoint \in Seq(Points) /\ oml_initialized \in BOOLEAN /\ settings \in Settings(Keys)
  /\ mp_lock \in Seq(Holders) /\ Len(mp_lock) = Len(mpoint)
  /\ phase \in {"config", "init", "running", "done", "crashed", "aborted"}
  /\ oml \in {"none", "started", "failed", "closed"} /\ omlArgs \in Settings(OmlKeys)
  /\ pc \in [Threads -> {"idle", "find", "found", "check", "fill", "inject"}]
  /\ ds \in [Threads -> Names] /\ mp \in [Threads -> Nat] /\ writes \in Nat

\* The list never holds two points of one name, however the look-ups and creations of
\* find_mpoint() interleave.
UniqueNames == \A i, j \in 1..Len(mpoint) : mpoint[i].name = mpoint[j].name => i = j

\* A thread past find_mpoint() holds a point of its own data set's name, and no two threads
\* are in omlc_inject() on one point: v[] is laid out for that point's columns.
InjectExclusive ==
  /\ \A t \in Threads : pc[t] \in {"check", "fill", "inject"} =>
       mp[t] \in 1..Len(mpoint) /\ mpoint[mp[t]].name = ds[t]
  /\ \A t, u \in Threads : pc[t] = "inject" /\ pc[u] = "inject" /\ mp[t] = mp[u] => t = u

\* omlc_inject() is only called between a successful omlc_start() and omlc_close(), though
\* oml_write() tests oml_initialized under a lock it has released by then.
InjectWhileUp == \A t \in Threads : pc[t] = "inject" => oml = "started"

\* The calls of the OML client library, as the plugin's state shows them.
addedNames == [i \in 1..Len(mpoint) |-> mpoint[i].name]
injections == {<<t, mpoint[mp[t]].name>> : t \in {u \in Threads : pc[u] = "inject"}}

Client == INSTANCE OmlClient WITH client <- oml, added <- addedNames, injecting <- injections

\* The plugin uses OML as it wants to be used: threads that find, create, test and lock in any
\* order never add a name twice, never inject into one point at a time from two threads, and never
\* inject before omlc_start() or across omlc_close().
ClientRefines == Client!Spec

\* Every call of oml_write() returns: no lock is left taken and no two locks are taken crosswise.
WritesReturn == \A t \in Threads : pc[t] = "find" ~> pc[t] = "idle"

\* "forcing OML to establish the connection before the first oml_write can proceed": a point
\* is only added to an OML client that is up.
AddedWhileUp == \A i \in 1..Len(mpoint) : mpoint[i].known
=============================================================================
