-------------------------------- MODULE Settings -------------------------------
(***************************************************************************)
(* The connection of an organization to one provider of the integrations   *)
(* page, and the cache in front of the list of connections.  A request is  *)
(* a process with one action per awaited call; an administrator remembers  *)
(* what the last list showed, and sends its version with the next save.    *)
(* What a save writes is told apart by the version it makes.               *)
(***************************************************************************)
EXTENDS Naturals, FiniteSets

CONSTANTS Admin,       \* administrators, each with one request at a time
          MaxVersion,  \* bound: writes of the connection
          MaxLists     \* bound: lists

ASSUME SettingsAssumption == MaxVersion \in Nat /\ MaxLists \in Nat

VARIABLES connection,   \* the row: its version, 0 before it exists, and deletedAt
          generation,   \* the cache's generation of the list
          cached,       \* cached[g]: the row as the entry of generation g holds it
          admin,        \* admin[a]: the request of a and what it remembers
          published,    \* version of the row when an invalidation last came through
          lists         \* lists so far

settingsVars == <<connection, generation, cached, admin, published, lists>>

ConnectionRow == [version : 0..MaxVersion, deleted : BOOLEAN]
NoEntry == [version |-> 0, deleted |-> TRUE]   \* nothing is cached
Generation == 0..MaxVersion
\* A request at rest shows the last list (shown); since is what had been published
\* when that list began.
AdminState ==
    [at : {"rest", "generation", "lookup", "load", "store", "check", "create", "update",
           "delete", "record", "publish", "refused"},
     key : Generation, versioned : BOOLEAN, shown : ConnectionRow, since : 0..MaxVersion]

SettingsTypeOK ==
    /\ connection \in ConnectionRow
    /\ generation \in Generation
    /\ cached \in [Generation -> ConnectionRow]
    /\ admin \in [Admin -> AdminState]
    /\ published \in 0..MaxVersion
    /\ lists \in 0..MaxLists

SettingsInit ==
    /\ connection = [version |-> 0, deleted |-> FALSE]
    /\ generation = 0
    /\ cached = [g \in Generation |-> NoEntry]
    /\ admin = [a \in Admin |-> [at |-> "rest", key |-> 0, versioned |-> FALSE,
                                 shown |-> [version |-> 0, deleted |-> FALSE], since |-> 0]]
    /\ published = 0
    /\ lists = 0

-------------------------------------------------------------------------------
AdminAt(a, step) == admin[a].at = step
AdminDo(a, r) == admin' = [admin EXCEPT ![a] = r]
AdminGoTo(a, step) == AdminDo(a, [admin[a] EXCEPT !.at = step])
\* The request is over, and the administrator remembers what was shown.
AdminRest(a, s) ==
    AdminDo(a, [admin[a] EXCEPT !.at = "rest", !.key = 0, !.versioned = FALSE, !.shown = s])

\* A deleted row is outside the scoped client: nobody is shown it.
Visible(s) == s.version > 0 /\ ~s.deleted
Exists(s) == s.version > 0

\* The list: the generation, then the entry of that generation.
BeginList(a) ==
    /\ AdminAt(a, "rest")
    /\ lists < MaxLists
    /\ lists' = lists + 1
    /\ AdminDo(a, [admin[a] EXCEPT !.at = "generation", !.since = published])
    /\ UNCHANGED <<connection, generation, cached, published>>

\* A call to the cache that rejects, as it does when there is none, leads to the load;
\* before the generation is known the key is that of no generation.
ReadGeneration(a) ==
    /\ AdminAt(a, "generation")
    /\ \/ AdminDo(a, [admin[a] EXCEPT !.at = "lookup", !.key = generation, !.versioned = TRUE])
       \/ AdminDo(a, [admin[a] EXCEPT !.at = "load", !.versioned = FALSE])
    /\ UNCHANGED <<connection, generation, cached, published, lists>>

LookUp(a) ==
    /\ AdminAt(a, "lookup")
    /\ \/ /\ cached[admin[a].key] # NoEntry
          /\ AdminRest(a, cached[admin[a].key])
       \/ AdminGoTo(a, "load")      \* no entry, an entry that expired, or a rejection
    /\ UNCHANGED <<connection, generation, cached, published, lists>>

Load(a) ==
    /\ AdminAt(a, "load")
    /\ AdminDo(a, [admin[a] EXCEPT !.at = "store", !.shown = connection])
    /\ UNCHANGED <<connection, generation, cached, published, lists>>

\* Mutant: the entry is stored under the generation of the moment.
StoreLate(a) ==
    /\ AdminAt(a, "store")
    /\ cached' = [cached EXCEPT ![generation] = admin[a].shown]
    /\ AdminRest(a, admin[a].shown)
    /\ UNCHANGED <<connection, generation, published, lists>>

\* The key is the one looked up before the load; without a generation nobody reads it.
Store(a) ==
    /\ AdminAt(a, "store")
    /\ \/ /\ admin[a].versioned
          /\ cached' = [cached EXCEPT ![admin[a].key] = admin[a].shown]
       \/ UNCHANGED cached          \* no generation, or a rejection
    /\ AdminRest(a, admin[a].shown)
    /\ UNCHANGED <<connection, generation, published, lists>>

-------------------------------------------------------------------------------
\* configure, disconnect and testConnection each read the row first.
BeginConfigure(a) ==
    /\ AdminAt(a, "rest")
    /\ AdminGoTo(a, "check")
    /\ UNCHANGED <<connection, generation, cached, published, lists>>

\* save finds the row, deleted or not, and compares its version with the one sent: the
\* version shown, or none when the list showed no connection.
CheckVersion(a) ==
    LET sent == IF Visible(admin[a].shown) THEN admin[a].shown.version ELSE 0
    IN  /\ AdminAt(a, "check")
        /\ AdminGoTo(a, IF ~Exists(connection) THEN "create"
                        ELSE IF sent = connection.version THEN "update"
                        ELSE "refused")
        /\ UNCHANGED <<connection, generation, cached, published, lists>>

WriteConnection(deleted) ==
    /\ connection.version < MaxVersion
    /\ connection' = [version |-> connection.version + 1, deleted |-> deleted]

\* A provider has one row: a second insert rejects.
Create(a) ==
    /\ AdminAt(a, "create")
    /\ \/ /\ ~Exists(connection)
          /\ WriteConnection(FALSE)
          /\ AdminGoTo(a, "publish")
       \/ /\ Exists(connection)
          /\ AdminRest(a, admin[a].shown)
          /\ UNCHANGED connection
    /\ UNCHANGED <<generation, cached, published, lists>>

\* By id only: whatever was written since the check is written over.
Update(a) ==
    /\ AdminAt(a, "update")
    /\ WriteConnection(FALSE)
    /\ AdminGoTo(a, "publish")
    /\ UNCHANGED <<generation, cached, published, lists>>

BeginDisconnect(a) ==
    /\ AdminAt(a, "rest")
    /\ Visible(connection)
    /\ AdminGoTo(a, "delete")
    /\ UNCHANGED <<connection, generation, cached, published, lists>>

\* Nobody looks whether a row was deleted.
Disconnect(a) ==
    /\ AdminAt(a, "delete")
    /\ IF Visible(connection) THEN WriteConnection(TRUE) ELSE UNCHANGED connection
    /\ AdminGoTo(a, "publish")
    /\ UNCHANGED <<generation, cached, published, lists>>

BeginTest(a) ==
    /\ AdminAt(a, "rest")
    /\ Visible(connection)
    /\ AdminGoTo(a, "record")
    /\ UNCHANGED <<connection, generation, cached, published, lists>>

RecordTest(a) ==
    /\ AdminAt(a, "record")
    /\ \/ /\ Visible(connection)
          /\ WriteConnection(FALSE)
          /\ AdminGoTo(a, "publish")
       \/ /\ ~Visible(connection)
          /\ AdminRest(a, admin[a].shown)
          /\ UNCHANGED connection
    /\ UNCHANGED <<generation, cached, published, lists>>

\* The generation moves on; a rejection is passed over and the entries stay until
\* they expire.
Invalidate(a) ==
    /\ AdminAt(a, "publish")
    /\ \/ /\ generation < MaxVersion
          /\ generation' = generation + 1
          /\ published' = connection.version
       \/ UNCHANGED <<generation, published>>
    /\ AdminRest(a, admin[a].shown)
    /\ UNCHANGED <<connection, cached, lists>>

\* The administrator reads the refusal, or a request stops between two calls.
Leave(a) ==
    /\ ~AdminAt(a, "rest")
    /\ AdminDo(a, [admin[a] EXCEPT !.at = "rest", !.key = 0, !.versioned = FALSE, !.since = 0])
    /\ UNCHANGED <<connection, generation, cached, published, lists>>

AdminStep(a) ==
    \/ BeginList(a) \/ ReadGeneration(a) \/ LookUp(a) \/ Load(a) \/ Store(a)
    \/ BeginConfigure(a) \/ CheckVersion(a) \/ Create(a) \/ Update(a)
    \/ BeginDisconnect(a) \/ Disconnect(a) \/ BeginTest(a) \/ RecordTest(a)
    \/ Invalidate(a) \/ Leave(a)

SettingsNext == \E a \in Admin : AdminStep(a)

SettingsSpec == SettingsInit /\ [][SettingsNext]_settingsVars

-------------------------------------------------------------------------------
\* A list that began after a change was published shows the connection as it was
\* changed or later, though loads that began before the change still store what they
\* read (cacheGetOrLoad, invalidateTenantCache).
FreshAfterPublishing ==
    \A a \in Admin : AdminAt(a, "rest") => admin[a].shown.version >= admin[a].since

\* A save is refused only when the connection has changed since the list that the
\* administrator saw.
\* (integrations.service.ts:59: "The integration changed. Refresh and try again.")
RefusedIsChanged ==
    \A a \in Admin : AdminAt(a, "refused") => connection.version # admin[a].shown.version
================================================================================
