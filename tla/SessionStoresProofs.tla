-------------------------- MODULE SessionStoresProofs --------------------------
(***************************************************************************)
(* Proofs about what is stored of a project's sessions: SessionCatalog,    *)
(* EventProjections and SessionQueue.                                      *)
(*                                                                         *)
(* SessionCatalog, for every number of sessions, projects, artifacts,      *)
(* threads, operations and crashes.  CatalogInv says what a command may    *)
(* rely on between its steps:                                              *)
(*                                                                         *)
(*   IdsAreIssued     an id that was never made names nothing, so a fresh  *)
(*                    one finds no events and no directory;                *)
(*   CommandIsSound   what each command knows at the place it has reached: *)
(*                    a fork's target is unlisted and holds no more than   *)
(*                    its source, a delete's sessions stay unlisted;       *)
(*   CommandsAreApart, TargetsAreOwn                                       *)
(*                    no other command or journal names the target of a    *)
(*                    fork that may still be published;                    *)
(*   BootIsAlone      start-up recovery never meets a command;             *)
(*   ResidueIsCovered what is left of an unlisted session is named by a    *)
(*                    journal that recovery will act on, not merely by one *)
(*                    whose work is over.                                  *)
(*                                                                         *)
(* EventProjections, for every number of sessions, recalls and events.     *)
(* ProjectionInv says that a row holds exactly the events up to its label, *)
(* and a recall what it claims for as long as the log has not moved on.    *)
(*                                                                         *)
(* SessionQueue, for every set of messages and dispatchers, every steer    *)
(* limit and every number of edits.  Its properties hold together or not   *)
(* at all: a message is delivered once because one dispatch at a time      *)
(* holds it, and as it was saved because the copy a dispatch took cannot   *)
(* be edited behind its back.  QueueInv adds what the handlers rely on     *)
(* without checking it: which queue ids the durable status, a registered   *)
(* run and a suspended run may carry, and what a dispatcher knows of the   *)
(* message it took.                                                        *)
(***************************************************************************)
EXTENDS SessionCatalog, EventProjections, SessionQueue, FiniteSetTheorems, TLAPS

(***************************************************************************)
(* The catalog, its commands and its journals.                             *)
(***************************************************************************)
\* Where a fork holds its unlisted target; until it is stored it may yet be
\* published.
Publishable == {"chosen", "loaded", "journalled", "cloned", "stored"}
Forking == Publishable \cup {"aborting", "rolledBack"}
Cleaning == {"published", "retired", "cleaned"}
CatalogPlaces == {"idle", "deleting", "done"} \cup Forking \cup Cleaning

Catalogs == [home : [SessionIds -> ProjectIds \cup {NoProject}],
             archived : SUBSET SessionIds, projects : SUBSET ProjectIds,
             activeProject : ProjectIds \cup {NoProject},
             activeSession : SessionIds \cup {NoSession}]
\* A session without events has no trace of any.
Stored == {e \in EventSet : e.present \/ e = NoEvents}
CatalogCommands == [at : CatalogPlaces, job : JobSet, copy : EventSet]

CatalogTypes ==
  /\ catalog \in Catalogs
  /\ journals \subseteq JobSet /\ deferred \subseteq journals
  /\ events \in [SessionIds -> Stored]
  /\ attachments \subseteq SessionIds /\ artifacts \subseteq Artifacts
  /\ phase \in {"up", "down"} /\ running \subseteq SessionIds
  /\ issued \subseteq SessionIds \cup ProjectIds
  /\ catalogThread \in [AllThreads -> CatalogCommands]

\* An id that was never made names nothing; what is archived or running is
\* listed.
IdsAreIssued ==
  /\ catalog.projects \subseteq issued
  /\ \A s \in SessionIds :
       /\ Listed(s) => s \in issued
       /\ s \in catalog.archived \cup running => Listed(s)
       /\ s \notin issued => events[s] = NoEvents /\ s \notin attachments

\* A journal is about one session, or about a project and sessions that were in
\* it; its ids were made.
JobIsSound(j) ==
  /\ j.kind \in {"fork", "delete"}
  /\ j.ids \subseteq issued /\ j.project \in ProjectIds /\ j.project \in issued
  /\ j.kind = "fork" => ~j.whole
  /\ ~j.whole => \E s \in SessionIds : j.ids = {s}
  /\ j.whole => \A s \in j.ids : catalog.home[s] \in {j.project, NoProject}

\* What a fork knows: its target is unlisted and empty until it is journalled;
\* of a source that is still listed it has nothing the source has lost; what it
\* stored came with its attachments.
ForkIsSound(c) ==
  /\ c.at \in Forking => c.job.kind = "fork" /\ \A s \in c.job.ids : ~Listed(s)
  /\ c.at \in Publishable => c.job.source \in SessionIds /\ c.job.source \in issued
  /\ c.at \in {"chosen", "loaded"} =>
       \A s \in c.job.ids : events[s] = NoEvents /\ s \notin attachments
  /\ c.at \in Publishable /\ Listed(c.job.source) =>
       c.copy.refs \subseteq events[c.job.source].refs
  /\ c.at \in {"cloned", "stored"} /\ c.copy.attached => c.job.ids \subseteq attachments
  /\ c.at = "stored" => \A s \in c.job.ids :
       /\ events[s].refs \subseteq c.copy.refs
       /\ events[s].attached => c.copy.attached
       /\ events[s].present => events[s].project = c.job.project
  /\ c.at = "rolledBack" => \A s \in c.job.ids : ~events[s].present

\* What a delete knows: between journal and publication the catalog is its own
\* and nothing it deletes runs; after that its sessions, and its project, stay
\* unlisted.
DeleteIsSound(c) ==
  /\ c.at \in {"deleting"} \cup Cleaning => c.job.kind = "delete"
  /\ c.at = "deleting" =>
       /\ c.job.ids \cap running = {}
       /\ \A s \in c.job.ids : Listed(s)
       /\ c.job.whole => /\ c.job.project \in catalog.projects
                         /\ c.job.ids = {s \in SessionIds : catalog.home[s] = c.job.project}
  /\ c.at \in Cleaning \cup {"done"} /\ c.job.kind = "delete" =>
       /\ \A s \in c.job.ids : ~Listed(s)
       /\ c.job.whole => c.job.project \notin catalog.projects
  /\ c.at = "cleaned" => \A s \in c.job.ids : ~events[s].present

CommandIsSound(c) ==
  /\ c.at = "idle" => c.job = NoJob
  /\ c.at # "idle" => JobIsSound(c.job) /\ c.job \notin deferred
  /\ c.at \notin {"idle", "chosen", "loaded"} => c.job \in journals
  /\ ForkIsSound(c)
  /\ DeleteIsSound(c)

\* Commands keep out of each other's way: no two have the same job, nobody
\* names the target of a fork or forks it before it is published, and no journal
\* but its own can list or delete it.
CommandsAreApart ==
  \A t, u \in AllThreads :
    t # u =>
      /\ catalogThread[t].at # "idle" => catalogThread[t].job # catalogThread[u].job
      /\ catalogThread[t].at \in Forking =>
           catalogThread[t].job.ids \cap catalogThread[u].job.ids = {}
      /\ catalogThread[t].at \in Publishable /\ catalogThread[u].at \in Publishable =>
           catalogThread[t].job.source \notin catalogThread[u].job.ids
      /\ ~(catalogThread[t].at = "deleting" /\ catalogThread[u].at = "deleting")
TargetsAreOwn ==
  \A t \in AllThreads, j \in journals :
    catalogThread[t].at \in Publishable /\ j.ids \cap catalogThread[t].job.ids # {}
      => j = catalogThread[t].job

\* Start-up works alone, and only where recovery leads.
BootIsAlone ==
  /\ phase = "down" => running = {} /\ \A t \in CatalogThreads : catalogThread[t].at = "idle"
  /\ phase = "up" => catalogThread[Boot].at = "idle"
  /\ catalogThread[Boot].at \notin Publishable \cup {"deleting"}

\* A deferred journal is that of a session's finished deletion.
DeferredAreDeletes ==
  \A j \in deferred : j.kind = "delete" /\ ~j.whole /\ \A s \in j.ids : ~Listed(s)

\* Recovery will act on a journal: what it names is not, or no longer, listed.
Unfinished(j) ==
  IF j.whole THEN j.project \notin catalog.projects ELSE \A s \in j.ids : ~Listed(s)

\* A journal nobody will act on again: its job is done, or waits only for the
\* memory refresh.
Settled(j) ==
  j \in deferred \/ \E t \in AllThreads : catalogThread[t].at = "done" /\ catalogThread[t].job = j

\* What is stored of an unlisted session is named by a journal that recovery, or
\* the command at work on it, will act on.
ResidueIsCovered ==
  \A s \in SessionIds :
    ~Listed(s) /\ (events[s].present \/ s \in attachments)
    => \E j \in journals : s \in j.ids /\ Unfinished(j) /\ ~Settled(j)

SelectedProject == catalog.projects # {} => catalog.activeProject \in catalog.projects

CatalogInv ==
  /\ CatalogTypes
  /\ IdsAreIssued
  /\ \A j \in journals : JobIsSound(j)
  /\ \A t \in AllThreads : CommandIsSound(catalogThread[t])
  /\ CommandsAreApart /\ TargetsAreOwn
  /\ BootIsAlone
  /\ DeferredAreDeletes
  /\ ResidueIsCovered
  /\ ListedSessionIsWhole /\ SelectionIsOpen /\ SelectedProject
-----------------------------------------------------------------------------
\* What recovery decides is whether the journal is unfinished.
LEMMA RecoveryFacts ==
  ASSUME NEW j \in JobSet, JobIsSound(j)
  PROVE  /\ RecoveryOf(j) = "done" <=> ~Unfinished(j)
         /\ Unfinished(j) => RecoveryOf(j) = IF j.kind = "fork" THEN "aborting" ELSE "published"
  BY DEF RecoveryOf, Unfinished, JobIsSound

\* The fields of a job.
LEMMA JobFields ==
  ASSUME NEW j \in JobSet
  PROVE  /\ j.ids \subseteq SessionIds /\ j.whole \in BOOLEAN
         /\ j.kind \in {"none", "fork", "delete"}
  BY DEF JobSet

\* The fields of a command.
LEMMA CommandFields ==
  ASSUME CatalogTypes, NEW t \in AllThreads
  PROVE  /\ catalogThread[t] \in CatalogCommands
         /\ catalogThread[t].at \in CatalogPlaces
         /\ catalogThread[t].job \in JobSet
         /\ catalogThread[t].copy \in EventSet
         /\ catalogThread[t].job.ids \subseteq SessionIds
  BY DEF CatalogTypes, CatalogCommands, JobSet

\* The target of a fork, and the session of a delete, is the one id of the job.
LEMMA TargetIsTheId ==
  ASSUME CatalogTypes, NEW t \in AllThreads, JobIsSound(catalogThread[t].job),
         ~catalogThread[t].job.whole
  PROVE  /\ Target(t) \in SessionIds
         /\ catalogThread[t].job.ids = {Target(t)}
  BY DEF Target, JobIsSound

\* An empty store and an idle command, as records.
LEMMA NothingFacts ==
  /\ NoEvents \in EventSet /\ NoEvents \in Stored /\ ~NoEvents.present /\ ~NoEvents.attached /\ NoEvents.refs = {}
  /\ NoJob \in JobSet /\ NoJob.ids = {} /\ NoJob.kind = "none" /\ ~NoJob.whole
  /\ IdleCommand \in CatalogCommands /\ IdleCommand.at = "idle" /\ IdleCommand.job = NoJob
  BY DEF NoEvents, EventSet, Stored, NoJob, JobSet, IdleCommand, CatalogCommands, CatalogPlaces

\* At first there is one session in one project, and nothing stored.
LEMMA CatalogInitInv == CatalogInit => CatalogInv
<1> SUFFICES ASSUME CatalogInit PROVE CatalogInv
  OBVIOUS
<1> USE DEF CatalogInit
<1>0. PICK s \in SessionIds, p \in ProjectIds :
        /\ catalog = [home |-> [x \in SessionIds |-> IF x = s THEN p ELSE NoProject],
                      archived |-> {}, projects |-> {p},
                      activeProject |-> p, activeSession |-> s]
        /\ issued = {s, p}
  OBVIOUS
<1>1. /\ catalog \in Catalogs /\ catalog.projects = {p} /\ catalog.archived = {}
      /\ catalog.activeProject = p /\ catalog.activeSession = s
      /\ \A x \in SessionIds : catalog.home[x] = IF x = s THEN p ELSE NoProject
      /\ p # NoProject
  BY <1>0, CatalogNames DEF Catalogs
<1>2. \A t \in AllThreads : catalogThread[t] = IdleCommand
  OBVIOUS
<1>3. CatalogTypes
  BY <1>0, <1>1, NothingFacts DEF CatalogTypes
<1>4. IdsAreIssued
  BY <1>0, <1>1 DEF IdsAreIssued, Listed
<1>5. \A t \in AllThreads : CommandIsSound(catalogThread[t])
  BY <1>2, NothingFacts DEF CommandIsSound, ForkIsSound, DeleteIsSound, Forking, Publishable,
     Cleaning
<1>6. CommandsAreApart /\ TargetsAreOwn /\ BootIsAlone
  BY <1>2, NothingFacts DEF CommandsAreApart, TargetsAreOwn, BootIsAlone, AllThreads, Forking,
     Publishable
<1>7. DeferredAreDeletes /\ ResidueIsCovered
  BY NothingFacts DEF DeferredAreDeletes, ResidueIsCovered
<1>8. ListedSessionIsWhole /\ SelectionIsOpen /\ SelectedProject
  BY <1>1, NothingFacts DEF ListedSessionIsWhole, SelectionIsOpen, SelectedProject,
     OpenSessions, Listed
<1> QED
  BY <1>3, <1>4, <1>5, <1>6, <1>7, <1>8 DEF CatalogInv

-----------------------------------------------------------------------------
(* Steps of the catalog alone.                                             *)

\* A session that was made and is unlisted stays unlisted, and what was made
\* keeps its place, so that no command and no journal notices that the catalog
\* grows.
LEMMA CatalogGrows ==
  ASSUME CatalogInv, CatalogFree, catalog' \in Catalogs,
         \A s \in SessionIds : s \in issued => catalog'.home[s] = catalog.home[s],
         \A s \in SessionIds : Listed(s)' => s \in issued',
         catalog.projects \subseteq catalog'.projects,
         \A p \in catalog'.projects : p \in catalog.projects \/ p \notin issued,
         issued \subseteq issued', issued' \subseteq SessionIds \cup ProjectIds,
         catalog'.projects \subseteq issued',
         \A s \in catalog'.archived : Listed(s)',
         \A s \in SessionIds : Listed(s)' => catalog'.home[s] \in catalog'.projects,
         SelectionIsOpen', SelectedProject',
         UNCHANGED <<journals, events, attachments, artifacts, phase, deferred,
                     catalogThread, running>>
  PROVE  CatalogInv'
<1> USE DEF Listed
<1>1. \A s \in SessionIds : s \in issued => (Listed(s)' <=> Listed(s))
  OBVIOUS
<1>2. \A s \in SessionIds : Listed(s) => s \in issued /\ Listed(s)'
  BY DEF CatalogInv, IdsAreIssued
<1>3. CatalogTypes'
  BY DEF CatalogInv, CatalogTypes
<1>4. IdsAreIssued'
  BY <1>2 DEF CatalogInv, IdsAreIssued
<1>5. ASSUME NEW j \in JobSet, JobIsSound(j)
      PROVE  /\ JobIsSound(j)'
             /\ Unfinished(j) => Unfinished(j)'
             /\ \A s \in j.ids : Listed(s)' <=> Listed(s)
  <2>1. j.ids \subseteq SessionIds
    BY JobFields
  <2>2. \A s \in j.ids : catalog'.home[s] = catalog.home[s]
    BY <1>5, <2>1 DEF JobIsSound
  <2> QED
    BY <1>5, <2>1, <2>2 DEF JobIsSound, Unfinished
<1>6. \A j \in journals : JobIsSound(j)'
  BY <1>5 DEF CatalogInv, CatalogTypes
<1>7. ASSUME NEW t \in AllThreads PROVE CommandIsSound(catalogThread[t])'
  <2> DEFINE c == catalogThread[t]
  <2>1. /\ CommandIsSound(c) /\ c.job \in JobSet /\ c.at # "deleting"
    BY CommandFields DEF CatalogInv, CatalogFree
  <2>2. CASE c.at = "idle"
    BY <2>1, <2>2 DEF CommandIsSound, ForkIsSound, DeleteIsSound, Forking, Publishable, Cleaning
  <2>3. CASE c.at # "idle"
    <3>1. JobIsSound(c.job)
      BY <2>1, <2>3 DEF CommandIsSound
    <3>2. /\ JobIsSound(c.job)'
          /\ \A s \in c.job.ids : Listed(s)' <=> Listed(s)
      BY <1>5, <2>1, <3>1
    <3>3. ForkIsSound(c)'
      <4>1. c.at \in Publishable => (Listed(c.job.source)' <=> Listed(c.job.source))
        BY <1>1, <2>1 DEF CommandIsSound, ForkIsSound
      <4> QED
        BY <2>1, <3>2, <4>1 DEF CommandIsSound, ForkIsSound
    <3>4. DeleteIsSound(c)'
      BY <2>1, <3>1, <3>2 DEF CommandIsSound, DeleteIsSound, JobIsSound
    <3> QED
      BY <2>1, <2>3, <3>2, <3>3, <3>4 DEF CommandIsSound
  <2> QED
    BY <2>2, <2>3
<1>8. CommandsAreApart' /\ TargetsAreOwn' /\ BootIsAlone'
  BY DEF CatalogInv, CommandsAreApart, TargetsAreOwn, BootIsAlone
<1>9. DeferredAreDeletes'
  <2>1. \A j \in deferred : \A s \in j.ids : Listed(s)' <=> Listed(s)
    BY <1>5 DEF CatalogInv, CatalogTypes
  <2> QED
    BY <2>1 DEF CatalogInv, DeferredAreDeletes
<1>10. ResidueIsCovered'
  <2>1. \A j \in journals : Unfinished(j) => Unfinished(j)'
    BY <1>5 DEF CatalogInv, CatalogTypes
  <2>2. \A j \in journals : Settled(j)' <=> Settled(j)
    BY DEF Settled
  <2> QED
    BY <1>2, <2>1, <2>2 DEF CatalogInv, ResidueIsCovered
<1>11. ListedSessionIsWhole'
  <2> SUFFICES ASSUME NEW s \in SessionIds, Listed(s)'
               PROVE  /\ events[s].refs \subseteq artifacts
                      /\ events[s].attached => s \in attachments
                      /\ events[s].present => events[s].project = catalog'.home[s]
    BY DEF ListedSessionIsWhole
  <2>1. CASE s \in issued
    BY <2>1 DEF CatalogInv, ListedSessionIsWhole
  <2>2. CASE s \notin issued
    BY <2>2, NothingFacts DEF CatalogInv, IdsAreIssued
  <2> QED
    BY <2>1, <2>2
<1> QED
  BY <1>3, <1>4, <1>6, <1>7, <1>8, <1>9, <1>10, <1>11 DEF CatalogInv

\* ensure_open_session_for_project selects an open session of the project and
\* lists at most a new one.
LEMMA EnsureOpenFacts ==
  ASSUME NEW STATE c, c \in Catalogs, NEW STATE p, p \in ProjectIds, c.activeProject = p,
         \A s \in c.archived : s \in issued,
         NEW STATE d, d \in EnsureOpen(c, p)
  PROVE  /\ d \in Catalogs /\ d.projects = c.projects /\ d.archived = c.archived
         /\ d.activeProject = p /\ d.activeSession \in OpenSessions(d, p)
         /\ \A s \in SessionIds :
              d.home[s] = c.home[s] \/ (s \notin issued /\ d.home[s] = p)
<1>1. CASE OpenSessions(c, p) # {}
  <2>1. PICK s \in OpenSessions(c, p) : d = [c EXCEPT !.activeSession = s]
    BY <1>1 DEF EnsureOpen
  <2> QED
    BY <2>1 DEF OpenSessions, Catalogs
<1>2. CASE OpenSessions(c, p) = {}
  <2>1. PICK s \in SessionIds \ issued : d = [c EXCEPT !.home[s] = p, !.activeSession = s]
    BY <1>2 DEF EnsureOpen
  <2>2. /\ d \in Catalogs /\ d.projects = c.projects /\ d.archived = c.archived
        /\ d.activeProject = p /\ d.activeSession = s
        /\ d.home = [c.home EXCEPT ![s] = p]
    BY <2>1 DEF Catalogs
  <2>3. \A x \in SessionIds : d.home[x] = IF x = s THEN p ELSE c.home[x]
    BY <2>2 DEF Catalogs
  <2>4. s \in OpenSessions(d, p)
    BY <2>2, <2>3 DEF OpenSessions
  <2> QED
    BY <2>1, <2>2, <2>3, <2>4
<1> QED
  BY <1>1, <1>2

\* The sessions of a catalog that adds at most sessions and projects not made
\* before, with an open session selected.
Extends(c) ==
  /\ c \in Catalogs
  /\ \A s \in SessionIds :
       c.home[s] = catalog.home[s] \/ (s \notin issued /\ c.home[s] \in c.projects)
  /\ catalog.projects \subseteq c.projects
  /\ \A p \in c.projects : p \in catalog.projects \/ p \notin issued
  /\ \A s \in c.archived : c.home[s] # NoProject
  /\ c.activeProject \in c.projects
  /\ c.activeSession \in OpenSessions(c, c.activeProject)

\* An edit of the catalog that only adds fresh ids, and closes no project,
\* keeps the invariant.
LEMMA ExtensionKeeps ==
  ASSUME CatalogInv, CatalogFree, NEW c, Extends(c), Commit(c), CatalogOnly
  PROVE  CatalogInv'
<1>1. /\ catalog' = c
      /\ issued' = issued \cup c.projects \cup {s \in SessionIds : c.home[s] # NoProject}
  BY DEF Commit
<1>2. c \in Catalogs /\ c.projects \subseteq ProjectIds /\ NoProject \notin ProjectIds
  BY CatalogNames DEF Extends, Catalogs
<1>3. /\ \A s \in SessionIds : s \in issued => c.home[s] = catalog.home[s]
      /\ \A s \in SessionIds : c.home[s] # NoProject => c.home[s] \in c.projects
  <2>1. \A s \in SessionIds :
          catalog.home[s] # NoProject => catalog.home[s] \in c.projects
    BY DEF Extends, CatalogInv, ListedSessionIsWhole, Listed
  <2> QED
    BY <2>1 DEF Extends
<1>4. issued \subseteq SessionIds \cup ProjectIds
  BY DEF CatalogInv, CatalogTypes
<1>5. SelectionIsOpen' /\ SelectedProject'
  BY <1>1 DEF Extends, SelectionIsOpen, SelectedProject, OpenSessions
<1> QED
  BY <1>1, <1>2, <1>3, <1>4, <1>5, CatalogGrows DEF Extends, CatalogOnly, Listed

\* What a catalog in good order has.
LEMMA CatalogFacts ==
  ASSUME CatalogInv
  PROVE  /\ catalog \in Catalogs /\ catalog.projects \subseteq ProjectIds
         /\ \A s \in SessionIds : Listed(s) <=> catalog.home[s] \in catalog.projects
         /\ \A s \in catalog.archived : s \in SessionIds /\ Listed(s) /\ s \in issued
         /\ catalog.projects # {} =>
              /\ catalog.activeProject \in catalog.projects
              /\ catalog.activeSession \in SessionIds
              /\ catalog.activeSession \notin catalog.archived
              /\ catalog.home[catalog.activeSession] = catalog.activeProject
  BY CatalogNames DEF CatalogInv, CatalogTypes, Catalogs, ListedSessionIsWhole, Listed,
     IdsAreIssued, SelectionIsOpen, SelectedProject, OpenSessions

\* Each edit of the catalog is of that kind.
LEMMA CatalogEditKeeps ==
  ASSUME CatalogInv,
         \/ CreateProject \/ CreateSession \/ SelectProject \/ SelectSession
         \/ ArchiveSession \/ RestoreSession
  PROVE  CatalogInv'
<1> USE CatalogFacts, CatalogNames
<1>1. CASE CreateProject
  <2>1. PICK p \in ProjectIds \ issued, s \in SessionIds \ issued :
          Commit([catalog EXCEPT !.projects = @ \cup {p}, !.home[s] = p,
                                 !.activeProject = p, !.activeSession = s])
    BY <1>1 DEF CreateProject
  <2> DEFINE c == [catalog EXCEPT !.projects = @ \cup {p}, !.home[s] = p,
                                  !.activeProject = p, !.activeSession = s]
  <2>2. /\ c \in Catalogs /\ c.projects = catalog.projects \cup {p}
        /\ c.archived = catalog.archived /\ c.activeProject = p /\ c.activeSession = s
        /\ \A x \in SessionIds : c.home[x] = IF x = s THEN p ELSE catalog.home[x]
    BY DEF Catalogs
  <2>3. Commit(c) /\ CatalogFree /\ CatalogOnly
    BY <1>1, <2>1 DEF CreateProject
  <2> HIDE DEF c
  <2>4. Extends(c)
    BY <2>2 DEF Extends, OpenSessions, Listed
  <2> QED
    BY <2>3, <2>4, ExtensionKeeps
<1>2. CASE CreateSession
  <2>1. PICK p \in catalog.projects, s \in SessionIds \ issued :
          Commit([catalog EXCEPT !.home[s] = p, !.activeProject = p, !.activeSession = s])
    BY <1>2 DEF CreateSession
  <2> DEFINE c == [catalog EXCEPT !.home[s] = p, !.activeProject = p, !.activeSession = s]
  <2>2. /\ c \in Catalogs /\ c.projects = catalog.projects
        /\ c.archived = catalog.archived /\ c.activeProject = p /\ c.activeSession = s
        /\ \A x \in SessionIds : c.home[x] = IF x = s THEN p ELSE catalog.home[x]
    BY DEF Catalogs
  <2>3. Commit(c) /\ CatalogFree /\ CatalogOnly
    BY <1>2, <2>1 DEF CreateSession
  <2> HIDE DEF c
  <2>4. Extends(c)
    BY <2>2 DEF Extends, OpenSessions, Listed
  <2> QED
    BY <2>3, <2>4, ExtensionKeeps
<1>3. CASE SelectProject
  <2>1. PICK p \in catalog.projects :
          LET c == [catalog EXCEPT !.activeProject = p] IN
          IF c.activeSession \in OpenSessions(c, p) THEN Commit(c)
          ELSE \E d \in EnsureOpen(c, p) : Commit(d)
    BY <1>3 DEF SelectProject
  <2> DEFINE c == [catalog EXCEPT !.activeProject = p]
  <2>2. /\ c \in Catalogs /\ c.projects = catalog.projects /\ c.home = catalog.home
        /\ c.archived = catalog.archived /\ c.activeProject = p
        /\ c.activeSession = catalog.activeSession
    BY DEF Catalogs
  <2>3. IF c.activeSession \in OpenSessions(c, p) THEN Commit(c)
        ELSE \E d \in EnsureOpen(c, p) : Commit(d)
    BY <2>1
  <2> HIDE DEF c
  <2>4. CASE c.activeSession \in OpenSessions(c, p)
    <3>1. Extends(c)
      BY <2>2, <2>4 DEF Extends, Listed
    <3> QED
      BY <1>3, <2>3, <2>4, <3>1, ExtensionKeeps DEF SelectProject
  <2>5. CASE c.activeSession \notin OpenSessions(c, p)
    <3>1. PICK d \in EnsureOpen(c, p) : Commit(d)
      BY <2>3, <2>5
    <3>2. /\ d \in Catalogs /\ d.projects = c.projects /\ d.archived = c.archived
          /\ d.activeProject = p /\ d.activeSession \in OpenSessions(d, p)
          /\ \A s \in SessionIds :
               d.home[s] = c.home[s] \/ (s \notin issued /\ d.home[s] = p)
      BY <2>2, <3>1, EnsureOpenFacts
    <3>3. Extends(d)
      BY <2>2, <3>2 DEF Extends, Listed
    <3> QED
      BY <1>3, <3>1, <3>3, ExtensionKeeps DEF SelectProject
  <2> QED
    BY <2>4, <2>5
<1>4. CASE SelectSession
  <2>1. PICK s \in SessionIds \ catalog.archived :
          /\ Listed(s)
          /\ Commit([catalog EXCEPT !.activeProject = catalog.home[s], !.activeSession = s])
    BY <1>4 DEF SelectSession
  <2> DEFINE c == [catalog EXCEPT !.activeProject = catalog.home[s], !.activeSession = s]
  <2>2. /\ c \in Catalogs /\ c.projects = catalog.projects /\ c.home = catalog.home
        /\ c.archived = catalog.archived /\ c.activeProject = catalog.home[s]
        /\ c.activeSession = s
    BY DEF Catalogs
  <2>3. Commit(c) /\ CatalogFree /\ CatalogOnly
    BY <1>4, <2>1 DEF SelectSession
  <2> HIDE DEF c
  <2>4. Extends(c)
    BY <2>1, <2>2 DEF Extends, OpenSessions, Listed
  <2> QED
    BY <2>3, <2>4, ExtensionKeeps
<1>5. CASE ArchiveSession
  <2>1. PICK s \in SessionIds :
          LET c == [catalog EXCEPT !.archived = @ \cup {s}] IN
          /\ Listed(s)
          /\ IF c.activeSession = s THEN \E d \in EnsureOpen(c, c.home[s]) : Commit(d)
                                    ELSE Commit(c)
    BY <1>5 DEF ArchiveSession
  <2> DEFINE c == [catalog EXCEPT !.archived = @ \cup {s}]
  <2>2. /\ c \in Catalogs /\ c.projects = catalog.projects /\ c.home = catalog.home
        /\ c.archived = catalog.archived \cup {s}
        /\ c.activeProject = catalog.activeProject
        /\ c.activeSession = catalog.activeSession
    BY DEF Catalogs
  <2>3. /\ Listed(s) /\ s \in issued /\ catalog.projects # {}
        /\ IF c.activeSession = s THEN \E d \in EnsureOpen(c, c.home[s]) : Commit(d)
                                  ELSE Commit(c)
    BY <2>1 DEF CatalogInv, IdsAreIssued
  <2> HIDE DEF c
  <2>4. CASE c.activeSession # s
    <3>1. Extends(c)
      BY <2>2, <2>3, <2>4 DEF Extends, Listed, OpenSessions
    <3> QED
      BY <1>5, <2>3, <2>4, <3>1, ExtensionKeeps DEF ArchiveSession
  <2>5. CASE c.activeSession = s
    <3>1. PICK d \in EnsureOpen(c, c.home[s]) : Commit(d)
      BY <2>3, <2>5
    <3>2. c.activeProject = c.home[s] /\ c.home[s] \in catalog.projects
      BY <2>2, <2>3, <2>5
    <3>3. /\ d \in Catalogs /\ d.projects = c.projects /\ d.archived = c.archived
          /\ d.activeProject = c.home[s] /\ d.activeSession \in OpenSessions(d, c.home[s])
          /\ \A x \in SessionIds :
               d.home[x] = c.home[x] \/ (x \notin issued /\ d.home[x] = c.home[s])
      BY <2>2, <2>3, <3>1, <3>2, EnsureOpenFacts
    <3>4. Extends(d)
      BY <2>2, <2>3, <3>2, <3>3 DEF Extends, Listed
    <3> QED
      BY <1>5, <3>1, <3>4, ExtensionKeeps DEF ArchiveSession
  <2> QED
    BY <2>4, <2>5
<1>6. CASE RestoreSession
  <2>1. PICK s \in catalog.archived : Commit([catalog EXCEPT !.archived = @ \ {s}])
    BY <1>6 DEF RestoreSession
  <2> DEFINE c == [catalog EXCEPT !.archived = @ \ {s}]
  <2>2. /\ c \in Catalogs /\ c.projects = catalog.projects /\ c.home = catalog.home
        /\ c.archived = catalog.archived \ {s}
        /\ c.activeProject = catalog.activeProject
        /\ c.activeSession = catalog.activeSession
    BY DEF Catalogs
  <2>3. Commit(c) /\ CatalogFree /\ CatalogOnly /\ catalog.projects # {}
    BY <1>6, <2>1 DEF RestoreSession
  <2> HIDE DEF c
  <2>4. Extends(c)
    BY <2>2, <2>3 DEF Extends, OpenSessions, Listed
  <2> QED
    BY <2>3, <2>4, ExtensionKeeps
<1> QED
  BY <1>1, <1>2, <1>3, <1>4, <1>5, <1>6

-----------------------------------------------------------------------------
(* Steps of a fork and of a clean-up.                                      *)

\* A thread that was at work goes on with its job; the catalog, the journals and
\* the runs stay.
GoesOn(t) ==
  /\ \E c \in CatalogCommands : catalogThread' = [catalogThread EXCEPT ![t] = c]
  /\ catalogThread'[t].job = catalogThread[t].job
  /\ catalogThread[t].at \in Forking \cup Cleaning
  /\ catalogThread'[t].at \in Forking \cup Cleaning \cup {"done"}
  /\ catalogThread'[t].at \in Forking => catalogThread[t].at \in Forking
  /\ catalogThread'[t].at \in Publishable => catalogThread[t].at \in Publishable
  /\ UNCHANGED <<catalog, journals, phase, deferred, running, issued>>

\* It changes only what it deletes or forks, and leaves listed sessions alone;
\* a fork touches its target only, and only a fork writes events.
TouchesItsOwn(t) ==
  /\ events' \in [SessionIds -> Stored]
  /\ attachments' \subseteq SessionIds /\ artifacts' \subseteq Artifacts
  /\ \A s \in SessionIds :
       /\ Listed(s) => events'[s] = events[s]
       /\ s \notin catalogThread[t].job.ids =>
            /\ s \in attachments' <=> s \in attachments
            /\ events'[s] = events[s] \/ events'[s] = NoEvents
       /\ catalogThread[t].at \notin Forking => events'[s] = events[s] \/ events'[s] = NoEvents

\* Its sessions are not listed.
LEMMA WorkedOnIsUnlisted ==
  ASSUME CatalogInv, NEW t \in AllThreads, catalogThread[t].at \in Forking \cup Cleaning
  PROVE  /\ CommandIsSound(catalogThread[t]) /\ JobIsSound(catalogThread[t].job)
         /\ catalogThread[t].job \notin deferred
         /\ \A s \in catalogThread[t].job.ids : s \in SessionIds /\ ~Listed(s)
         /\ catalogThread[t].at \in Forking => catalogThread[t].job.kind = "fork"
         /\ catalogThread[t].at \in Cleaning => catalogThread[t].job.kind = "delete"
         /\ catalogThread[t].at \notin {"chosen", "loaded"} => catalogThread[t].job \in journals
<1>1. CommandIsSound(catalogThread[t]) /\ catalogThread[t].at # "idle"
  BY DEF CatalogInv, Forking, Publishable, Cleaning
<1>2. catalogThread[t].job.ids \subseteq SessionIds
  BY CommandFields DEF CatalogInv
<1>3. catalogThread[t].at \in Forking => ForkIsSound(catalogThread[t])
  BY <1>1 DEF CommandIsSound
<1>4. catalogThread[t].at \in Cleaning => DeleteIsSound(catalogThread[t])
  BY <1>1 DEF CommandIsSound
<1> QED
  BY <1>1, <1>2, <1>3, <1>4 DEF CommandIsSound, ForkIsSound, DeleteIsSound

\* The job at work is unfinished.
LEMMA WorkedOnIsUnfinished ==
  ASSUME CatalogInv, NEW t \in AllThreads, catalogThread[t].at \in Forking \cup Cleaning
  PROVE  Unfinished(catalogThread[t].job)
<1>1. /\ CommandIsSound(catalogThread[t]) /\ JobIsSound(catalogThread[t].job)
      /\ \A s \in catalogThread[t].job.ids : ~Listed(s)
  BY WorkedOnIsUnlisted
<1>2. catalogThread[t].job.whole => catalogThread[t].job.project \notin catalog.projects
  BY <1>1 DEF CommandIsSound, ForkIsSound, DeleteIsSound, JobIsSound
<1> QED
  BY <1>1, <1>2 DEF Unfinished

\* Such work keeps the invariant.
LEMMA WorkKeeps ==
  ASSUME CatalogInv, NEW t \in AllThreads, GoesOn(t), TouchesItsOwn(t),
         ForkIsSound(catalogThread[t])', DeleteIsSound(catalogThread[t])',
         catalogThread'[t].at \notin {"chosen", "loaded"} => catalogThread[t].job \in journals,
         \A s \in SessionIds : Listed(s) => events[s].refs \subseteq artifacts',
         catalogThread'[t].at = "done" =>
           \A s \in catalogThread[t].job.ids : ~events'[s].present /\ s \notin attachments'
  PROVE  CatalogInv'
<1> DEFINE k == catalogThread[t].job
<1>0. /\ CatalogTypes /\ catalogThread[t].at # "idle" /\ catalogThread'[t].at # "idle"
      /\ catalogThread[t].at # "deleting" /\ catalogThread'[t].at # "deleting"
      /\ catalogThread[t].at # "done"
  BY DEF CatalogInv, GoesOn, Forking, Publishable, Cleaning
<1>1. /\ JobIsSound(k) /\ k \notin deferred /\ \A s \in k.ids : s \in SessionIds /\ ~Listed(s)
  BY WorkedOnIsUnlisted DEF GoesOn
<1>2. /\ \A u \in AllThreads \ {t} : catalogThread'[u] = catalogThread[u]
      /\ catalogThread' \in [AllThreads -> CatalogCommands]
      /\ \A u \in AllThreads : catalogThread'[u].job = catalogThread[u].job
  BY <1>0 DEF GoesOn, CatalogTypes
<1>3. \A s \in SessionIds : Listed(s)' <=> Listed(s)
  BY DEF GoesOn, Listed
<1>4. \A j : JobIsSound(j)' <=> JobIsSound(j)
  BY DEF GoesOn, JobIsSound
<1>5. \A j : Unfinished(j)' <=> Unfinished(j)
  BY DEF GoesOn, Unfinished, Listed
<1>6. CatalogTypes'
  BY <1>0, <1>2 DEF CatalogTypes, GoesOn, TouchesItsOwn
<1>7. IdsAreIssued'
  <2>1. \A s \in SessionIds : s \notin issued => s \notin k.ids
    BY <1>1 DEF JobIsSound
  <2> QED
    BY <1>3, <2>1 DEF CatalogInv, IdsAreIssued, GoesOn, TouchesItsOwn
<1>8. ASSUME NEW u \in AllThreads PROVE CommandIsSound(catalogThread[u])'
  <2>1. CASE u = t
    BY <1>0, <1>1, <1>4, <2>1 DEF CommandIsSound, GoesOn
  <2>2. CASE u # t
    <3> DEFINE c == catalogThread[u]
    <3>1. catalogThread'[u] = c /\ CommandIsSound(c) /\ c.job.ids \subseteq SessionIds
      BY <1>0, <1>2, <2>2, CommandFields DEF CatalogInv
    <3>2. c.at \in Forking =>
            /\ c.job.ids \cap k.ids = {}
            /\ \A s \in c.job.ids : /\ s \in attachments' <=> s \in attachments
                                    /\ events'[s] = events[s] \/ events'[s] = NoEvents
      <4>1. c.at \in Forking => c.job.ids \cap k.ids = {}
        BY <2>2 DEF CatalogInv, CommandsAreApart
      <4> QED
        BY <3>1, <4>1 DEF TouchesItsOwn
    <3>3. ForkIsSound(c)'
      <4>1. c.at \in Publishable /\ Listed(c.job.source) =>
              events'[c.job.source] = events[c.job.source]
        BY <3>1 DEF CommandIsSound, ForkIsSound, TouchesItsOwn
      <4>2. Publishable \subseteq Forking /\ {"chosen", "loaded", "cloned", "stored"} \subseteq Publishable
            /\ "rolledBack" \in Forking
        BY DEF Forking, Publishable
      <4>3. ForkIsSound(c)
        BY <3>1 DEF CommandIsSound
      <4>4. UNCHANGED <<catalog, issued>>
        BY DEF GoesOn
      <4>5. /\ c.at \in Forking => c.job.kind = "fork" /\ \A s \in c.job.ids : ~Listed(s)'
            /\ c.at \in Publishable => c.job.source \in SessionIds /\ c.job.source \in issued'
        BY <4>3, <4>4 DEF ForkIsSound, Listed
      <4>6. c.at \in {"chosen", "loaded"} =>
              \A s \in c.job.ids : events'[s] = NoEvents /\ s \notin attachments'
        BY <3>2, <4>2, <4>3 DEF ForkIsSound
      <4>7. c.at \in Publishable /\ Listed(c.job.source)' =>
              c.copy.refs \subseteq events'[c.job.source].refs
        BY <3>1, <4>1, <4>3, <4>4 DEF ForkIsSound, Listed
      <4>8. c.at \in {"cloned", "stored"} /\ c.copy.attached => c.job.ids \subseteq attachments'
        BY <3>2, <4>2, <4>3 DEF ForkIsSound
      <4>9. c.at = "stored" => \A s \in c.job.ids :
              /\ events'[s].refs \subseteq c.copy.refs
              /\ events'[s].attached => c.copy.attached
              /\ events'[s].present => events'[s].project = c.job.project
        BY <3>2, <4>2, <4>3, NothingFacts DEF ForkIsSound
      <4>10. c.at = "rolledBack" => \A s \in c.job.ids : ~events'[s].present
        BY <3>2, <4>2, <4>3, NothingFacts DEF ForkIsSound
      <4> QED
        BY <3>1, <4>5, <4>6, <4>7, <4>8, <4>9, <4>10 DEF ForkIsSound
    <3>4. DeleteIsSound(c)'
      <4>1. c.at = "cleaned" => \A s \in c.job.ids : ~events'[s].present
        <5>1. CASE catalogThread[t].at \in Forking
          <6>1. c.job.ids \cap k.ids = {}
            BY <2>2, <5>1 DEF CatalogInv, CommandsAreApart
          <6> QED
            BY <3>1, <6>1, NothingFacts DEF TouchesItsOwn, CommandIsSound, DeleteIsSound
        <5>2. CASE catalogThread[t].at \notin Forking
          BY <3>1, <5>2, NothingFacts DEF TouchesItsOwn, CommandIsSound, DeleteIsSound
        <5> QED
          BY <5>1, <5>2
      <4>2. DeleteIsSound(c)
        BY <3>1 DEF CommandIsSound
      <4> QED
        BY <3>1, <4>1, <4>2 DEF DeleteIsSound, GoesOn, Listed
    <3> QED
      BY <1>4, <3>1, <3>3, <3>4 DEF CommandIsSound, GoesOn
  <2> QED
    BY <2>1, <2>2
<1>9. CommandsAreApart'
  <2>1. CommandsAreApart
    BY DEF CatalogInv
  <2> QED
    BY <1>0, <1>2, <2>1 DEF CommandsAreApart, GoesOn
<1>10. TargetsAreOwn'
  BY <1>2 DEF CatalogInv, TargetsAreOwn, GoesOn
<1>11. BootIsAlone'
  <2>1. Boot \in AllThreads /\ CatalogThreads \subseteq AllThreads
    BY DEF AllThreads
  <2> QED
    BY <1>0, <1>2, <2>1 DEF CatalogInv, BootIsAlone, GoesOn, AllThreads
<1>12. DeferredAreDeletes'
  BY DEF CatalogInv, DeferredAreDeletes, GoesOn, Listed
<1>13. ResidueIsCovered'
  <2> SUFFICES ASSUME NEW s \in SessionIds, ~Listed(s), events'[s].present \/ s \in attachments'
               PROVE  \E j \in journals : s \in j.ids /\ Unfinished(j) /\ ~Settled(j)'
    BY <1>3, <1>5 DEF ResidueIsCovered, GoesOn
  <2>1. CASE s \in k.ids
    <3>1. catalogThread'[t].at # "done"
      BY <2>1
    <3>2. catalogThread'[t].at \notin {"chosen", "loaded"}
      BY <1>2, <2>1, NothingFacts DEF ForkIsSound
    <3>3. ~Settled(k)'
      <4>1. \A u \in AllThreads \ {t} : catalogThread'[u].job # k
        BY <1>0, <1>2 DEF CatalogInv, CommandsAreApart
      <4> QED
        BY <1>1, <3>1, <4>1 DEF Settled, GoesOn
    <3> QED
      BY <2>1, <3>2, <3>3, WorkedOnIsUnfinished DEF GoesOn
  <2>2. CASE s \notin k.ids
    <3>1. events[s].present \/ s \in attachments
      BY <2>2, NothingFacts DEF TouchesItsOwn
    <3>2. PICK j \in journals : s \in j.ids /\ Unfinished(j) /\ ~Settled(j)
      BY <3>1 DEF CatalogInv, ResidueIsCovered
    <3>3. ~Settled(j)'
      BY <1>2, <2>2, <3>2 DEF Settled, GoesOn
    <3> QED
      BY <3>2, <3>3
  <2> QED
    BY <2>1, <2>2
<1>14. ListedSessionIsWhole'
  <2>1. \A s \in SessionIds : Listed(s) => s \notin k.ids
    BY <1>1
  <2> QED
    BY <1>3, <2>1 DEF CatalogInv, ListedSessionIsWhole, TouchesItsOwn, GoesOn
<1>15. SelectionIsOpen' /\ SelectedProject'
  BY DEF CatalogInv, SelectionIsOpen, SelectedProject, OpenSessions, GoesOn
<1> QED
  BY <1>4, <1>6, <1>7, <1>8, <1>9, <1>10, <1>11, <1>12, <1>13, <1>14, <1>15
  DEF CatalogInv, GoesOn


\* Each of these steps is work of that kind.
LEMMA ForkLoadKeeps ==
  ASSUME CatalogInv, NEW t \in AllThreads, ForkLoad(t) PROVE CatalogInv'
<1> DEFINE j == catalogThread[t].job
           c == [catalogThread[t] EXCEPT !.at = "loaded", !.copy = events[j.source]]
<1>0. /\ catalogThread[t] \in CatalogCommands /\ CatalogTypes
      /\ catalogThread[t].at = "chosen" /\ CommandIsSound(catalogThread[t])
  BY CommandFields DEF CatalogInv, ForkLoad
<1>1. j.source \in SessionIds /\ events[j.source] \in EventSet
  BY <1>0 DEF CommandIsSound, ForkIsSound, Publishable, CatalogTypes, Stored
<1>2. /\ c \in CatalogCommands /\ c.at = "loaded" /\ c.job = j /\ c.copy = events[j.source]
  BY <1>0, <1>1 DEF CatalogCommands, CatalogPlaces, Forking, Publishable
<1>3. catalogThread' = [catalogThread EXCEPT ![t] = c] /\ catalogThread'[t] = c
  BY <1>0 DEF ForkLoad, CatalogTypes
<1> HIDE DEF c
<1>4. GoesOn(t)
  BY <1>0, <1>2, <1>3 DEF GoesOn, ForkLoad, catalogDurable, Forking, Publishable
<1>5. TouchesItsOwn(t)
  BY <1>0 DEF TouchesItsOwn, ForkLoad, catalogDurable, CatalogTypes
<1>6. ForkIsSound(catalogThread[t])'
  BY <1>0, <1>1, <1>2, <1>3 DEF ForkIsSound, CommandIsSound, ForkLoad, catalogDurable, Forking,
     Publishable, Listed
<1>7. DeleteIsSound(catalogThread[t])'
  BY <1>2, <1>3 DEF DeleteIsSound, Cleaning
<1>8. \A s \in SessionIds : Listed(s) => events[s].refs \subseteq artifacts'
  BY DEF CatalogInv, ListedSessionIsWhole, ForkLoad, catalogDurable
<1> QED
  BY <1>2, <1>3, <1>4, <1>5, <1>6, <1>7, <1>8, WorkKeeps

\* A thread that only moves.
LEMMA ToFacts ==
  ASSUME CatalogInv, NEW t \in AllThreads, NEW at \in CatalogPlaces, To(t, at)
  PROVE  /\ \E c \in CatalogCommands : catalogThread' = [catalogThread EXCEPT ![t] = c]
         /\ catalogThread'[t].at = at
         /\ catalogThread'[t].job = catalogThread[t].job
         /\ catalogThread'[t].copy = catalogThread[t].copy
<1> DEFINE c == [catalogThread[t] EXCEPT !.at = at]
<1>0. catalogThread[t] \in CatalogCommands /\ CatalogTypes
  BY CommandFields DEF CatalogInv
<1>1. /\ c \in CatalogCommands /\ c.at = at /\ c.job = catalogThread[t].job
      /\ c.copy = catalogThread[t].copy
  BY <1>0 DEF CatalogCommands
<1>2. catalogThread' = [catalogThread EXCEPT ![t] = c] /\ catalogThread'[t] = c
  BY <1>0 DEF To, CatalogTypes
<1> HIDE DEF c
<1> QED
  BY <1>1, <1>2

\* The clone of the attachments makes the directory of the target at most.
LEMMA ForkCloneKeeps ==
  ASSUME CatalogInv, NEW t \in AllThreads, ForkClone(t) PROVE CatalogInv'
<1> DEFINE j == catalogThread[t].job
<1>0. /\ CatalogTypes /\ catalogThread[t].at = "journalled" /\ j \in JobSet
      /\ catalogThread[t].at \in Forking /\ catalogThread[t].at \in Publishable
      /\ UNCHANGED <<catalog, journals, events, artifacts, phase, deferred, running, issued>>
  BY CommandFields DEF CatalogInv, ForkClone, Forking, Publishable
<1>1. /\ ForkIsSound(catalogThread[t]) /\ JobIsSound(j) /\ j \in journals /\ ~j.whole
  BY <1>0, WorkedOnIsUnlisted DEF CommandIsSound, JobIsSound
<1>2. Target(t) \in SessionIds /\ j.ids = {Target(t)}
  BY <1>0, <1>1, TargetIsTheId
<1>3. PICK at \in {"cloned", "aborting"} :
        /\ To(t, at)
        /\ attachments' \in {attachments, attachments \cup {Target(t)}}
        /\ at = "cloned" /\ catalogThread[t].copy.attached => Target(t) \in attachments'
  BY DEF ForkClone
<1>4. /\ \E c \in CatalogCommands : catalogThread' = [catalogThread EXCEPT ![t] = c]
      /\ catalogThread'[t].at = at /\ catalogThread'[t].job = j
      /\ catalogThread'[t].copy = catalogThread[t].copy
  BY <1>3, ToFacts DEF CatalogPlaces, Forking, Publishable
<1>5. GoesOn(t)
  BY <1>0, <1>4 DEF GoesOn, Forking, Publishable
<1>6. TouchesItsOwn(t)
  BY <1>0, <1>2, <1>3 DEF TouchesItsOwn, CatalogTypes
<1>7. ForkIsSound(catalogThread[t])'
  BY <1>0, <1>1, <1>2, <1>3, <1>4 DEF ForkIsSound, Forking, Publishable, Listed
<1>8. DeleteIsSound(catalogThread[t])'
  BY <1>4 DEF DeleteIsSound, Cleaning
<1>9. \A s \in SessionIds : Listed(s) => events[s].refs \subseteq artifacts'
  BY <1>0 DEF CatalogInv, ListedSessionIsWhole
<1> QED
  BY <1>1, <1>4, <1>5, <1>6, <1>7, <1>8, <1>9, WorkKeeps

\* The copied events go to the target, without more than the source had.
LEMMA ForkStoreKeeps ==
  ASSUME CatalogInv, NEW t \in AllThreads, ForkStore(t) PROVE CatalogInv'
<1> DEFINE j == catalogThread[t].job
           copy == catalogThread[t].copy
<1>0. /\ CatalogTypes /\ catalogThread[t].at = "cloned" /\ j \in JobSet /\ copy \in EventSet
      /\ catalogThread[t].at \in Forking /\ catalogThread[t].at \in Publishable
      /\ UNCHANGED <<catalog, journals, attachments, artifacts, phase, deferred, running, issued>>
  BY CommandFields DEF CatalogInv, ForkStore, Forking, Publishable
<1>1. /\ ForkIsSound(catalogThread[t]) /\ JobIsSound(j) /\ j \in journals /\ ~j.whole
      /\ \A s \in j.ids : ~Listed(s)
  BY <1>0, WorkedOnIsUnlisted DEF CommandIsSound, JobIsSound
<1>2. Target(t) \in SessionIds /\ j.ids = {Target(t)}
  BY <1>0, <1>1, TargetIsTheId
<1>3. PICK at \in {"stored", "aborting"}, e \in Stored :
        /\ To(t, at)
        /\ events' = [events EXCEPT ![Target(t)] = e]
        /\ at = "stored" => /\ e.refs \subseteq copy.refs
                            /\ e.attached => copy.attached
                            /\ e.present => e.project = j.project
  <2> DEFINE e == IF copy.present THEN [copy EXCEPT !.project = j.project] ELSE NoEvents
  <2>1. /\ e \in Stored /\ e.refs \subseteq copy.refs /\ (e.attached => copy.attached)
        /\ (e.present => e.project = j.project)
    BY <1>0, <1>1, NothingFacts DEF EventSet, Stored, JobIsSound
  <2>2. CASE To(t, "stored") /\ events' = [events EXCEPT ![Target(t)] = e]
    BY <2>1, <2>2
  <2>3. CASE To(t, "aborting") /\ UNCHANGED events
    <3>1. events' = [events EXCEPT ![Target(t)] = events[Target(t)]]
          /\ events[Target(t)] \in Stored
      BY <1>0, <1>2, <2>3 DEF CatalogTypes
    <3> QED
      BY <2>3, <3>1
  <2> QED
    BY <2>2, <2>3 DEF ForkStore
<1>4. /\ \E c \in CatalogCommands : catalogThread' = [catalogThread EXCEPT ![t] = c]
      /\ catalogThread'[t].at = at /\ catalogThread'[t].job = j
      /\ catalogThread'[t].copy = copy
  BY <1>3, ToFacts DEF CatalogPlaces, Forking, Publishable
<1>5. /\ events' \in [SessionIds -> Stored] /\ events'[Target(t)] = e
      /\ \A s \in SessionIds \ {Target(t)} : events'[s] = events[s]
  BY <1>0, <1>2, <1>3 DEF CatalogTypes
<1>6. GoesOn(t)
  BY <1>0, <1>4 DEF GoesOn, Forking, Publishable
<1>7. TouchesItsOwn(t)
  BY <1>0, <1>1, <1>2, <1>5 DEF TouchesItsOwn, CatalogTypes
<1>8. ForkIsSound(catalogThread[t])'
  <2>1. j.source \in SessionIds /\ (Listed(j.source) => j.source # Target(t))
    BY <1>0, <1>1, <1>2 DEF ForkIsSound
  <2> QED
    BY <1>0, <1>1, <1>2, <1>3, <1>4, <1>5, <2>1 DEF ForkIsSound, Forking, Publishable, Listed
<1>9. DeleteIsSound(catalogThread[t])'
  BY <1>4 DEF DeleteIsSound, Cleaning
<1>10. \A s \in SessionIds : Listed(s) => events[s].refs \subseteq artifacts'
  BY <1>0 DEF CatalogInv, ListedSessionIsWhole
<1> QED
  BY <1>1, <1>4, <1>6, <1>7, <1>8, <1>9, <1>10, WorkKeeps

\* A fork that cannot be published is rolled back.
LEMMA ForkAbortKeeps ==
  ASSUME CatalogInv, NEW t \in AllThreads, catalogThread[t].at = "stored", To(t, "aborting"),
         UNCHANGED <<catalogDurable, phase, deferred, running, issued>>
  PROVE  CatalogInv'
<1> DEFINE j == catalogThread[t].job
<1>0. /\ CatalogTypes /\ catalogThread[t].at \in Forking /\ catalogThread[t].at \in Publishable
      /\ UNCHANGED <<catalog, journals, events, attachments, artifacts, phase, deferred,
                     running, issued>>
  BY DEF CatalogInv, catalogDurable, Forking, Publishable
<1>1. ForkIsSound(catalogThread[t]) /\ j \in journals
  BY <1>0, WorkedOnIsUnlisted DEF CommandIsSound
<1>2. /\ \E c \in CatalogCommands : catalogThread' = [catalogThread EXCEPT ![t] = c]
      /\ catalogThread'[t].at = "aborting" /\ catalogThread'[t].job = j
  BY ToFacts DEF CatalogPlaces, Forking
<1>3. GoesOn(t) /\ TouchesItsOwn(t)
  BY <1>0, <1>2 DEF GoesOn, TouchesItsOwn, CatalogTypes, Forking, Publishable
<1>4. ForkIsSound(catalogThread[t])' /\ DeleteIsSound(catalogThread[t])'
  BY <1>0, <1>1, <1>2 DEF ForkIsSound, DeleteIsSound, Forking, Publishable, Cleaning, Listed
<1>5. \A s \in SessionIds : Listed(s) => events[s].refs \subseteq artifacts'
  BY <1>0 DEF CatalogInv, ListedSessionIsWhole
<1> QED
  BY <1>1, <1>2, <1>3, <1>4, <1>5, WorkKeeps

\* A rollback removes what is stored of the target.
LEMMA RollbackKeeps ==
  ASSUME CatalogInv, NEW t \in AllThreads, RollbackFork(t) \/ RemoveForkFiles(t)
  PROVE  CatalogInv'
<1> DEFINE j == catalogThread[t].job
<1>0. /\ CatalogTypes /\ catalogThread[t].at \in {"aborting", "rolledBack"} /\ j \in JobSet
      /\ catalogThread[t].at \in Forking
      /\ UNCHANGED <<catalog, journals, artifacts, phase, deferred, running, issued>>
  BY CommandFields DEF CatalogInv, RollbackFork, RemoveForkFiles, Forking
<1>1. /\ ForkIsSound(catalogThread[t]) /\ JobIsSound(j) /\ j \in journals /\ ~j.whole
      /\ j.kind = "fork" /\ \A s \in j.ids : ~Listed(s)
  BY <1>0, WorkedOnIsUnlisted DEF CommandIsSound, JobIsSound
<1>2. Target(t) \in SessionIds /\ j.ids = {Target(t)}
  BY <1>0, <1>1, TargetIsTheId
<1>3. \A s \in SessionIds : Listed(s) => events[s].refs \subseteq artifacts'
  BY <1>0 DEF CatalogInv, ListedSessionIsWhole
<1>4. CASE RollbackFork(t)
  <2>1. /\ \E c \in CatalogCommands : catalogThread' = [catalogThread EXCEPT ![t] = c]
        /\ catalogThread'[t].at = "rolledBack" /\ catalogThread'[t].job = j
    BY <1>4, ToFacts DEF RollbackFork, CatalogPlaces, Forking
  <2>2. /\ attachments' = attachments /\ events' \in [SessionIds -> Stored]
        /\ events'[Target(t)] = NoEvents
        /\ \A s \in SessionIds \ {Target(t)} : events'[s] = events[s]
    BY <1>0, <1>2, <1>4, NothingFacts DEF RollbackFork, CatalogTypes
  <2>3. GoesOn(t)
    BY <1>0, <2>1 DEF GoesOn, Forking, Publishable
  <2>4. TouchesItsOwn(t)
    BY <1>0, <1>1, <1>2, <2>2 DEF TouchesItsOwn, CatalogTypes
  <2>5. ForkIsSound(catalogThread[t])' /\ DeleteIsSound(catalogThread[t])'
    BY <1>0, <1>1, <1>2, <2>1, <2>2, NothingFacts
    DEF ForkIsSound, DeleteIsSound, Forking, Publishable, Cleaning, Listed
  <2> QED
    BY <1>1, <1>3, <2>1, <2>3, <2>4, <2>5, WorkKeeps
<1>5. CASE RemoveForkFiles(t)
  <2>1. /\ \E c \in CatalogCommands : catalogThread' = [catalogThread EXCEPT ![t] = c]
        /\ catalogThread'[t].at = "done" /\ catalogThread'[t].job = j
    BY <1>5, ToFacts DEF RemoveForkFiles, CatalogPlaces
  <2>2. /\ events' = events /\ attachments' = attachments \ {Target(t)}
        /\ catalogThread[t].at = "rolledBack"
    BY <1>5 DEF RemoveForkFiles
  <2>3. GoesOn(t)
    BY <1>0, <2>1 DEF GoesOn, Forking, Publishable
  <2>4. TouchesItsOwn(t)
    BY <1>0, <1>2, <2>2 DEF TouchesItsOwn, CatalogTypes
  <2>5. ForkIsSound(catalogThread[t])' /\ DeleteIsSound(catalogThread[t])'
    BY <1>1, <2>1 DEF ForkIsSound, DeleteIsSound, Forking, Publishable, Cleaning
  <2>6. \A s \in j.ids : ~events'[s].present /\ s \notin attachments'
    BY <1>1, <1>2, <2>2 DEF ForkIsSound
  <2> QED
    BY <1>1, <1>3, <2>1, <2>3, <2>4, <2>5, <2>6, WorkKeeps
<1> QED
  BY <1>4, <1>5

\* The clean-up of a delete removes what is stored of its sessions, the
\* artifacts nobody else refers to, and what is left under its project.
LEMMA CleanupKeeps ==
  ASSUME CatalogInv, NEW t \in AllThreads,
         RetireArtifacts(t) \/ CleanStore(t) \/ RemoveSessionFiles(t)
  PROVE  CatalogInv'
<1> DEFINE j == catalogThread[t].job
<1>0. /\ CatalogTypes /\ catalogThread[t].at \in Cleaning /\ j \in JobSet
      /\ catalogThread[t].at \notin Forking
      /\ UNCHANGED <<catalog, journals, phase, deferred, running, issued>>
  BY CommandFields DEF CatalogInv, RetireArtifacts, CleanStore, RemoveSessionFiles, Cleaning,
     Forking, Publishable
<1>1. /\ DeleteIsSound(catalogThread[t]) /\ JobIsSound(j) /\ j \in journals
      /\ j.kind = "delete" /\ \A s \in j.ids : s \in SessionIds /\ ~Listed(s)
      /\ j.whole => j.project \notin catalog.projects
  <2>1. /\ CommandIsSound(catalogThread[t]) /\ JobIsSound(j) /\ j \in journals
        /\ j.kind = "delete" /\ \A s \in j.ids : s \in SessionIds /\ ~Listed(s)
    BY <1>0, WorkedOnIsUnlisted DEF Cleaning
  <2> QED
    BY <1>0, <2>1 DEF CommandIsSound, DeleteIsSound
<1>2. \A s \in SessionIds : Listed(s) =>
        /\ events[s].refs \subseteq artifacts
        /\ events[s].present => events[s].project = catalog.home[s]
        /\ catalog.home[s] \in catalog.projects
  BY DEF CatalogInv, ListedSessionIsWhole
<1>3. ASSUME NEW at \in Cleaning \cup {"done"}, To(t, at)
      PROVE  /\ GoesOn(t) /\ ForkIsSound(catalogThread[t])'
             /\ catalogThread'[t].at = at /\ catalogThread'[t].job = j
             /\ (at = "cleaned" => \A s \in j.ids : ~events'[s].present)
                  => DeleteIsSound(catalogThread[t])'
  <2>1. /\ \E c \in CatalogCommands : catalogThread' = [catalogThread EXCEPT ![t] = c]
        /\ catalogThread'[t].at = at /\ catalogThread'[t].job = j
    BY <1>3, ToFacts DEF CatalogPlaces
  <2>2. GoesOn(t)
    BY <1>0, <1>3, <2>1 DEF GoesOn, Cleaning, Forking, Publishable
  <2>3. ForkIsSound(catalogThread[t])'
    BY <1>3, <2>1 DEF ForkIsSound, Forking, Publishable, Cleaning
  <2>4. ASSUME at = "cleaned" => \A s \in j.ids : ~events'[s].present
        PROVE  DeleteIsSound(catalogThread[t])'
    BY <1>0, <1>1, <1>3, <2>1, <2>4 DEF DeleteIsSound, Cleaning, Listed
  <2> QED
    BY <2>1, <2>2, <2>3, <2>4
<1>4. CASE RetireArtifacts(t)
  <2>1. /\ To(t, "retired") /\ events' = events /\ attachments' = attachments
        /\ artifacts' = artifacts \ Retirable(j.ids)
    BY <1>4 DEF RetireArtifacts
  <2>2. TouchesItsOwn(t)
    BY <1>0, <2>1 DEF TouchesItsOwn, CatalogTypes
  <2>3. \A s \in SessionIds : Listed(s) => events[s].refs \subseteq artifacts'
    <3>1. \A s \in SessionIds : Listed(s) => s \in SessionIds \ j.ids
      BY <1>1
    <3>2. \A s \in SessionIds \ j.ids : events[s].refs \cap Retirable(j.ids) = {}
      BY DEF Retirable, References
    <3> QED
      BY <1>2, <2>1, <3>1, <3>2
  <2>4. "retired" \in Cleaning /\ "retired" # "cleaned" /\ "retired" # "done"
    BY DEF Cleaning
  <2> QED
    BY <1>1, <1>3, <2>1, <2>2, <2>3, <2>4, WorkKeeps
<1>5. CASE CleanStore(t)
  <2>1. /\ To(t, "cleaned") /\ attachments' = attachments /\ artifacts' = artifacts
        /\ events' = [s \in SessionIds |->
             IF s \in j.ids \/ (j.whole /\ events[s].project = j.project)
             THEN NoEvents ELSE events[s]]
    BY <1>5 DEF CleanStore
  <2>2. \A s \in SessionIds : Listed(s) => events'[s] = events[s]
    <3> SUFFICES ASSUME NEW s \in SessionIds, Listed(s) PROVE events'[s] = events[s]
      OBVIOUS
    <3>1. CASE events[s].present
      BY <1>1, <1>2, <2>1, <3>1
    <3>2. CASE ~events[s].present
      <4>1. events[s] = NoEvents
        BY <1>0, <3>2 DEF CatalogTypes, Stored
      <4> QED
        BY <2>1, <4>1
    <3> QED
      BY <3>1, <3>2
  <2>3. /\ events' \in [SessionIds -> Stored]
        /\ \A s \in SessionIds : events'[s] = events[s] \/ events'[s] = NoEvents
        /\ \A s \in j.ids : events'[s] = NoEvents
    BY <1>0, <1>1, <2>1, NothingFacts DEF CatalogTypes
  <2>4. TouchesItsOwn(t)
    BY <1>0, <2>1, <2>2, <2>3 DEF TouchesItsOwn, CatalogTypes
  <2>5. "cleaned" \in Cleaning /\ "cleaned" # "done"
    BY DEF Cleaning
  <2>6. \A s \in j.ids : ~events'[s].present
    BY <2>3, NothingFacts
  <2> QED
    BY <1>1, <1>2, <1>3, <2>1, <2>4, <2>5, <2>6, WorkKeeps
<1>6. CASE RemoveSessionFiles(t)
  <2>1. /\ To(t, "done") /\ events' = events /\ artifacts' = artifacts
        /\ attachments' = attachments \ j.ids /\ catalogThread[t].at = "cleaned"
    BY <1>6 DEF RemoveSessionFiles
  <2>2. TouchesItsOwn(t)
    BY <1>0, <2>1 DEF TouchesItsOwn, CatalogTypes
  <2>3. \A s \in j.ids : ~events'[s].present /\ s \notin attachments'
    BY <1>1, <2>1 DEF DeleteIsSound
  <2> QED
    BY <1>1, <1>2, <1>3, <2>1, <2>2, <2>3, WorkKeeps
<1> QED
  BY <1>4, <1>5, <1>6

-----------------------------------------------------------------------------
(* Commands and journals that end.                                         *)

\* Commands end, journals that nobody will act on go, runs end; the catalog and
\* the data stay.
LEMMA ReleaseKeeps ==
  ASSUME CatalogInv, catalogThread' \in [AllThreads -> CatalogCommands],
         \A u \in AllThreads : catalogThread'[u] \in {catalogThread[u], IdleCommand},
         UNCHANGED <<catalog, events, attachments, artifacts, issued>>,
         phase' \in {"up", "down"}, running' \subseteq running, BootIsAlone',
         journals' \subseteq journals, deferred' \subseteq journals',
         \A u \in AllThreads :
           /\ catalogThread'[u].at \notin {"idle", "chosen", "loaded"} =>
                catalogThread[u].job \in journals'
           /\ catalogThread'[u].at # "idle" => catalogThread[u].job \notin deferred',
         DeferredAreDeletes',
         \A j \in journals : Unfinished(j) /\ ~Settled(j) => j \in journals' /\ ~Settled(j)'
  PROVE  CatalogInv'
<1>0. CatalogTypes
  BY DEF CatalogInv
<1>1. \A s \in SessionIds : Listed(s)' <=> Listed(s)
  BY DEF Listed
<1>2. \A j : (JobIsSound(j)' <=> JobIsSound(j)) /\ (Unfinished(j)' <=> Unfinished(j))
  BY DEF JobIsSound, Unfinished, Listed
<1>3. CatalogTypes'
  BY <1>0 DEF CatalogTypes
<1>4. IdsAreIssued'
  BY <1>1 DEF CatalogInv, IdsAreIssued
<1>5. ASSUME NEW u \in AllThreads PROVE CommandIsSound(catalogThread[u])'
  <2>1. CASE catalogThread'[u] = IdleCommand
    BY <2>1, NothingFacts DEF CommandIsSound, ForkIsSound, DeleteIsSound, Forking, Publishable,
       Cleaning
  <2>2. CASE catalogThread'[u] = catalogThread[u]
    <3> DEFINE c == catalogThread[u]
    <3>1. CommandIsSound(c)
      BY DEF CatalogInv
    <3>2. ForkIsSound(c)'
      BY <2>2, <3>1 DEF CommandIsSound, ForkIsSound, Listed
    <3>3. DeleteIsSound(c)'
      <4>1. DeleteIsSound(c)
        BY <3>1 DEF CommandIsSound
      <4> QED
        BY <2>2, <4>1 DEF DeleteIsSound, Listed
    <3> QED
      BY <1>2, <2>2, <3>1, <3>2, <3>3 DEF CommandIsSound
  <2> QED
    BY <2>1, <2>2
<1>6. CommandsAreApart'
  <2>1. CommandsAreApart
    BY DEF CatalogInv
  <2>2. \A u \in AllThreads : catalogThread'[u].at # "idle" => catalogThread'[u] = catalogThread[u]
    BY NothingFacts
  <2>3. \A u \in AllThreads :
          \/ catalogThread'[u] = catalogThread[u]
          \/ catalogThread'[u].job = NoJob /\ catalogThread'[u].at = "idle"
    BY NothingFacts
  <2>4. \A u \in AllThreads : catalogThread[u].at # "idle" => catalogThread[u].job # NoJob
    BY NothingFacts DEF CatalogInv, CommandIsSound, JobIsSound
  <2> QED
    BY <2>1, <2>2, <2>3, <2>4, NothingFacts DEF CommandsAreApart, Forking, Publishable
<1>7. TargetsAreOwn'
  <2>1. \A u \in AllThreads :
          catalogThread'[u].at \in Publishable => catalogThread'[u] = catalogThread[u]
    BY NothingFacts DEF Publishable
  <2> QED
    BY <2>1 DEF CatalogInv, TargetsAreOwn
<1>8. ResidueIsCovered'
  BY <1>1, <1>2 DEF CatalogInv, ResidueIsCovered
<1>9. ListedSessionIsWhole' /\ SelectionIsOpen' /\ SelectedProject'
  BY <1>1 DEF CatalogInv, ListedSessionIsWhole, SelectionIsOpen, SelectedProject, OpenSessions
<1> QED
  BY <1>2, <1>3, <1>4, <1>5, <1>6, <1>7, <1>8, <1>9 DEF CatalogInv

\* A thread that ends.
LEMMA DoneFacts ==
  ASSUME CatalogInv, NEW t \in AllThreads, Done(t)
  PROVE  /\ catalogThread' \in [AllThreads -> CatalogCommands]
         /\ catalogThread'[t] = IdleCommand
         /\ \A u \in AllThreads \ {t} : catalogThread'[u] = catalogThread[u]
         /\ \A u \in AllThreads : catalogThread'[u] \in {catalogThread[u], IdleCommand}
         /\ phase' = phase /\ running' = running => BootIsAlone'
<1>1. catalogThread \in [AllThreads -> CatalogCommands]
  BY DEF CatalogInv, CatalogTypes
<1>2. /\ catalogThread' \in [AllThreads -> CatalogCommands]
      /\ catalogThread'[t] = IdleCommand
      /\ \A u \in AllThreads \ {t} : catalogThread'[u] = catalogThread[u]
  BY <1>1, NothingFacts DEF Done
<1>3. \A u \in AllThreads : catalogThread'[u] \in {catalogThread[u], IdleCommand}
  BY <1>2
<1>4. ASSUME phase' = phase, running' = running PROVE BootIsAlone'
  BY <1>3, <1>4, NothingFacts DEF CatalogInv, BootIsAlone, AllThreads, Publishable
<1> QED
  BY <1>2, <1>3, <1>4

\* The jobs of two threads at work differ, and none is deferred.
LEMMA JobsDiffer ==
  ASSUME CatalogInv
  PROVE  /\ \A t, u \in AllThreads :
              t # u /\ catalogThread[t].at # "idle" => catalogThread[u].job # catalogThread[t].job
         /\ \A t \in AllThreads :
              /\ catalogThread[t].at # "idle" => catalogThread[t].job \notin deferred
              /\ catalogThread[t].at \notin {"idle", "chosen", "loaded"} =>
                   catalogThread[t].job \in journals
  BY DEF CatalogInv, CommandsAreApart, CommandIsSound

\* A command ends, its journal left behind, deferred or removed.
LEMMA EndingKeeps ==
  ASSUME CatalogInv, NEW t \in AllThreads, CleanupFails(t) \/ CompleteJournal(t)
  PROVE  CatalogInv'
<1> DEFINE j == catalogThread[t].job
<1>0. /\ CatalogTypes /\ Done(t) /\ catalogThread[t].at \notin {"idle", "chosen", "loaded"}
      /\ UNCHANGED <<catalog, events, attachments, artifacts, phase, running, issued>>
  BY DEF CatalogInv, CleanupFails, CompleteJournal, catalogDurable
<1>1. /\ catalogThread' \in [AllThreads -> CatalogCommands]
      /\ catalogThread'[t] = IdleCommand
      /\ \A u \in AllThreads \ {t} : catalogThread'[u] = catalogThread[u]
      /\ \A u \in AllThreads : catalogThread'[u] \in {catalogThread[u], IdleCommand}
      /\ BootIsAlone'
  BY <1>0, DoneFacts
<1>2. deferred \subseteq journals /\ phase \in {"up", "down"}
  BY <1>0 DEF CatalogTypes
<1>3. CASE CleanupFails(t)
  <2>1. journals' = journals /\ deferred' \subseteq deferred
    BY <1>3 DEF CleanupFails, catalogDurable
  <2>2. DeferredAreDeletes'
    BY <1>0, <2>1 DEF CatalogInv, DeferredAreDeletes, Listed
  <2>3. \A k \in journals : ~Settled(k) => ~Settled(k)'
    BY <1>1, <2>1, NothingFacts DEF Settled
  <2>4. \A u \in AllThreads :
          /\ catalogThread'[u].at \notin {"idle", "chosen", "loaded"} =>
               catalogThread[u].job \in journals'
          /\ catalogThread'[u].at # "idle" => catalogThread[u].job \notin deferred'
    BY <1>1, <2>1, JobsDiffer, NothingFacts
  <2> QED
    BY <1>0, <1>1, <1>2, <2>1, <2>2, <2>3, <2>4, ReleaseKeeps
<1>4. CASE CompleteJournal(t)
  <2>1. /\ catalogThread[t].at = "done"
        /\ \/ /\ j.kind = "delete" /\ ~j.whole /\ t = Boot
              /\ deferred' = deferred \cup {j} /\ journals' = journals
           \/ journals' \in {journals, journals \ {j}} /\ deferred' = deferred
    BY <1>4 DEF CompleteJournal
  <2>2. DeferredAreDeletes'
    <3>1. j.kind = "delete" => \A s \in j.ids : ~Listed(s)
      BY <2>1 DEF CatalogInv, CommandIsSound, DeleteIsSound
    <3> QED
      BY <1>0, <2>1, <3>1 DEF CatalogInv, DeferredAreDeletes, Listed
  <2>3. Settled(j)
    BY <2>1 DEF Settled
  <2>4. \A k \in journals : ~Settled(k) => k \in journals' /\ ~Settled(k)'
    BY <1>1, <2>1, <2>3, NothingFacts DEF Settled
  <2>5. \A u \in AllThreads :
          /\ catalogThread'[u].at \notin {"idle", "chosen", "loaded"} =>
               catalogThread[u].job \in journals'
          /\ catalogThread'[u].at # "idle" => catalogThread[u].job \notin deferred'
    BY <1>0, <1>1, <2>1, JobsDiffer, NothingFacts
  <2>6. journals' \subseteq journals /\ deferred' \subseteq journals'
    <3>1. j \in journals /\ j \notin deferred
      BY <1>0, JobsDiffer
    <3> QED
      BY <1>2, <2>1, <3>1
  <2> QED
    BY <1>0, <1>1, <1>2, <2>2, <2>4, <2>5, <2>6, ReleaseKeeps
<1> QED
  BY <1>3, <1>4

\* A fork whose journal cannot be written, and a delete that cannot be saved.
LEMMA GivingUpKeeps ==
  ASSUME CatalogInv, NEW t \in AllThreads, Done(t),
         UNCHANGED <<catalog, events, attachments, artifacts, phase, running, issued, deferred>>,
         \/ catalogThread[t].at = "loaded" /\ journals' = journals
         \/ /\ catalogThread[t].at = "deleting"
            /\ journals' \in {journals, journals \ {catalogThread[t].job}}
  PROVE  CatalogInv'
<1> DEFINE j == catalogThread[t].job
<1>0. CatalogTypes /\ deferred \subseteq journals /\ phase \in {"up", "down"}
  BY DEF CatalogInv, CatalogTypes
<1>1. /\ catalogThread' \in [AllThreads -> CatalogCommands]
      /\ catalogThread'[t] = IdleCommand
      /\ \A u \in AllThreads \ {t} : catalogThread'[u] = catalogThread[u]
      /\ \A u \in AllThreads : catalogThread'[u] \in {catalogThread[u], IdleCommand}
      /\ BootIsAlone'
  BY DoneFacts
<1>2. DeferredAreDeletes'
  BY DEF CatalogInv, DeferredAreDeletes, Listed
<1>3. catalogThread[t].at = "deleting" => ~Unfinished(j)
  <2>1. ASSUME catalogThread[t].at = "deleting" PROVE ~Unfinished(j)
    <3>1. /\ JobIsSound(j) /\ \A s \in j.ids : Listed(s)
          /\ j.whole => j.project \in catalog.projects
      BY <2>1 DEF CatalogInv, CommandIsSound, DeleteIsSound
    <3> QED
      BY <3>1 DEF Unfinished, JobIsSound
  <2> QED
    BY <2>1
<1>4. \A k \in journals : Unfinished(k) /\ ~Settled(k) => k \in journals' /\ ~Settled(k)'
  BY <1>1, <1>3, NothingFacts DEF Settled
<1>5. \A u \in AllThreads :
        /\ catalogThread'[u].at \notin {"idle", "chosen", "loaded"} =>
             catalogThread[u].job \in journals'
        /\ catalogThread'[u].at # "idle" => catalogThread[u].job \notin deferred'
  BY <1>1, JobsDiffer, NothingFacts
<1>6. journals' \subseteq journals /\ deferred' \subseteq journals'
  <2>1. j \notin deferred
    BY JobsDiffer
  <2> QED
    BY <1>0, <2>1
<1> QED
  BY <1>0, <1>1, <1>2, <1>4, <1>5, <1>6, ReleaseKeeps

\* A crash, the end of recovery, a removed journal and the end of a run.
LEMMA CrashAndRecoveryKeep ==
  ASSUME CatalogInv,
         \/ ProcessDies \/ Serve \/ ResumeRefresh
         \/ \E s \in SessionIds : EndSessionRun(s)
  PROVE  CatalogInv'
<1>0. /\ CatalogTypes /\ deferred \subseteq journals /\ phase \in {"up", "down"}
      /\ catalogThread \in [AllThreads -> CatalogCommands]
      /\ DeferredAreDeletes /\ BootIsAlone
  BY DEF CatalogInv, CatalogTypes
<1>1. CASE ProcessDies
  <2>1. /\ catalogThread' \in [AllThreads -> CatalogCommands]
        /\ \A u \in AllThreads : catalogThread'[u] = IdleCommand
        /\ UNCHANGED <<catalog, journals, events, attachments, artifacts, issued>>
        /\ phase' = "down" /\ running' = {} /\ deferred' = {}
    BY <1>1, NothingFacts DEF ProcessDies, catalogDurable
  <2>2. BootIsAlone' /\ DeferredAreDeletes'
    BY <2>1, NothingFacts DEF BootIsAlone, DeferredAreDeletes, AllThreads, Publishable
  <2>3. \A k : ~Settled(k)'
    BY <2>1, NothingFacts DEF Settled
  <2> QED
    BY <2>1, <2>2, <2>3, NothingFacts, ReleaseKeeps
<1>2. CASE Serve
  <2>1. /\ UNCHANGED <<catalogThread, catalog, journals, events, attachments, artifacts, issued,
                       deferred, running>>
        /\ phase' = "up" /\ catalogThread[Boot].at = "idle"
    BY <1>2 DEF Serve, catalogDurable
  <2>2. BootIsAlone' /\ DeferredAreDeletes'
    BY <1>0, <2>1 DEF BootIsAlone, DeferredAreDeletes, Listed
  <2>3. \A k : Settled(k)' <=> Settled(k)
    BY <2>1 DEF Settled
  <2> QED
    BY <1>0, <2>1, <2>2, <2>3, JobsDiffer, ReleaseKeeps
<1>3. CASE ResumeRefresh
  <2>1. PICK j \in deferred : /\ deferred' = deferred \ {j}
                              /\ journals' \in {journals, journals \ {j}}
    BY <1>3 DEF ResumeRefresh
  <2>2. UNCHANGED <<catalogThread, catalog, events, attachments, artifacts, issued, phase, running>>
    BY <1>3 DEF ResumeRefresh
  <2>3. BootIsAlone' /\ DeferredAreDeletes'
    BY <1>0, <2>1, <2>2 DEF BootIsAlone, DeferredAreDeletes, Listed
  <2>4. \A k \in journals : ~Settled(k) => k \in journals' /\ ~Settled(k)'
    BY <2>1, <2>2 DEF Settled
  <2>5. \A u \in AllThreads :
          /\ catalogThread'[u].at \notin {"idle", "chosen", "loaded"} =>
               catalogThread[u].job \in journals'
          /\ catalogThread'[u].at # "idle" => catalogThread[u].job \notin deferred'
    BY <2>1, <2>2, JobsDiffer
  <2>6. journals' \subseteq journals /\ deferred' \subseteq journals'
    BY <1>0, <2>1
  <2> QED
    BY <1>0, <2>2, <2>3, <2>4, <2>5, <2>6, ReleaseKeeps
<1>4. ASSUME NEW s \in SessionIds, EndSessionRun(s) PROVE CatalogInv'
  <2>1. /\ UNCHANGED <<catalogThread, catalog, journals, events, attachments, artifacts, issued,
                       deferred, phase>>
        /\ running' \subseteq running
    BY <1>4 DEF EndSessionRun, catalogDurable
  <2>2. BootIsAlone' /\ DeferredAreDeletes'
    BY <1>0, <2>1 DEF BootIsAlone, DeferredAreDeletes, Listed
  <2>3. \A k : Settled(k)' <=> Settled(k)
    BY <2>1 DEF Settled
  <2> QED
    BY <1>0, <2>1, <2>2, <2>3, JobsDiffer, ReleaseKeeps
<1> QED
  BY <1>1, <1>2, <1>3, <1>4

-----------------------------------------------------------------------------
(* Commands that begin.                                                    *)

\* An idle thread takes a job: for a fork a new id, for a delete sessions that
\* are listed, for recovery a journal.
LEMMA BeginningKeeps ==
  ASSUME CatalogInv, NEW t \in AllThreads, NEW c \in CatalogCommands,
         catalogThread[t].at = "idle", catalogThread' = [catalogThread EXCEPT ![t] = c],
         c.at \notin {"idle", "done"},
         UNCHANGED <<catalog, events, attachments, artifacts, phase, deferred, running>>,
         issued \subseteq issued', issued' \subseteq SessionIds \cup ProjectIds,
         journals' \in {journals, journals \cup {c.job}},
         JobIsSound(c.job)', c.job \notin deferred,
         c.at \notin {"chosen", "loaded"} => c.job \in journals',
         ForkIsSound(c)', DeleteIsSound(c)',
         \A u \in AllThreads \ {t} :
           /\ catalogThread[u].at # "idle" => catalogThread[u].job # c.job
           /\ c.at \in Forking \/ catalogThread[u].at \in Forking =>
                c.job.ids \cap catalogThread[u].job.ids = {}
           /\ c.at \in Publishable /\ catalogThread[u].at \in Publishable =>
                /\ c.job.source \notin catalogThread[u].job.ids
                /\ catalogThread[u].job.source \notin c.job.ids
           /\ ~(c.at = "deleting" /\ catalogThread[u].at = "deleting"),
         c.at \in Publishable =>
           \A j \in journals' : j.ids \cap c.job.ids # {} => j = c.job,
         BootIsAlone'
  PROVE  CatalogInv'
<1>0. CatalogTypes /\ c.job \in JobSet
  BY DEF CatalogInv, CatalogCommands
<1>1. /\ catalogThread' \in [AllThreads -> CatalogCommands] /\ catalogThread'[t] = c
      /\ \A u \in AllThreads \ {t} : catalogThread'[u] = catalogThread[u]
  BY <1>0 DEF CatalogTypes
<1>2. \A s \in SessionIds : Listed(s)' <=> Listed(s)
  BY DEF Listed
<1>3. \A j : (JobIsSound(j) => JobIsSound(j)') /\ (Unfinished(j)' <=> Unfinished(j))
  BY DEF JobIsSound, Unfinished, Listed
<1>4. CatalogTypes'
  BY <1>0, <1>1 DEF CatalogTypes
<1>5. IdsAreIssued'
  BY <1>2 DEF CatalogInv, IdsAreIssued
<1>6. \A j \in journals' : JobIsSound(j)'
  BY <1>3 DEF CatalogInv
<1>7. ASSUME NEW u \in AllThreads PROVE CommandIsSound(catalogThread[u])'
  <2>1. CASE u = t
    <3>1. c.at # "idle" /\ catalogThread'[u] = c
      BY <1>1, <2>1
    <3>2. ForkIsSound(catalogThread[u])'
      BY <3>1 DEF ForkIsSound, Listed
    <3>3. DeleteIsSound(catalogThread[u])'
      BY <3>1 DEF DeleteIsSound, Listed
    <3>4. JobIsSound(catalogThread[u].job)'
      BY <3>1 DEF JobIsSound
    <3> QED
      BY <3>1, <3>2, <3>3, <3>4 DEF CommandIsSound
  <2>2. CASE u # t
    <3> DEFINE d == catalogThread[u]
    <3>1. catalogThread'[u] = d /\ CommandIsSound(d)
      BY <1>1, <2>2 DEF CatalogInv
    <3>2. ForkIsSound(d)'
      BY <3>1 DEF CommandIsSound, ForkIsSound, Listed
    <3>3. DeleteIsSound(d)'
      BY <3>1 DEF CommandIsSound, DeleteIsSound, Listed
    <3>4. JobIsSound(d.job) => JobIsSound(d.job)'
      BY <3>1 DEF JobIsSound
    <3> QED
      BY <3>1, <3>2, <3>3, <3>4 DEF CommandIsSound
  <2> QED
    BY <2>1, <2>2
<1>8. CommandsAreApart'
  <2>1. \A u \in AllThreads \ {t} :
          c.job # catalogThread[u].job
    <3>1. \A u \in AllThreads \ {t} :
            catalogThread[u].at = "idle" => catalogThread[u].job = NoJob
      BY DEF CatalogInv, CommandIsSound
    <3>2. c.job # NoJob
      BY NothingFacts DEF JobIsSound
    <3> QED
      BY <3>1, <3>2
  <2>2. CommandsAreApart
    BY DEF CatalogInv
  <2> QED
    BY <1>1, <2>1, <2>2 DEF CommandsAreApart
<1>9. TargetsAreOwn'
  <2> SUFFICES ASSUME NEW u \in AllThreads, NEW j \in journals',
                      catalogThread'[u].at \in Publishable,
                      j.ids \cap catalogThread'[u].job.ids # {}
               PROVE  j = catalogThread'[u].job
    BY DEF TargetsAreOwn
  <2>1. CASE u = t
    BY <1>1, <2>1
  <2>2. CASE u # t /\ j \in journals
    BY <1>1, <2>2 DEF CatalogInv, TargetsAreOwn
  <2>3. CASE u # t /\ j = c.job
    BY <1>1, <2>3 DEF Forking
  <2> QED
    BY <2>1, <2>2, <2>3
<1>10. DeferredAreDeletes'
  BY DEF CatalogInv, DeferredAreDeletes, Listed
<1>11. ResidueIsCovered'
  <2>1. \A j : Settled(j)' <=> Settled(j)
    BY <1>1 DEF Settled
  <2> QED
    BY <1>2, <1>3, <2>1 DEF CatalogInv, ResidueIsCovered
<1>12. ListedSessionIsWhole' /\ SelectionIsOpen' /\ SelectedProject'
  BY <1>2 DEF CatalogInv, ListedSessionIsWhole, SelectionIsOpen, SelectedProject, OpenSessions
<1> QED
  BY <1>4, <1>5, <1>6, <1>7, <1>8, <1>9, <1>10, <1>11, <1>12 DEF CatalogInv

\* While the catalog is free the application is up and start-up is over.
LEMMA FreeFacts ==
  ASSUME CatalogInv, CatalogFree
  PROVE  /\ phase = "up" /\ catalogThread[Boot].at = "idle"
         /\ \A u \in AllThreads : catalogThread[u].at # "deleting"
  BY DEF CatalogInv, CatalogFree, BootIsAlone

\* A fork begins with a fresh id.
LEMMA ForkChooseKeeps ==
  ASSUME CatalogInv, NEW t \in CatalogThreads, NEW s \in SessionIds, NEW f \in SessionIds,
         ForkChoose(t, s, f)
  PROVE  CatalogInv'
<1>p. PICK p \in ProjectIds \cup {NoProject} : p = catalog.home[s]
  BY DEF CatalogInv, CatalogTypes, Catalogs
<1> DEFINE j == [kind |-> "fork", project |-> p, source |-> s, ids |-> {f}, whole |-> FALSE]
           c == [at |-> "chosen", copy |-> NoEvents, job |-> j]
<1>0. /\ CatalogTypes /\ CatalogFree /\ catalogThread[t].at = "idle" /\ Listed(s) /\ f \notin issued
      /\ issued' = issued \cup {f} /\ catalogThread' = [catalogThread EXCEPT ![t] = c]
      /\ UNCHANGED <<catalog, journals, events, attachments, artifacts, phase, deferred, running>>
  BY <1>p DEF CatalogInv, ForkChoose, catalogDurable
<1>1. /\ p \in ProjectIds /\ p \in issued /\ s \in issued
      /\ ~Listed(f) /\ events[f] = NoEvents /\ f \notin attachments
      /\ issued \subseteq SessionIds \cup ProjectIds
  BY <1>p, <1>0, CatalogFacts DEF CatalogInv, IdsAreIssued, CatalogTypes
<1>2. /\ j \in JobSet /\ j.kind = "fork" /\ j.project = p /\ j.source = s
      /\ j.ids = {f} /\ ~j.whole
  BY <1>1 DEF JobSet
<1>3. /\ c \in CatalogCommands /\ c.at = "chosen" /\ c.job = j /\ c.copy = NoEvents
  BY <1>2, NothingFacts DEF CatalogCommands, CatalogPlaces, Forking, Publishable
<1> HIDE DEF j, c
<1>4. JobIsSound(j)'
  BY <1>0, <1>1, <1>2 DEF JobIsSound
<1>5. ForkIsSound(c)' /\ DeleteIsSound(c)'
  BY <1>0, <1>1, <1>2, <1>3, NothingFacts
  DEF ForkIsSound, DeleteIsSound, Forking, Publishable, Cleaning, Listed
<1>6. \A k \in journals : f \notin k.ids
  BY <1>0 DEF CatalogInv, JobIsSound
<1>7. \A u \in AllThreads : f \notin catalogThread[u].job.ids
  <2>1. \A u \in AllThreads : \/ catalogThread[u].job = NoJob
                              \/ JobIsSound(catalogThread[u].job)
    BY DEF CatalogInv, CommandIsSound
  <2> QED
    BY <1>0, <2>1, NothingFacts DEF JobIsSound
<1>8. c.job \notin deferred
  BY <1>0, <1>2, <1>3, <1>6 DEF CatalogTypes
<1>9. BootIsAlone'
  <2>1. t # Boot /\ t \in AllThreads /\ Boot \in AllThreads
    BY CatalogNames DEF AllThreads
  <2>2. phase = "up" /\ catalogThread[Boot].at = "idle"
    BY <1>0, FreeFacts
  <2> QED
    BY <1>0, <2>1, <2>2 DEF CatalogTypes, BootIsAlone, Publishable
<1>10. t \in AllThreads
  BY DEF AllThreads
<1>11. /\ c.job.ids = {f} /\ c.at \notin {"idle", "done", "deleting"} /\ JobIsSound(c.job)'
       /\ issued \subseteq issued' /\ issued' \subseteq SessionIds \cup ProjectIds
  BY <1>0, <1>1, <1>2, <1>3, <1>4
<1>12. \A u \in AllThreads \ {t} :
         /\ catalogThread[u].job # c.job
         /\ c.job.ids \cap catalogThread[u].job.ids = {}
  BY <1>7, <1>11
<1>13. \A k \in journals' : k.ids \cap c.job.ids = {}
  BY <1>0, <1>6, <1>11
<1>15. \A u \in AllThreads : catalogThread[u].at \in Publishable =>
         c.job.source \notin catalogThread[u].job.ids /\ catalogThread[u].job.source # f
  <2>1. \A u \in AllThreads : catalogThread[u].at \in Publishable =>
          /\ \A x \in catalogThread[u].job.ids : ~Listed(x)
          /\ catalogThread[u].job.source \in issued
    BY DEF CatalogInv, CommandIsSound, ForkIsSound, Forking
  <2> QED
    BY <1>0, <1>2, <1>3, <2>1
<1>14. /\ c.at \notin {"chosen", "loaded"} => c.job \in journals'
       /\ journals' \in {journals, journals \cup {c.job}}
       /\ \A u \in AllThreads \ {t} :
            /\ catalogThread[u].at # "idle" => catalogThread[u].job # c.job
            /\ c.at \in Forking \/ catalogThread[u].at \in Forking =>
                 c.job.ids \cap catalogThread[u].job.ids = {}
            /\ c.at \in Publishable /\ catalogThread[u].at \in Publishable =>
                 /\ c.job.source \notin catalogThread[u].job.ids
                 /\ catalogThread[u].job.source \notin c.job.ids
            /\ ~(c.at = "deleting" /\ catalogThread[u].at = "deleting")
       /\ c.at \in Publishable =>
            \A k \in journals' : k.ids \cap c.job.ids # {} => k = c.job
  BY <1>0, <1>3, <1>11, <1>12, <1>13, <1>15
<1> QED
  BY <1>0, <1>3, <1>5, <1>8, <1>9, <1>10, <1>11, <1>14, BeginningKeeps

\* The journal of a fork is written before anything else is.
LEMMA ForkJournalKeeps ==
  ASSUME CatalogInv, NEW t \in AllThreads, ForkJournal(t)
  PROVE  CatalogInv'
<1> DEFINE j == catalogThread[t].job
           c == catalogThread[t]
<1>0. /\ CatalogTypes /\ c.at = "loaded" /\ j \in JobSet /\ c.at \in Forking /\ c.at \in Publishable
      /\ UNCHANGED <<catalog, events, attachments, artifacts, phase, deferred, running, issued>>
  BY CommandFields DEF CatalogInv, ForkJournal, Forking, Publishable
<1>1. CASE Done(t) /\ UNCHANGED journals
  BY <1>0, <1>1, GivingUpKeeps
<1>2. CASE To(t, "journalled") /\ journals' = journals \cup {j}
  <2>1. /\ CommandIsSound(c) /\ JobIsSound(j) /\ ForkIsSound(c) /\ j \notin deferred
        /\ j.kind = "fork"
    BY <1>0, WorkedOnIsUnlisted DEF CommandIsSound
  <2>2. /\ \E d \in CatalogCommands : catalogThread' = [catalogThread EXCEPT ![t] = d]
        /\ catalogThread'[t].at = "journalled" /\ catalogThread'[t].job = j
        /\ catalogThread'[t].copy = c.copy
    BY <1>2, ToFacts DEF CatalogPlaces, Forking, Publishable
  <2>3. /\ \A u \in AllThreads \ {t} : catalogThread'[u] = catalogThread[u]
        /\ catalogThread' \in [AllThreads -> CatalogCommands]
        /\ \A u \in AllThreads : catalogThread'[u].job = catalogThread[u].job
    BY <1>0, <2>2 DEF CatalogTypes
  <2>4. \A k : (JobIsSound(k)' <=> JobIsSound(k)) /\ (Unfinished(k)' <=> Unfinished(k))
               /\ (Settled(k)' <=> Settled(k))
    BY <1>0, <2>2, <2>3 DEF JobIsSound, Unfinished, Listed, Settled
  <2>5. CatalogTypes' /\ IdsAreIssued'
    BY <1>0, <1>2, <2>3 DEF CatalogTypes, CatalogInv, IdsAreIssued, Listed
  <2>6. ASSUME NEW u \in AllThreads PROVE CommandIsSound(catalogThread[u])'
    <3>1. CASE u = t
      <4>1. ForkIsSound(catalogThread[u])'
        BY <1>0, <2>1, <2>2, <3>1 DEF ForkIsSound, Forking, Publishable, Listed
      <4>2. DeleteIsSound(catalogThread[u])'
        BY <2>2, <3>1 DEF DeleteIsSound, Cleaning
      <4> QED
        BY <1>0, <1>2, <2>1, <2>2, <2>4, <3>1, <4>1, <4>2 DEF CommandIsSound
    <3>2. CASE u # t
      <4>1. CommandIsSound(catalogThread[u]) /\ catalogThread'[u] = catalogThread[u]
        BY <2>3, <3>2 DEF CatalogInv
      <4>2. ForkIsSound(catalogThread[u])' /\ DeleteIsSound(catalogThread[u])'
        BY <1>0, <4>1 DEF CommandIsSound, ForkIsSound, DeleteIsSound, Listed
      <4> QED
        BY <1>0, <1>2, <2>4, <4>1, <4>2 DEF CommandIsSound
    <3> QED
      BY <3>1, <3>2
  <2>7. CommandsAreApart'
    <3>1. CommandsAreApart
      BY DEF CatalogInv
    <3> QED
      BY <1>0, <2>2, <2>3, <3>1 DEF CommandsAreApart, Forking, Publishable
  <2>8. TargetsAreOwn'
    <3> SUFFICES ASSUME NEW u \in AllThreads, NEW k \in journals',
                        catalogThread'[u].at \in Publishable,
                        k.ids \cap catalogThread[u].job.ids # {}
                 PROVE  k = catalogThread[u].job
      BY <2>3 DEF TargetsAreOwn
    <3>1. CASE k \in journals
      BY <1>0, <2>3, <3>1 DEF CatalogInv, TargetsAreOwn
    <3>2. CASE k = j /\ u # t
      BY <1>0, <3>2 DEF CatalogInv, CommandsAreApart
    <3> QED
      BY <1>2, <3>1, <3>2
  <2>9. BootIsAlone'
    <3>1. t # Boot /\ Boot \in AllThreads
      BY <1>0 DEF CatalogInv, BootIsAlone, AllThreads
    <3> QED
      BY <1>0, <2>2, <2>3, <3>1 DEF CatalogInv, BootIsAlone, AllThreads
  <2>10. DeferredAreDeletes' /\ ResidueIsCovered'
    BY <1>0, <1>2, <2>4 DEF CatalogInv, DeferredAreDeletes, ResidueIsCovered, Listed
  <2>11. ListedSessionIsWhole' /\ SelectionIsOpen' /\ SelectedProject'
    BY <1>0 DEF CatalogInv, ListedSessionIsWhole, SelectionIsOpen, SelectedProject,
       OpenSessions, Listed
  <2>12. \A k \in journals' : JobIsSound(k)'
    BY <1>2, <2>1, <2>4 DEF CatalogInv
  <2> QED
    BY <2>5, <2>6, <2>7, <2>8, <2>9, <2>10, <2>11, <2>12 DEF CatalogInv
<1> QED
  BY <1>1, <1>2 DEF ForkJournal

\* A delete begins: nothing it names runs, forks or is being deleted.
LEMMA DeleteKeeps ==
  ASSUME CatalogInv, NEW t \in CatalogThreads, NEW ids \in SUBSET SessionIds, NEW p \in ProjectIds,
         NEW whole \in BOOLEAN, Delete(t, ids, p, whole),
         p \in catalog.projects, \A s \in ids : Listed(s),
         whole => ids = {s \in SessionIds : catalog.home[s] = p},
         ~whole => \E s \in SessionIds : ids = {s}
  PROVE  CatalogInv'
<1> DEFINE j == [kind |-> "delete", project |-> p, source |-> NoSession,
                 ids |-> ids, whole |-> whole]
           c == [at |-> "deleting", job |-> j, copy |-> NoEvents]
<1>0. /\ CatalogTypes /\ CatalogFree /\ catalogThread[t].at = "idle" /\ ids \cap running = {}
      /\ journals' = journals \cup {j} /\ catalogThread' = [catalogThread EXCEPT ![t] = c]
      /\ UNCHANGED <<catalog, events, attachments, artifacts, phase, deferred, running, issued>>
  BY DEF CatalogInv, Delete
<1>1. /\ p \in issued /\ ids \subseteq issued
      /\ issued \subseteq SessionIds \cup ProjectIds
  BY <1>0 DEF CatalogInv, IdsAreIssued, CatalogTypes
<1>2. /\ j \in JobSet /\ j.kind = "delete" /\ j.project = p /\ j.ids = ids /\ j.whole = whole
  BY DEF JobSet
<1>3. /\ c \in CatalogCommands /\ c.at = "deleting" /\ c.job = j
  BY <1>2, NothingFacts DEF CatalogCommands, CatalogPlaces
<1> HIDE DEF j, c
<1>4. JobIsSound(j)'
  BY <1>0, <1>1, <1>2 DEF JobIsSound
<1>5. ForkIsSound(c)' /\ DeleteIsSound(c)'
  BY <1>0, <1>2, <1>3 DEF ForkIsSound, DeleteIsSound, Forking, Publishable, Cleaning, Listed
<1>6. \A u \in AllThreads :
        /\ catalogThread[u].at # "deleting"
        /\ catalogThread[u].at \in Forking => ids \cap catalogThread[u].job.ids = {}
        /\ catalogThread[u].at # "idle" => catalogThread[u].job # j
  <2> SUFFICES ASSUME NEW u \in AllThreads
               PROVE  /\ catalogThread[u].at # "deleting"
                      /\ catalogThread[u].at \in Forking => ids \cap catalogThread[u].job.ids = {}
                      /\ catalogThread[u].at # "idle" => catalogThread[u].job # j
    OBVIOUS
  <2>1. CommandIsSound(catalogThread[u]) /\ catalogThread[u].at # "deleting"
        /\ catalogThread[u].at \in CatalogPlaces
    BY <1>0, FreeFacts, CommandFields DEF CatalogInv
  <2>2. catalogThread[u].at \in Forking =>
          catalogThread[u].job.kind = "fork" /\ ids \cap catalogThread[u].job.ids = {}
    BY <2>1 DEF CommandIsSound, ForkIsSound
  <2>3. catalogThread[u].at \in Cleaning \cup {"done"} => catalogThread[u].job # j
    <3>1. ASSUME catalogThread[u].at \in Cleaning \cup {"done"}, catalogThread[u].job = j
          PROVE  FALSE
      <4>1. /\ \A s \in ids : ~Listed(s)
            /\ whole => p \notin catalog.projects
        BY <1>2, <2>1, <3>1 DEF CommandIsSound, DeleteIsSound
      <4> QED
        BY <4>1
    <3> QED
      BY <3>1
  <2> QED
    BY <1>2, <2>1, <2>2, <2>3 DEF CatalogPlaces
<1>7. c.job \notin deferred
  BY <1>2, <1>3 DEF CatalogInv, DeferredAreDeletes
<1>8. t # Boot /\ t \in AllThreads /\ Boot \in AllThreads
  BY CatalogNames DEF AllThreads
<1>9. BootIsAlone'
  <2>1. phase = "up" /\ catalogThread[Boot].at = "idle"
    BY <1>0, FreeFacts
  <2> QED
    BY <1>0, <1>8, <2>1 DEF CatalogTypes, BootIsAlone, Publishable
<1>10. c.at \notin Publishable /\ c.at \notin Forking
  BY <1>3 DEF Publishable, Forking
<1> QED
  BY <1>0, <1>1, <1>2, <1>3, <1>4, <1>5, <1>6, <1>7, <1>8, <1>9, <1>10, BeginningKeeps

\* The two commands that delete.
LEMMA DeleteCommandsKeep ==
  ASSUME CatalogInv, NEW t \in CatalogThreads,
         \/ \E s \in SessionIds : DeleteSession(t, s)
         \/ \E p \in ProjectIds : DeleteProject(t, p)
  PROVE  CatalogInv'
<1>1. ASSUME NEW s \in SessionIds, DeleteSession(t, s) PROVE CatalogInv'
  <2>1. PICK p \in ProjectIds : p = catalog.home[s] /\ p \in catalog.projects
    BY <1>1, CatalogFacts DEF DeleteSession
  <2>2. Listed(s) /\ Delete(t, {s}, p, FALSE)
    BY <1>1, <2>1 DEF DeleteSession
  <2>3. {s} \in SUBSET SessionIds /\ \A x \in {s} : Listed(x)
    BY <2>2
  <2> QED
    BY <2>1, <2>2, <2>3, DeleteKeeps
<1>2. ASSUME NEW p \in ProjectIds, DeleteProject(t, p) PROVE CatalogInv'
  <2>1. \A s \in {s \in SessionIds : catalog.home[s] = p} : Listed(s)
    BY CatalogNames DEF Listed
  <2> QED
    BY <1>2, <2>1, DeleteKeeps DEF DeleteProject
<1> QED
  BY <1>1, <1>2

\* Recovery takes a journal.
LEMMA RecoverKeeps ==
  ASSUME CatalogInv, RecoverJournal PROVE CatalogInv'
<1>0. /\ CatalogTypes /\ phase = "down" /\ catalogThread[Boot].at = "idle"
      /\ UNCHANGED <<catalog, events, attachments, artifacts, phase, deferred, running, issued>>
      /\ Boot \in AllThreads
  BY DEF CatalogInv, RecoverJournal, AllThreads
<1>1. \A u \in AllThreads : catalogThread[u].at = "idle" /\ catalogThread[u].job = NoJob
  BY <1>0 DEF CatalogInv, BootIsAlone, AllThreads, CommandIsSound
<1>2. PICK j \in journals \ deferred :
        IF RecoveryOf(j) = "done"
        THEN journals' = journals \ {j} /\ UNCHANGED catalogThread
        ELSE /\ catalogThread' = [catalogThread EXCEPT
                  ![Boot] = [at |-> RecoveryOf(j), job |-> j, copy |-> NoEvents]]
             /\ UNCHANGED journals
  BY DEF RecoverJournal, Foremost
<1>3. j \in JobSet /\ JobIsSound(j)
  BY <1>0, <1>2 DEF CatalogInv, CatalogTypes
<1>4. CASE ~Unfinished(j)
  <2>1. journals' = journals \ {j} /\ UNCHANGED catalogThread
    BY <1>2, <1>3, <1>4, RecoveryFacts
  <2>2. BootIsAlone' /\ DeferredAreDeletes'
    BY <1>0, <2>1 DEF CatalogInv, BootIsAlone, DeferredAreDeletes, Listed
  <2>3. \A k : Settled(k)' <=> Settled(k)
    BY <1>0, <2>1 DEF Settled
  <2>4. deferred \subseteq journals /\ catalogThread \in [AllThreads -> CatalogCommands]
    BY <1>0 DEF CatalogTypes
  <2>5. \A u \in AllThreads : catalogThread'[u].at = "idle"
    BY <1>1, <2>1
  <2>6. journals' \subseteq journals /\ deferred' \subseteq journals'
    BY <1>0, <1>2, <2>1, <2>4
  <2>7. \A k \in journals : Unfinished(k) /\ ~Settled(k) => k \in journals' /\ ~Settled(k)'
    BY <1>4, <2>1, <2>3
  <2> QED
    BY <1>0, <2>1, <2>2, <2>4, <2>5, <2>6, <2>7, ReleaseKeeps
<1>5. CASE Unfinished(j)
  <2> DEFINE at == IF j.kind = "fork" THEN "aborting" ELSE "published"
             c == [at |-> at, job |-> j, copy |-> NoEvents]
  <2>1. catalogThread' = [catalogThread EXCEPT ![Boot] = c] /\ journals' = journals
    BY <1>2, <1>3, <1>5, RecoveryFacts
  <2>2. /\ c \in CatalogCommands /\ c.job = j
        /\ c.at = IF j.kind = "fork" THEN "aborting" ELSE "published"
    BY <1>3, NothingFacts DEF CatalogCommands, CatalogPlaces, Forking, Cleaning
  <2> HIDE DEF c, at
  <2>3. \A s \in j.ids : ~Listed(s)
    <3>1. \A s \in SessionIds : Listed(s) => catalog.home[s] \in catalog.projects
      BY CatalogFacts
    <3> QED
      BY <1>3, <1>5, <3>1, JobFields, CatalogNames DEF Unfinished, JobIsSound, Listed
  <2>4. j.whole => j.project \notin catalog.projects
    BY <1>5 DEF Unfinished
  <2>5. ForkIsSound(c)'
    BY <1>0, <1>3, <2>2, <2>3 DEF ForkIsSound, Forking, Publishable, Listed, JobIsSound
  <2>6. DeleteIsSound(c)'
    BY <1>0, <1>3, <2>2, <2>3, <2>4 DEF DeleteIsSound, Cleaning, Listed, JobIsSound
  <2>7. JobIsSound(c.job)'
    BY <1>0, <1>3, <2>2 DEF JobIsSound
  <2>8. BootIsAlone'
    <3>1. \A u \in CatalogThreads : u # Boot /\ u \in AllThreads
      BY CatalogNames DEF AllThreads
    <3> QED
      BY <1>0, <1>1, <2>1, <2>2, <3>1 DEF CatalogInv, BootIsAlone, CatalogTypes, Publishable
  <2>9. c.at \notin Publishable /\ c.at \notin {"idle", "done", "chosen", "loaded", "deleting"}
    BY <2>2 DEF Publishable
  <2>10. issued \subseteq SessionIds \cup ProjectIds /\ c.job \notin deferred /\ c.job \in journals
    BY <1>0, <1>2, <2>2 DEF CatalogTypes
  <2>11. \A u \in AllThreads \ {Boot} :
           /\ catalogThread[u].at # "idle" => catalogThread[u].job # c.job
           /\ c.job.ids \cap catalogThread[u].job.ids = {}
    BY <1>1, NothingFacts
  <2> QED
    BY <1>0, <2>1, <2>2, <2>5, <2>6, <2>7, <2>8, <2>9, <2>10, <2>11, BeginningKeeps
<1> QED
  BY <1>4, <1>5

-----------------------------------------------------------------------------
(* Runs, and the two publications.                                         *)

\* A run writes to its own session, which is listed.
LEMMA RunsKeep ==
  ASSUME CatalogInv, NEW s \in SessionIds, StartSessionRun(s) \/ RecordToolOutput(s)
  PROVE  CatalogInv'
<1>0. /\ CatalogTypes /\ phase = "up" /\ Listed(s) /\ s \in issued
      /\ UNCHANGED <<catalog, journals, phase, deferred, catalogThread, issued>>
  BY DEF CatalogInv, StartSessionRun, RecordToolOutput, IdsAreIssued, CatalogFree, catalogDurable
<1>1. PICK e \in Stored :
        /\ events' = [events EXCEPT ![s] = e]
        /\ events[s].refs \subseteq e.refs /\ e.refs \subseteq artifacts'
        /\ e.attached => s \in attachments'
        /\ e.present => e.project = catalog.home[s]
        /\ artifacts \subseteq artifacts' /\ artifacts' \subseteq Artifacts
        /\ attachments' \in {attachments, attachments \cup {s}}
        /\ running' \in {running, running \cup {s}}
        /\ running' # running => CatalogFree
  <2>0. /\ events[s] \in Stored /\ events[s].refs \subseteq artifacts
        /\ events[s].attached => s \in attachments
        /\ events[s].present => events[s].project = catalog.home[s]
        /\ catalog.home[s] \in ProjectIds \cup {NoProject} /\ artifacts \subseteq Artifacts
        /\ events \in [SessionIds -> Stored]
    BY <1>0 DEF CatalogInv, CatalogTypes, Catalogs, ListedSessionIsWhole
  <2>1. CASE StartSessionRun(s)
    <3>1. events' = [events EXCEPT ![s] = events[s]]
      BY <2>0, <2>1 DEF StartSessionRun, catalogDurable
    <3> QED
      BY <2>0, <2>1, <3>1 DEF StartSessionRun, catalogDurable
  <2>2. CASE RecordToolOutput(s)
    <3>1. PICK made \in SUBSET (Artifacts \ artifacts), attach \in BOOLEAN :
            /\ artifacts' = artifacts \cup made
            /\ attachments' = IF attach THEN attachments \cup {s} ELSE attachments
            /\ events' = [events EXCEPT ![s] =
                 [present |-> TRUE, project |-> catalog.home[s], refs |-> @.refs \cup made,
                  attached |-> @.attached \/ attach]]
      BY <2>2 DEF RecordToolOutput
    <3> DEFINE e == [present |-> TRUE, project |-> catalog.home[s],
                     refs |-> events[s].refs \cup made, attached |-> events[s].attached \/ attach]
    <3>2. e \in Stored
      BY <2>0 DEF Stored, EventSet
    <3>3. events' = [events EXCEPT ![s] = e] /\ running' = running
      BY <2>2, <3>1 DEF RecordToolOutput
    <3> QED
      BY <2>0, <3>1, <3>2, <3>3
  <2> QED
    BY <2>1, <2>2
<1>2. /\ events' \in [SessionIds -> Stored] /\ events'[s] = e
      /\ \A x \in SessionIds \ {s} : events'[x] = events[x]
  BY <1>0, <1>1 DEF CatalogTypes
<1>3. \A k : (JobIsSound(k)' <=> JobIsSound(k)) /\ (Unfinished(k)' <=> Unfinished(k))
             /\ (Settled(k)' <=> Settled(k))
  BY <1>0 DEF JobIsSound, Unfinished, Listed, Settled
<1>4. CatalogTypes'
  BY <1>0, <1>1, <1>2 DEF CatalogTypes
<1>5. IdsAreIssued'
  BY <1>0, <1>1, <1>2 DEF CatalogInv, IdsAreIssued, Listed
<1>6. ASSUME NEW u \in AllThreads PROVE CommandIsSound(catalogThread[u])'
  <2> DEFINE c == catalogThread[u]
  <2>1. CommandIsSound(c) /\ catalogThread'[u] = c /\ c.job.ids \subseteq SessionIds
    BY <1>0, CommandFields DEF CatalogInv
  <2>2. c.at \in Forking \cup Cleaning =>
          \A x \in c.job.ids : events'[x] = events[x] /\ (x \in attachments' <=> x \in attachments)
    <3>1. c.at \in Forking \cup Cleaning => s \notin c.job.ids
      BY <1>0, WorkedOnIsUnlisted
    <3> QED
      BY <1>1, <1>2, <2>1, <3>1
  <2>3. c.at \in Publishable => events[c.job.source].refs \subseteq events'[c.job.source].refs
    <3>1. c.at \in Publishable => c.job.source \in SessionIds
      BY <2>1 DEF CommandIsSound, ForkIsSound
    <3> QED
      BY <1>1, <1>2, <3>1
  <2>4. ForkIsSound(c)'
    BY <1>0, <2>1, <2>2, <2>3 DEF CommandIsSound, ForkIsSound, Forking, Publishable, Listed
  <2>5. DeleteIsSound(c)'
    <3>1. c.at = "deleting" => running' = running
      BY <1>1 DEF CatalogFree
    <3>2. DeleteIsSound(c)
      BY <2>1 DEF CommandIsSound
    <3> QED
      BY <1>0, <2>1, <2>2, <3>1, <3>2 DEF DeleteIsSound, Cleaning, Listed
  <2> QED
    BY <1>0, <1>3, <2>1, <2>4, <2>5 DEF CommandIsSound
<1>7. CommandsAreApart' /\ TargetsAreOwn' /\ DeferredAreDeletes'
  BY <1>0 DEF CatalogInv, CommandsAreApart, TargetsAreOwn, DeferredAreDeletes, Listed
<1>8. BootIsAlone'
  BY <1>0, <1>1 DEF CatalogInv, BootIsAlone
<1>9. ResidueIsCovered'
  <2> SUFFICES ASSUME NEW x \in SessionIds, ~Listed(x), events'[x].present \/ x \in attachments'
               PROVE  \E k \in journals : x \in k.ids /\ Unfinished(k) /\ ~Settled(k)
    BY <1>0, <1>3 DEF ResidueIsCovered, Listed
  <2>1. x # s
    BY <1>0
  <2>2. events[x].present \/ x \in attachments
    BY <1>1, <1>2, <2>1
  <2> QED
    BY <2>2 DEF CatalogInv, ResidueIsCovered
<1>10. ListedSessionIsWhole'
  <2> SUFFICES ASSUME NEW x \in SessionIds, Listed(x)
               PROVE  /\ events'[x].refs \subseteq artifacts'
                      /\ events'[x].attached => x \in attachments'
                      /\ events'[x].present => events'[x].project = catalog.home[x]
                      /\ catalog.home[x] \in catalog.projects
    BY <1>0 DEF ListedSessionIsWhole, Listed
  <2>1. CASE x = s
    BY <1>1, <1>2, <2>1 DEF CatalogInv, ListedSessionIsWhole
  <2>2. CASE x # s
    BY <1>1, <1>2, <2>2 DEF CatalogInv, ListedSessionIsWhole
  <2> QED
    BY <2>1, <2>2
<1>11. SelectionIsOpen' /\ SelectedProject'
  BY <1>0 DEF CatalogInv, SelectionIsOpen, SelectedProject, OpenSessions
<1> QED
  BY <1>0, <1>3, <1>4, <1>5, <1>6, <1>7, <1>8, <1>9, <1>10, <1>11 DEF CatalogInv

\* A fork is published only while its source is still listed where it was, so
\* that what it copied is still there.
LEMMA ForkPublishKeeps ==
  ASSUME CatalogInv, NEW t \in CatalogThreads, ForkPublish(t)
  PROVE  CatalogInv'
<1> DEFINE j == catalogThread[t].job
           copy == catalogThread[t].copy
           f == Target(t)
<1>0. /\ CatalogTypes /\ t \in AllThreads /\ t # Boot /\ Boot \in AllThreads
      /\ catalogThread[t].at = "stored" /\ CatalogFree
      /\ j \in JobSet /\ catalogThread[t].at \in Forking /\ catalogThread[t].at \in Publishable
      /\ UNCHANGED <<journals, events, attachments, artifacts, phase, deferred, running, issued>>
  <2>1. t \in AllThreads /\ t # Boot /\ Boot \in AllThreads
    BY CatalogNames DEF AllThreads
  <2> QED
    BY <2>1, CommandFields DEF CatalogInv, ForkPublish, Forking, Publishable
<1>1. CASE UNCHANGED catalog /\ To(t, "aborting")
  BY <1>0, <1>1, ForkAbortKeeps DEF catalogDurable
<1>2. CASE /\ catalog.home[j.source] = j.project
           /\ catalog' = [catalog EXCEPT !.home[f] = j.project, !.activeProject = j.project,
                                         !.activeSession = f]
           /\ To(t, "done")
  <2>1. /\ CommandIsSound(catalogThread[t]) /\ ForkIsSound(catalogThread[t]) /\ JobIsSound(j)
        /\ j \notin deferred /\ j.kind = "fork" /\ ~j.whole /\ \A x \in j.ids : ~Listed(x)
        /\ j \in journals
    BY <1>0, WorkedOnIsUnlisted DEF CommandIsSound, JobIsSound
  <2>2. f \in SessionIds /\ j.ids = {f} /\ f \in issued /\ ~Listed(f)
    <3>1. f \in SessionIds /\ j.ids = {f}
      BY <1>0, <2>1, TargetIsTheId
    <3> QED
      BY <2>1, <3>1 DEF JobIsSound
  <2>3. /\ j.source \in SessionIds /\ Listed(j.source) /\ j.project \in catalog.projects
        /\ j.project \in ProjectIds /\ j.project # NoProject
    <3>1. j.source \in SessionIds
      BY <1>0, <2>1 DEF ForkIsSound
    <3> QED
      BY <1>2, <2>1, <3>1, CatalogFacts, CatalogNames DEF JobIsSound, Listed
  <2>4. /\ catalog' \in Catalogs /\ catalog'.projects = catalog.projects
        /\ catalog'.archived = catalog.archived /\ catalog'.activeProject = j.project
        /\ catalog'.activeSession = f
        /\ \A x \in SessionIds : catalog'.home[x] = IF x = f THEN j.project ELSE catalog.home[x]
    <3>1. catalog \in Catalogs
      BY CatalogFacts
    <3> QED
      BY <1>2, <2>2, <2>3, <3>1 DEF Catalogs
  <2>5. \A x \in SessionIds : catalog'.home[x] # NoProject <=> (Listed(x) \/ x = f)
    BY <2>3, <2>4 DEF Listed
  <2>6. /\ \E d \in CatalogCommands : catalogThread' = [catalogThread EXCEPT ![t] = d]
        /\ catalogThread'[t].at = "done" /\ catalogThread'[t].job = j
    BY <1>0, <1>2, ToFacts DEF CatalogPlaces
  <2>7. /\ \A u \in AllThreads \ {t} : catalogThread'[u] = catalogThread[u]
        /\ catalogThread' \in [AllThreads -> CatalogCommands]
        /\ \A u \in AllThreads : catalogThread'[u].job = catalogThread[u].job
    BY <1>0, <2>6 DEF CatalogTypes
  <2>8. \A k \in journals : f \in k.ids => k = j
    BY <1>0, <2>2 DEF CatalogInv, TargetsAreOwn
  <2>9. \A u \in AllThreads \ {t} : f \notin catalogThread[u].job.ids
    BY <1>0, <2>2 DEF CatalogInv, CommandsAreApart
  <2>10. ASSUME NEW k \in JobSet, JobIsSound(k), f \notin k.ids
         PROVE  /\ JobIsSound(k)' /\ (Unfinished(k) => Unfinished(k)')
                /\ \A x \in k.ids : ~Listed(x) => ~Listed(x)'
    <3>1. k.ids \subseteq SessionIds
      BY JobFields
    <3>2. \A x \in k.ids : catalog'.home[x] = catalog.home[x]
      BY <2>4, <2>10, <3>1
    <3> QED
      BY <1>0, <2>4, <2>10, <3>1, <3>2 DEF JobIsSound, Unfinished, Listed
  <2>12. CatalogTypes'
    BY <1>0, <2>4, <2>7 DEF CatalogTypes
  <2>13. IdsAreIssued'
    BY <1>0, <2>2, <2>4, <2>5 DEF CatalogInv, IdsAreIssued, Listed
  <2>14. \A k \in journals' : JobIsSound(k)'
    <3>1. \A k \in journals : k \in JobSet /\ JobIsSound(k)
      BY <1>0 DEF CatalogInv, CatalogTypes
    <3>2. ASSUME NEW k \in journals PROVE JobIsSound(k)'
      <4>1. CASE f \in k.ids
        <5>1. k \in JobSet /\ JobIsSound(k) /\ ~k.whole
          BY <2>1, <2>8, <3>1, <4>1
        <5> QED
          BY <1>0, <5>1 DEF JobIsSound
      <4>2. CASE f \notin k.ids
        BY <2>10, <3>1, <4>2
      <4> QED
        BY <4>1, <4>2
    <3> QED
      BY <1>0, <3>2
  <2>15. ASSUME NEW u \in AllThreads PROVE CommandIsSound(catalogThread[u])'
    <3>1. CASE u = t
      <4>1. ForkIsSound(catalogThread[u])' /\ DeleteIsSound(catalogThread[u])'
        BY <2>1, <2>6, <3>1 DEF ForkIsSound, DeleteIsSound, Forking, Publishable, Cleaning
      <4>2. JobIsSound(catalogThread[u].job)'
        BY <1>0, <2>1, <2>6, <3>1 DEF JobIsSound
      <4> QED
        BY <1>0, <2>1, <2>6, <3>1, <4>1, <4>2 DEF CommandIsSound
    <3>2. CASE u # t
      <4> DEFINE c == catalogThread[u]
      <4>1. /\ catalogThread'[u] = c /\ CommandIsSound(c) /\ c.job \in JobSet
            /\ c.at # "deleting" /\ f \notin c.job.ids
        BY <1>0, <2>7, <2>9, <3>2, CommandFields, FreeFacts DEF CatalogInv
      <4>2. CASE c.at = "idle"
        BY <4>1, <4>2 DEF CommandIsSound, ForkIsSound, DeleteIsSound, Forking, Publishable,
           Cleaning
      <4>3. CASE c.at # "idle"
        <5>1. JobIsSound(c.job)
          BY <4>1, <4>3 DEF CommandIsSound
        <5>2. c.job.ids \subseteq SessionIds
          BY <4>1, JobFields
        <5>3. \A x \in c.job.ids : catalog'.home[x] = catalog.home[x]
          BY <2>4, <4>1, <5>2
        <5>4. c.at \in Publishable =>
                c.job.source \in SessionIds /\ catalog'.home[c.job.source] = catalog.home[c.job.source]
          <6>1. c.at \in Publishable => c.job.source # f /\ c.job.source \in SessionIds
            BY <1>0, <2>2, <3>2, <4>1 DEF CatalogInv, CommandsAreApart, CommandIsSound, ForkIsSound
          <6> QED
            BY <2>4, <6>1
        <5>5. ForkIsSound(c)'
          <6>1. ForkIsSound(c)
            BY <4>1 DEF CommandIsSound
          <6> QED
            BY <1>0, <4>1, <5>3, <5>4, <6>1 DEF ForkIsSound, Listed
        <5>6. DeleteIsSound(c)'
          <6>1. DeleteIsSound(c)
            BY <4>1 DEF CommandIsSound
          <6> QED
            BY <1>0, <2>4, <4>1, <5>3, <6>1 DEF DeleteIsSound, Listed
        <5>7. JobIsSound(c.job)'
          BY <1>0, <4>1, <5>1, <5>3 DEF JobIsSound
        <5> QED
          BY <1>0, <4>1, <4>3, <5>5, <5>6, <5>7 DEF CommandIsSound
      <4> QED
        BY <4>2, <4>3
    <3> QED
      BY <3>1, <3>2
  <2>16. CommandsAreApart'
    <3>1. CommandsAreApart
      BY DEF CatalogInv
    <3>2. "done" \notin Forking /\ "done" \notin Publishable
      BY DEF Forking, Publishable
    <3> QED
      BY <1>0, <2>6, <2>7, <3>1, <3>2 DEF CommandsAreApart
  <2>17. TargetsAreOwn'
    <3>1. "done" \notin Publishable
      BY DEF Publishable
    <3> QED
      BY <1>0, <2>6, <2>7, <3>1 DEF CatalogInv, TargetsAreOwn
  <2>18. BootIsAlone'
    <3>1. phase = "up" /\ catalogThread[Boot].at = "idle"
      BY <1>0, FreeFacts
    <3> QED
      BY <1>0, <2>7, <3>1 DEF BootIsAlone, Publishable
  <2>19. DeferredAreDeletes'
    <3>1. ASSUME NEW k \in deferred PROVE k.kind = "delete" /\ ~k.whole /\ \A x \in k.ids : ~Listed(x)'
      <4>1. k \in journals /\ k \in JobSet /\ JobIsSound(k) /\ k # j
            /\ k.kind = "delete" /\ ~k.whole /\ \A x \in k.ids : ~Listed(x)
        BY <1>0, <2>1 DEF CatalogInv, CatalogTypes, DeferredAreDeletes
      <4> QED
        BY <2>8, <2>10, <4>1
    <3> QED
      BY <1>0, <3>1 DEF DeferredAreDeletes
  <2>20. ResidueIsCovered'
    <3> SUFFICES ASSUME NEW x \in SessionIds, ~Listed(x)', events[x].present \/ x \in attachments
                 PROVE  \E k \in journals : x \in k.ids /\ Unfinished(k)' /\ ~Settled(k)'
      BY <1>0 DEF ResidueIsCovered
    <3>1. ~Listed(x) /\ x # f
      BY <2>5 DEF Listed
    <3>2. PICK k \in journals : x \in k.ids /\ Unfinished(k) /\ ~Settled(k)
      BY <3>1 DEF CatalogInv, ResidueIsCovered
    <3>3. k # j /\ f \notin k.ids /\ k \in JobSet /\ JobIsSound(k)
      BY <1>0, <2>2, <2>8, <3>1, <3>2 DEF CatalogInv, CatalogTypes
    <3>4. ~Settled(k)'
      BY <1>0, <2>6, <2>7, <3>2, <3>3 DEF Settled
    <3> QED
      BY <2>10, <3>2, <3>3, <3>4
  <2>21. ListedSessionIsWhole'
    <3> SUFFICES ASSUME NEW x \in SessionIds, Listed(x) \/ x = f
                 PROVE  /\ events[x].refs \subseteq artifacts
                        /\ events[x].attached => x \in attachments
                        /\ events[x].present => events[x].project = catalog'.home[x]
                        /\ catalog'.home[x] \in catalog.projects
      BY <1>0, <2>4, <2>5 DEF ListedSessionIsWhole, Listed
    <3>1. CASE x = f
      <4>1. /\ events[f].refs \subseteq copy.refs
            /\ events[f].attached => copy.attached
            /\ events[f].present => events[f].project = j.project
            /\ copy.attached => f \in attachments
            /\ copy.refs \subseteq events[j.source].refs
        BY <1>0, <2>1, <2>2, <2>3 DEF ForkIsSound
      <4>2. events[j.source].refs \subseteq artifacts
        BY <2>3 DEF CatalogInv, ListedSessionIsWhole
      <4> QED
        BY <2>3, <2>4, <3>1, <4>1, <4>2
    <3>2. CASE x # f
      BY <2>4, <3>2 DEF CatalogInv, ListedSessionIsWhole
    <3> QED
      BY <3>1, <3>2
  <2>22. SelectionIsOpen' /\ SelectedProject'
    <3>1. f \notin catalog.archived
      BY <2>2, CatalogFacts
    <3> QED
      BY <2>2, <2>3, <2>4, <3>1 DEF SelectionIsOpen, SelectedProject, OpenSessions
  <2> QED
    BY <2>12, <2>13, <2>14, <2>15, <2>16, <2>17, <2>18, <2>19, <2>20, <2>21, <2>22 DEF CatalogInv
<1> QED
  BY <1>1, <1>2 DEF ForkPublish

\* The catalog after a deletion is published: the sessions are out, nothing else
\* is lost, at most a new session is listed, and an open session is selected.
DeletedFrom(c, k) ==
  /\ c \in Catalogs
  /\ \A x \in SessionIds :
       \/ x \in k.ids /\ c.home[x] = NoProject
       \/ x \notin k.ids /\ c.home[x] = catalog.home[x]
       \/ x \notin issued /\ c.home[x] \in c.projects
  /\ c.projects = IF k.whole THEN catalog.projects \ {k.project} ELSE catalog.projects
  /\ c.archived = catalog.archived \ k.ids
  /\ IF c.projects = {} THEN c.activeSession = NoSession
     ELSE /\ c.activeProject \in c.projects
          /\ c.activeSession \in OpenSessions(c, c.activeProject)

\* The catalog without some sessions.
LEMMA RemovedFacts ==
  ASSUME CatalogInv, NEW ids \in SUBSET SessionIds
  PROVE  /\ Removed(ids) \in Catalogs /\ Removed(ids).projects = catalog.projects
         /\ Removed(ids).archived = catalog.archived \ ids
         /\ Removed(ids).activeProject = catalog.activeProject
         /\ Removed(ids).activeSession = catalog.activeSession
         /\ \A x \in SessionIds :
              Removed(ids).home[x] = IF x \in ids THEN NoProject ELSE catalog.home[x]
<1>1. catalog \in Catalogs
  BY CatalogFacts
<1> QED
  BY <1>1 DEF Removed, Catalogs

\* What delete_session leaves of the catalog.
LEMMA WithoutSessionFacts ==
  ASSUME CatalogInv, NEW k \in JobSet, JobIsSound(k), ~k.whole, NEW s \in SessionIds,
         k.ids = {s}, Listed(s), NEW c \in WithoutSession(s)
  PROVE  DeletedFrom(c, k)
<1>0. catalog.projects # {} /\ catalog.home[s] \in ProjectIds
      /\ \A x \in catalog.archived : x \in issued
  BY CatalogFacts
<1>1. PICK r \in Catalogs :
        /\ r = Removed({s}) /\ r.projects = catalog.projects
        /\ r.archived = catalog.archived \ {s}
        /\ r.activeProject = catalog.activeProject /\ r.activeSession = catalog.activeSession
        /\ \A x \in SessionIds : r.home[x] = IF x = s THEN NoProject ELSE catalog.home[x]
  BY RemovedFacts
<1>2. CASE catalog.activeSession # s
  <2>1. c = r
    BY <1>1, <1>2 DEF WithoutSession
  <2>2. /\ catalog.activeProject \in catalog.projects /\ catalog.activeSession \in SessionIds
        /\ catalog.activeSession \notin catalog.archived
        /\ catalog.home[catalog.activeSession] = catalog.activeProject
    BY <1>0, CatalogFacts
  <2> QED
    BY <1>0, <1>1, <1>2, <2>1, <2>2 DEF DeletedFrom, OpenSessions
<1>3. CASE catalog.activeSession = s
  <2>0. PICK q \in ProjectIds : q = catalog.home[s]
    BY <1>0
  <2>1. c \in EnsureOpen(r, q)
    BY <1>1, <1>3, <2>0 DEF WithoutSession
  <2>2. /\ r.activeProject = q /\ q \in catalog.projects
        /\ \A x \in r.archived : x \in issued
    BY <1>0, <1>1, <1>3, <2>0, CatalogFacts
  <2>3. /\ c \in Catalogs /\ c.projects = r.projects /\ c.archived = r.archived
        /\ c.activeProject = q
        /\ c.activeSession \in OpenSessions(c, q)
        /\ \A x \in SessionIds :
             c.home[x] = r.home[x] \/ (x \notin issued /\ c.home[x] = q)
    BY <2>1, <2>2, EnsureOpenFacts
  <2> QED
    BY <1>0, <1>1, <2>2, <2>3 DEF DeletedFrom
<1> QED
  BY <1>2, <1>3

\* What remove_project_from_config leaves of the catalog.
LEMMA WithoutProjectFacts ==
  ASSUME CatalogInv, NEW k \in JobSet, JobIsSound(k), k.whole, k.project \in catalog.projects,
         k.ids = {s \in SessionIds : catalog.home[s] = k.project},
         NEW c \in WithoutProject(k.project, k.ids)
  PROVE  DeletedFrom(c, k)
<1> DEFINE p == k.project
<1>0. /\ catalog.projects # {} /\ p \in ProjectIds /\ \A x \in catalog.archived : x \in issued
      /\ k.ids \in SUBSET SessionIds /\ catalog.projects \subseteq ProjectIds
  BY CatalogFacts, JobFields
<1>1. PICK r \in Catalogs :
        /\ r = [Removed(k.ids) EXCEPT !.projects = @ \ {p}]
        /\ r.projects = catalog.projects \ {p}
        /\ r.archived = catalog.archived \ k.ids
        /\ r.activeProject = catalog.activeProject /\ r.activeSession = catalog.activeSession
        /\ \A x \in SessionIds : r.home[x] = IF x \in k.ids THEN NoProject ELSE catalog.home[x]
  <2> DEFINE r == [Removed(k.ids) EXCEPT !.projects = @ \ {p}]
  <2>1. /\ r \in Catalogs
        /\ r.projects = catalog.projects \ {p}
        /\ r.archived = catalog.archived \ k.ids
        /\ r.activeProject = catalog.activeProject /\ r.activeSession = catalog.activeSession
        /\ r.home = Removed(k.ids).home
    BY <1>0, RemovedFacts DEF Catalogs
  <2>2. \A x \in SessionIds : r.home[x] = IF x \in k.ids THEN NoProject ELSE catalog.home[x]
    BY <1>0, <2>1, RemovedFacts
  <2> QED
    BY <2>1, <2>2
<1>2. CASE r.projects = {}
  <2>1. c = [r EXCEPT !.activeProject = NoProject, !.activeSession = NoSession]
    BY <1>1, <1>2 DEF WithoutProject
  <2>2. /\ c \in Catalogs /\ c.projects = r.projects /\ c.archived = r.archived
        /\ c.home = r.home /\ c.activeSession = NoSession
    BY <2>1 DEF Catalogs
  <2> QED
    BY <1>1, <1>2, <2>2 DEF DeletedFrom
<1>3. CASE r.projects # {}
  <2>0. c \in UNION {LET d == [r EXCEPT !.activeProject = q] IN
                    IF d.activeSession \in OpenSessions(d, q) THEN {d} ELSE EnsureOpen(d, q)
                    : q \in IF catalog.activeProject = p THEN r.projects ELSE {r.activeProject}}
    <3>1. /\ [Removed(k.ids) EXCEPT !.projects = @ \ {k.project}] = r
          /\ r.projects # {}
      BY <1>1, <1>3
    <3> QED
      BY <3>1, Zenon DEF WithoutProject
  <2>1. PICK q \in IF catalog.activeProject = p THEN r.projects ELSE {r.activeProject} :
          c \in LET d == [r EXCEPT !.activeProject = q] IN
                IF d.activeSession \in OpenSessions(d, q) THEN {d} ELSE EnsureOpen(d, q)
    BY <2>0
  <2>2. q \in r.projects /\ q \in ProjectIds
    <3>1. catalog.activeProject # p => catalog.activeProject \in r.projects
      BY <1>0, <1>1, CatalogFacts
    <3> QED
      BY <1>0, <1>1, <2>1, <3>1
  <2> DEFINE d == [r EXCEPT !.activeProject = q]
  <2>3. /\ d \in Catalogs /\ d.projects = r.projects /\ d.archived = r.archived
        /\ d.home = r.home /\ d.activeProject = q
    BY <2>2 DEF Catalogs
  <2>4. c \in IF d.activeSession \in OpenSessions(d, q) THEN {d} ELSE EnsureOpen(d, q)
    BY <2>1
  <2> HIDE DEF d
  <2>5. CASE d.activeSession \in OpenSessions(d, q)
    <3>1. c = d
      BY <2>4, <2>5
    <3>2. /\ c.activeProject \in c.projects /\ c.activeSession \in OpenSessions(c, c.activeProject)
          /\ c.projects # {}
      BY <1>3, <2>2, <2>3, <2>5, <3>1
    <3>3. \A x \in SessionIds : c.home[x] = IF x \in k.ids THEN NoProject ELSE catalog.home[x]
      BY <1>1, <2>3, <3>1
    <3> QED
      BY <1>1, <2>3, <3>1, <3>2, <3>3 DEF DeletedFrom
  <2>6. CASE d.activeSession \notin OpenSessions(d, q)
    <3>1. c \in EnsureOpen(d, q) /\ \A x \in d.archived : x \in issued
      BY <1>0, <1>1, <2>3, <2>4, <2>6
    <3>2. /\ c \in Catalogs /\ c.projects = d.projects /\ c.archived = d.archived
          /\ c.activeProject = q /\ c.activeSession \in OpenSessions(c, q)
          /\ \A x \in SessionIds :
               c.home[x] = d.home[x] \/ (x \notin issued /\ c.home[x] = q)
      BY <2>2, <2>3, <3>1, EnsureOpenFacts
    <3> QED
      BY <1>1, <1>3, <2>2, <2>3, <3>2 DEF DeletedFrom
  <2> QED
    BY <2>5, <2>6
<1> QED
  BY <1>2, <1>3

\* Publishing a deletion keeps the invariant: the journal now covers what is
\* stored of the sessions that are gone.
LEMMA DeletionKeeps ==
  ASSUME CatalogInv, NEW t \in AllThreads, catalogThread[t].at = "deleting",
         To(t, "published"), NEW c, DeletedFrom(c, catalogThread[t].job), Commit(c),
         UNCHANGED <<journals, events, attachments, artifacts, phase, deferred, running>>
  PROVE  CatalogInv'
<1> DEFINE j == catalogThread[t].job
<1>0. /\ CatalogTypes /\ j \in JobSet /\ j.ids \subseteq SessionIds
      /\ CommandIsSound(catalogThread[t])
  BY CommandFields DEF CatalogInv
<1>1. /\ JobIsSound(j) /\ j \notin deferred /\ j \in journals /\ DeleteIsSound(catalogThread[t])
      /\ j.kind = "delete" /\ j.ids \cap running = {} /\ \A x \in j.ids : Listed(x) /\ x \in issued
      /\ j.whole => j.ids = {x \in SessionIds : catalog.home[x] = j.project}
  BY <1>0 DEF CommandIsSound, DeleteIsSound, JobIsSound
<1>2. /\ \E d \in CatalogCommands : catalogThread' = [catalogThread EXCEPT ![t] = d]
      /\ catalogThread'[t].at = "published" /\ catalogThread'[t].job = j
  BY ToFacts DEF CatalogPlaces, Cleaning
<1>3. /\ \A u \in AllThreads \ {t} : catalogThread'[u] = catalogThread[u]
      /\ catalogThread' \in [AllThreads -> CatalogCommands]
      /\ \A u \in AllThreads : catalogThread'[u].job = catalogThread[u].job
  BY <1>0, <1>2 DEF CatalogTypes
<1>4. /\ catalog' = c /\ catalog' \in Catalogs /\ catalog'.projects \subseteq catalog.projects
      /\ catalog'.projects = IF j.whole THEN catalog.projects \ {j.project} ELSE catalog.projects
      /\ catalog'.archived = catalog.archived \ j.ids
      /\ \A x \in SessionIds :
           \/ x \in j.ids /\ catalog'.home[x] = NoProject
           \/ x \notin j.ids /\ catalog'.home[x] = catalog.home[x]
           \/ x \notin issued /\ catalog'.home[x] \in catalog'.projects
      /\ issued' = issued \cup catalog'.projects
                     \cup {x \in SessionIds : catalog'.home[x] # NoProject}
  BY DEF DeletedFrom, Commit
<1>5. /\ \A x \in SessionIds : x \in issued =>
           /\ x \in j.ids => catalog'.home[x] = NoProject
           /\ x \notin j.ids => catalog'.home[x] = catalog.home[x]
      /\ \A x \in SessionIds : x \in issued /\ ~Listed(x) => ~Listed(x)'
      /\ \A x \in SessionIds : Listed(x)' => x \notin j.ids /\ (Listed(x) \/ x \notin issued)
      /\ \A x \in SessionIds : Listed(x) /\ x \notin j.ids => Listed(x)'
  BY <1>1, <1>4 DEF Listed, CatalogInv, IdsAreIssued
<1>6. /\ issued \subseteq issued' /\ issued' \subseteq SessionIds \cup ProjectIds
      /\ catalog.projects \subseteq ProjectIds
  BY <1>0, <1>4, CatalogFacts DEF CatalogTypes
<1>7. ASSUME NEW k \in JobSet, JobIsSound(k)
      PROVE  /\ \A x \in k.ids : ~Listed(x) => ~Listed(x)'
             /\ \A x \in k.ids : catalog'.home[x] \in {catalog.home[x], NoProject}
             /\ k.project \notin catalog.projects => k.project \notin catalog'.projects
             /\ JobIsSound(k)'
             /\ Unfinished(k) => Unfinished(k)'
  <2>1. \A x \in k.ids : x \in SessionIds /\ x \in issued
    BY <1>7, JobFields DEF JobIsSound
  <2>2. \A x \in k.ids : ~Listed(x) => ~Listed(x)'
    BY <1>5, <2>1
  <2>3. \A x \in k.ids : catalog'.home[x] \in {catalog.home[x], NoProject}
    BY <1>5, <2>1
  <2>4. JobIsSound(k)'
    BY <1>6, <1>7, <2>3 DEF JobIsSound
  <2>5. Unfinished(k) => Unfinished(k)'
    BY <1>4, <2>2 DEF Unfinished
  <2> QED
    BY <1>4, <2>2, <2>3, <2>4, <2>5
<1>8. CatalogTypes'
  BY <1>0, <1>3, <1>4, <1>6 DEF CatalogTypes
<1>9. IdsAreIssued'
  <2>1. \A x \in SessionIds : x \in catalog'.archived \cup running' => Listed(x)'
    BY <1>1, <1>4, <1>5 DEF CatalogInv, IdsAreIssued
  <2>2. \A x \in SessionIds : Listed(x)' => x \in issued'
    BY <1>4 DEF Listed
  <2>3. catalog'.projects \subseteq issued'
    BY <1>4
  <2>4. \A x \in SessionIds : x \notin issued' => events'[x] = NoEvents /\ x \notin attachments'
    BY <1>6 DEF CatalogInv, IdsAreIssued
  <2> QED
    BY <2>1, <2>2, <2>3, <2>4 DEF IdsAreIssued
<1>10. \A k \in journals' : JobIsSound(k)'
  <2>1. \A k \in journals : k \in JobSet /\ JobIsSound(k)
    BY <1>0 DEF CatalogInv, CatalogTypes
  <2> QED
    BY <1>7, <2>1
<1>11. ASSUME NEW u \in AllThreads PROVE CommandIsSound(catalogThread[u])'
  <2>1. CASE u = t
    <3>1. ForkIsSound(catalogThread[u])'
      BY <1>2, <2>1 DEF ForkIsSound, Forking, Publishable
    <3>2. DeleteIsSound(catalogThread[u])'
      <4>1. \A x \in j.ids : ~Listed(x)'
        BY <1>0, <1>5
      <4>2. j.whole => j.project \notin catalog'.projects
        BY <1>4
      <4> QED
        BY <1>1, <1>2, <2>1, <4>1, <4>2 DEF DeleteIsSound, Cleaning
    <3>3. JobIsSound(catalogThread[u].job)'
      <4>1. \A x \in j.ids : catalog'.home[x] = NoProject
        BY <1>0, <1>1, <1>5
      <4> QED
        BY <1>1, <1>2, <1>6, <2>1, <4>1 DEF JobIsSound
    <3> QED
      BY <1>1, <1>2, <2>1, <3>1, <3>2, <3>3 DEF CommandIsSound
  <2>2. CASE u # t
    <3> DEFINE d == catalogThread[u]
    <3>1. /\ catalogThread'[u] = d /\ CommandIsSound(d) /\ d.job \in JobSet
          /\ d.at # "deleting"
      BY <1>0, <1>3, <2>2, CommandFields DEF CatalogInv, CommandsAreApart
    <3>2. CASE d.at = "idle"
      BY <3>1, <3>2 DEF CommandIsSound, ForkIsSound, DeleteIsSound, Forking, Publishable,
         Cleaning
    <3>3. CASE d.at # "idle"
      <4>1. JobIsSound(d.job)
        BY <3>1, <3>3 DEF CommandIsSound
      <4>2. /\ \A x \in d.job.ids : catalog.home[x] = NoProject => catalog'.home[x] = NoProject
            /\ \A x \in d.job.ids : catalog'.home[x] \in {catalog.home[x], NoProject}
            /\ d.job.project \notin catalog.projects => d.job.project \notin catalog'.projects
        BY <1>7, <3>1, <4>1 DEF Listed
      <4>3. ForkIsSound(d)'
        <5>1. ForkIsSound(d)
          BY <3>1 DEF CommandIsSound
        <5>2. d.at \in Publishable /\ catalog'.home[d.job.source] # NoProject =>
                catalog.home[d.job.source] # NoProject
          BY <1>5, <5>1 DEF ForkIsSound, Listed
        <5> QED
          BY <1>6, <3>1, <4>2, <5>1, <5>2 DEF ForkIsSound, Listed
      <4>4. DeleteIsSound(d)'
        <5>1. DeleteIsSound(d)
          BY <3>1 DEF CommandIsSound
        <5> QED
          BY <3>1, <4>2, <5>1 DEF DeleteIsSound, Listed
      <4>5. JobIsSound(d.job)'
        BY <1>6, <3>1, <4>1, <4>2 DEF JobIsSound
      <4> QED
        BY <3>1, <3>3, <4>3, <4>4, <4>5 DEF CommandIsSound
    <3> QED
      BY <3>2, <3>3
  <2> QED
    BY <2>1, <2>2
<1>12. CommandsAreApart' /\ TargetsAreOwn'
  <2>1. CommandsAreApart /\ TargetsAreOwn
    BY DEF CatalogInv
  <2>2. "published" \notin Forking /\ "published" \notin Publishable
    BY DEF Forking, Publishable
  <2> QED
    BY <1>2, <1>3, <2>1, <2>2 DEF CommandsAreApart, TargetsAreOwn
<1>13. BootIsAlone'
  <2>1. t # Boot /\ Boot \in AllThreads
    BY DEF CatalogInv, BootIsAlone, AllThreads
  <2> QED
    BY <1>3, <2>1 DEF CatalogInv, BootIsAlone, AllThreads
<1>14. DeferredAreDeletes'
  <2>1. \A k \in deferred : k \in JobSet /\ JobIsSound(k)
    BY <1>0 DEF CatalogInv, CatalogTypes
  <2>2. \A k \in deferred : \A x \in k.ids : ~Listed(x) => ~Listed(x)'
    BY <1>7, <2>1
  <2> QED
    BY <2>2 DEF CatalogInv, DeferredAreDeletes
<1>15. ResidueIsCovered'
  <2> SUFFICES ASSUME NEW x \in SessionIds, ~Listed(x)', events[x].present \/ x \in attachments
               PROVE  \E k \in journals : x \in k.ids /\ Unfinished(k)' /\ ~Settled(k)'
    BY DEF ResidueIsCovered
  <2>1. CASE Listed(x)
    <3>1. x \in j.ids
      BY <1>5, <2>1
    <3>2. PICK k \in journals : k = j
      BY <1>1
    <3>3. Unfinished(k)'
      BY <1>0, <1>1, <1>4, <1>5, <3>2 DEF Unfinished
    <3>4. ~Settled(k)'
      <4>1. \A u \in AllThreads \ {t} : catalogThread'[u].job # j
        BY <1>3 DEF CatalogInv, CommandsAreApart
      <4> QED
        BY <1>1, <1>2, <3>2, <4>1 DEF Settled
    <3> QED
      BY <3>1, <3>2, <3>3, <3>4
  <2>2. CASE ~Listed(x)
    <3>1. PICK k \in journals : x \in k.ids /\ Unfinished(k) /\ ~Settled(k)
      BY <2>2 DEF CatalogInv, ResidueIsCovered
    <3>2. k \in JobSet /\ JobIsSound(k)
      BY <1>0 DEF CatalogInv, CatalogTypes
    <3>3. ~Settled(k)'
      BY <1>2, <1>3, <3>1 DEF Settled
    <3> QED
      BY <1>7, <3>1, <3>2, <3>3
  <2> QED
    BY <2>1, <2>2
<1>16. ListedSessionIsWhole'
  <2> SUFFICES ASSUME NEW x \in SessionIds, Listed(x)'
               PROVE  /\ events[x].refs \subseteq artifacts
                      /\ events[x].attached => x \in attachments
                      /\ events[x].present => events[x].project = catalog'.home[x]
                      /\ catalog'.home[x] \in catalog'.projects
    BY DEF ListedSessionIsWhole
  <2>1. CASE x \in issued
    <3>1. Listed(x) /\ catalog'.home[x] = catalog.home[x] /\ x \notin j.ids
      BY <1>5, <2>1
    <3>2. j.whole => catalog.home[x] # j.project
      BY <1>1, <3>1
    <3> QED
      BY <1>4, <3>1, <3>2 DEF CatalogInv, ListedSessionIsWhole
  <2>2. CASE x \notin issued
    <3>1. events[x] = NoEvents /\ ~Listed(x) /\ x \notin j.ids
      BY <1>1, <2>2 DEF CatalogInv, IdsAreIssued
    <3>2. catalog'.home[x] \in catalog'.projects
      BY <1>4, <3>1 DEF Listed
    <3> QED
      BY <3>1, <3>2, NothingFacts
  <2> QED
    BY <2>1, <2>2
<1>17. SelectionIsOpen' /\ SelectedProject'
  BY <1>4 DEF DeletedFrom, SelectionIsOpen, SelectedProject, OpenSessions
<1> QED
  BY <1>8, <1>9, <1>10, <1>11, <1>12, <1>13, <1>14, <1>15, <1>16, <1>17 DEF CatalogInv

\* A deletion is published, or given up.
LEMMA DeletePublishKeeps ==
  ASSUME CatalogInv, NEW t \in CatalogThreads, DeletePublish(t)
  PROVE  CatalogInv'
<1> DEFINE j == catalogThread[t].job
<1>0. /\ t \in AllThreads /\ CatalogTypes /\ catalogThread[t].at = "deleting" /\ j \in JobSet
      /\ UNCHANGED <<events, attachments, artifacts, phase, deferred, running>>
  <2>1. t \in AllThreads
    BY DEF AllThreads
  <2> QED
    BY <2>1, CommandFields DEF CatalogInv, DeletePublish
<1>1. /\ JobIsSound(j) /\ \A x \in j.ids : Listed(x)
      /\ j.whole => /\ j.project \in catalog.projects
                    /\ j.ids = {x \in SessionIds : catalog.home[x] = j.project}
  BY <1>0 DEF CatalogInv, CommandIsSound, DeleteIsSound
<1>2. CASE UNCHANGED <<catalog, issued>> /\ journals' \in {journals, journals \ {j}} /\ Done(t)
  BY <1>0, <1>2, GivingUpKeeps
<1>3. ASSUME NEW c \in IF j.whole THEN WithoutProject(j.project, j.ids)
                       ELSE WithoutSession(Target(t)),
             Commit(c), To(t, "published"), UNCHANGED journals
      PROVE  CatalogInv'
  <2>1. PICK k \in JobSet : k = j
    BY <1>0
  <2>2. CASE j.whole
    <3>1. DeletedFrom(c, k)
      BY <1>1, <1>3, <2>1, <2>2, WithoutProjectFacts
    <3> QED
      BY <1>0, <1>3, <2>1, <3>1, DeletionKeeps
  <2>3. CASE ~j.whole
    <3>1. PICK s \in SessionIds : s = Target(t) /\ j.ids = {s}
      BY <1>0, <1>1, <2>3, TargetIsTheId
    <3>2. c \in WithoutSession(s) /\ Listed(s)
      BY <1>1, <1>3, <2>3, <3>1
    <3>3. DeletedFrom(c, k)
      BY <1>1, <2>1, <2>3, <3>1, <3>2, WithoutSessionFacts
    <3> QED
      BY <1>0, <1>3, <2>1, <3>3, DeletionKeeps
  <2> QED
    BY <2>2, <2>3
<1> QED
  BY <1>2, <1>3 DEF DeletePublish

-----------------------------------------------------------------------------
(* The invariant, and what it gives.                                       *)

\* A step that changes nothing.
LEMMA CatalogStutters ==
  CatalogInv /\ UNCHANGED catalogVars => CatalogInv'
<1> SUFFICES ASSUME CatalogInv, UNCHANGED catalogVars PROVE CatalogInv'
  OBVIOUS
<1>0. UNCHANGED <<catalog, journals, events, attachments, artifacts, phase, deferred,
                  catalogThread, running, issued>>
  BY DEF catalogVars, catalogDurable
<1>1. CatalogTypes' /\ IdsAreIssued' /\ (\A j \in journals' : JobIsSound(j)')
  BY <1>0 DEF CatalogInv, CatalogTypes, IdsAreIssued, JobIsSound, Listed
<1>2. \A t \in AllThreads : CommandIsSound(catalogThread[t])'
  <2> TAKE t \in AllThreads
  <2>1. CommandIsSound(catalogThread[t])
    BY DEF CatalogInv
  <2> QED
    BY <1>0, <2>1 DEF CommandIsSound, ForkIsSound, DeleteIsSound, JobIsSound, Listed
<1>3. CommandsAreApart' /\ TargetsAreOwn' /\ BootIsAlone' /\ DeferredAreDeletes'
  BY <1>0 DEF CatalogInv, CommandsAreApart, TargetsAreOwn, BootIsAlone, DeferredAreDeletes, Listed
<1>4. ResidueIsCovered'
  BY <1>0 DEF CatalogInv, ResidueIsCovered, Unfinished, Settled, Listed
<1>5. ListedSessionIsWhole' /\ SelectionIsOpen' /\ SelectedProject'
  BY <1>0 DEF CatalogInv, ListedSessionIsWhole, SelectionIsOpen, SelectedProject, OpenSessions, Listed
<1> QED
  BY <1>1, <1>2, <1>3, <1>4, <1>5 DEF CatalogInv

\* Every operation keeps the invariant.
LEMMA CatalogStep == CatalogInv /\ [CatalogNext]_catalogVars => CatalogInv'
<1> SUFFICES ASSUME CatalogInv, [CatalogNext]_catalogVars PROVE CatalogInv'
  OBVIOUS
<1>1. ASSUME NEW s \in SessionIds, StartSessionRun(s) \/ RecordToolOutput(s) \/ EndSessionRun(s)
      PROVE  CatalogInv'
  BY <1>1, RunsKeep, CrashAndRecoveryKeep
<1>2. ASSUME NEW t \in CatalogThreads,
             \/ \E s, f \in SessionIds : ForkChoose(t, s, f)
             \/ ForkLoad(t) \/ ForkJournal(t) \/ ForkClone(t) \/ ForkStore(t) \/ ForkPublish(t)
             \/ \E s \in SessionIds : DeleteSession(t, s)
             \/ \E p \in ProjectIds : DeleteProject(t, p)
             \/ DeletePublish(t)
      PROVE  CatalogInv'
  <2>1. t \in AllThreads
    BY DEF AllThreads
  <2>2. ASSUME NEW s \in SessionIds, NEW f \in SessionIds, ForkChoose(t, s, f) PROVE CatalogInv'
    BY <2>2, ForkChooseKeeps
  <2>3. CASE ForkLoad(t) \/ ForkJournal(t) \/ ForkClone(t) \/ ForkStore(t) \/ ForkPublish(t)
    BY <2>1, <2>3, ForkLoadKeeps, ForkJournalKeeps, ForkCloneKeeps, ForkStoreKeeps, ForkPublishKeeps
  <2>4. CASE \/ \E s \in SessionIds : DeleteSession(t, s)
             \/ \E p \in ProjectIds : DeleteProject(t, p)
    BY <2>4, DeleteCommandsKeep
  <2>5. CASE DeletePublish(t)
    BY <2>5, DeletePublishKeeps
  <2> QED
    BY <1>2, <2>2, <2>3, <2>4, <2>5
<1>3. ASSUME NEW t \in AllThreads,
             \/ RollbackFork(t) \/ RemoveForkFiles(t)
             \/ RetireArtifacts(t) \/ CleanStore(t) \/ RemoveSessionFiles(t)
             \/ CleanupFails(t) \/ CompleteJournal(t)
      PROVE  CatalogInv'
  BY <1>3, RollbackKeeps, CleanupKeeps, EndingKeeps
<1>4. CASE \/ CreateProject \/ CreateSession \/ SelectProject \/ SelectSession
           \/ ArchiveSession \/ RestoreSession
  BY <1>4, CatalogEditKeeps
<1>5. CASE ProcessDies \/ RecoverJournal \/ Serve \/ ResumeRefresh
  BY <1>5, CrashAndRecoveryKeep, RecoverKeeps
<1>6. CASE UNCHANGED catalogVars
  BY <1>6, CatalogStutters
<1> QED
  BY <1>1, <1>2, <1>3, <1>4, <1>5, <1>6 DEF CatalogNext

\* CatalogInv is inductive: it holds in every state the catalog, its commands and
\* start-up recovery reach (session_commands.rs, project_lifecycle_runtime.rs).
THEOREM CatalogInvariant == CatalogSpec => []CatalogInv
  BY CatalogInitInv, CatalogStep, PTL DEF CatalogSpec

\* What is stored of a session the catalog does not list is named by a journal:
\* no failed or interrupted fork or delete leaves anything recovery cannot find
\* (recover_project_lifecycle_operations_at).
THEOREM ResidueNeverOrphaned == CatalogSpec => []ResidueIsJournalled
<1>1. CatalogInv => ResidueIsJournalled
  <2> SUFFICES ASSUME CatalogInv PROVE ResidueIsJournalled
    OBVIOUS
  <2>1. \A s \in SessionIds : events[s] \in EventSet
    BY DEF CatalogInv, CatalogTypes, Stored
  <2>2. events \in [SessionIds -> EventSet]
    BY <2>1 DEF CatalogInv, CatalogTypes
  <2>3. \A t \in AllThreads :
          /\ catalogThread[t].job \in JobSet /\ catalogThread[t].copy \in EventSet
          /\ catalogThread[t].at \notin {"idle", "chosen", "loaded"}
               => catalogThread[t].job \in journals
    BY CommandFields DEF CatalogInv, CommandIsSound
  <2>4. CatalogTypeOK
    BY <2>2, <2>3 DEF CatalogInv, CatalogTypes, CatalogTypeOK, Catalogs
  <2> QED
    BY <2>4 DEF CatalogInv, ResidueIsCovered, ResidueIsJournalled
<1> QED
  BY <1>1, CatalogInvariant, PTL

\* What the catalog shows can be opened, whole: a listed session has its events,
\* its attachments and the artifacts it shares, and the selection is an open
\* session of the selected project (plan_managed_artifact_retirement,
\* ensure_open_session_for_project).
THEOREM CatalogAlwaysWhole == CatalogSpec => []CatalogIsWhole
<1>1. CatalogInv => CatalogIsWhole
  BY DEF CatalogInv, CatalogIsWhole
<1> QED
  BY <1>1, CatalogInvariant, PTL

\* No step takes a listed session's history but its own deletion: a rollback, a
\* fork and a clean-up write only to sessions that are not listed, and a
\* project's clean-up finds none of them by its project
\* (cleanup_deleted_project_storage, rollback_unpublished_fork).
THEOREM HistoryAlwaysKept == CatalogSpec => HistoryIsKept
<1> DEFINE Kept == \A s \in SessionIds :
      Listed(s) /\ events[s].present /\ catalog'.home[s] # NoProject
      => events'[s].present /\ events[s].refs \subseteq events'[s].refs
<1>1. CatalogInv /\ [CatalogNext]_catalogVars => Kept
  <2> SUFFICES ASSUME CatalogInv, [CatalogNext]_catalogVars PROVE Kept
    OBVIOUS
  <2>0. CatalogTypes /\ events \in [SessionIds -> Stored]
    BY DEF CatalogInv, CatalogTypes
  <2>1. CASE UNCHANGED events
    BY <2>1
  <2>2. ASSUME NEW s \in SessionIds, RecordToolOutput(s) PROVE Kept
    <3>1. PICK made : \E attach \in BOOLEAN :
            events' = [events EXCEPT ![s] =
              [present |-> TRUE, project |-> catalog.home[s], refs |-> @.refs \cup made,
               attached |-> @.attached \/ attach]]
      BY <2>2 DEF RecordToolOutput
    <3> QED
      BY <2>0, <3>1
  <2>3. ASSUME NEW t \in AllThreads, ForkStore(t) \/ RollbackFork(t) PROVE Kept
    <3>1. /\ catalogThread[t].at \in Forking
          /\ \E e : events' = [events EXCEPT ![Target(t)] = e] \/ UNCHANGED events
      BY <2>3 DEF ForkStore, RollbackFork, Forking, Publishable
    <3>2. JobIsSound(catalogThread[t].job) /\ ~catalogThread[t].job.whole
      BY <3>1, WorkedOnIsUnlisted DEF JobIsSound
    <3>3. Target(t) \in SessionIds /\ ~Listed(Target(t))
      BY <2>0, <3>1, <3>2, WorkedOnIsUnlisted, TargetIsTheId
    <3> QED
      BY <2>0, <3>1, <3>3
  <2>4. ASSUME NEW t \in AllThreads, CleanStore(t) PROVE Kept
    <3> DEFINE j == catalogThread[t].job
    <3>1. /\ catalogThread[t].at = "retired" /\ catalogThread[t].at \in Cleaning
          /\ events' = [s \in SessionIds |->
               IF s \in j.ids \/ (j.whole /\ events[s].project = j.project)
               THEN NoEvents ELSE events[s]]
      BY <2>4 DEF CleanStore, Cleaning
    <3>2. /\ \A s \in j.ids : ~Listed(s)
          /\ j.whole => j.project \notin catalog.projects
      BY <3>1, WorkedOnIsUnlisted DEF CommandIsSound, DeleteIsSound
    <3>3. \A s \in SessionIds : Listed(s) /\ events[s].present
            => events[s].project = catalog.home[s] /\ catalog.home[s] \in catalog.projects
      BY DEF CatalogInv, ListedSessionIsWhole
    <3>4. \A s \in SessionIds : Listed(s) /\ events[s].present => events'[s] = events[s]
      BY <3>1, <3>2, <3>3
    <3> QED
      BY <3>4
  <2>5. UNCHANGED events \/ (\E s \in SessionIds : RecordToolOutput(s))
        \/ \E t \in AllThreads : ForkStore(t) \/ RollbackFork(t) \/ CleanStore(t)
    <3>1. ASSUME NEW s \in SessionIds, StartSessionRun(s) \/ EndSessionRun(s) PROVE UNCHANGED events
      BY <3>1 DEF StartSessionRun, EndSessionRun, catalogDurable
    <3>2. ASSUME NEW t \in CatalogThreads,
                 \/ \E s, f \in SessionIds : ForkChoose(t, s, f)
                 \/ ForkLoad(t) \/ ForkJournal(t) \/ ForkClone(t) \/ ForkPublish(t)
                 \/ \E s \in SessionIds : DeleteSession(t, s)
                 \/ \E p \in ProjectIds : DeleteProject(t, p)
                 \/ DeletePublish(t)
          PROVE  UNCHANGED events
      BY <3>2 DEF ForkChoose, ForkLoad, ForkJournal, ForkClone, ForkPublish, DeleteSession,
         DeleteProject, Delete, DeletePublish, catalogDurable
    <3>3. ASSUME NEW t \in AllThreads,
                 \/ RemoveForkFiles(t) \/ RetireArtifacts(t) \/ RemoveSessionFiles(t)
                 \/ CleanupFails(t) \/ CompleteJournal(t)
          PROVE  UNCHANGED events
      BY <3>3 DEF RemoveForkFiles, RetireArtifacts, RemoveSessionFiles, CleanupFails,
         CompleteJournal, catalogDurable
    <3>4. CASE \/ CreateProject \/ CreateSession \/ SelectProject \/ SelectSession
               \/ ArchiveSession \/ RestoreSession
      BY <3>4 DEF CreateProject, CreateSession, SelectProject, SelectSession, ArchiveSession,
         RestoreSession, CatalogOnly
    <3>5. CASE ProcessDies \/ RecoverJournal \/ Serve \/ ResumeRefresh
      BY <3>5 DEF ProcessDies, RecoverJournal, Serve, ResumeRefresh, catalogDurable
    <3>6. CASE UNCHANGED catalogVars
      BY <3>6 DEF catalogVars, catalogDurable
    <3>7. CatalogThreads \subseteq AllThreads
      BY DEF AllThreads
    <3> QED
      BY <3>1, <3>2, <3>3, <3>4, <3>5, <3>6, <3>7 DEF CatalogNext
  <2> QED
    BY <2>1, <2>2, <2>3, <2>4, <2>5
<1>2. CatalogInv /\ [CatalogNext]_catalogVars => [Kept]_catalogVars
  BY <1>1
<1> QED
  BY <1>2, CatalogInvariant, PTL DEF CatalogSpec, HistoryIsKept

(***************************************************************************)
(* The event log and the rows derived from it.                             *)
(***************************************************************************)

\* Logs of n events ever appended: sequences are found from what is left of the
\* log, never exceed n, and no two events share one.
Entries(n) == [id : 1..n, seq : 1..n, sess : LogSessions \cup {MemorySession}]
Logs(n) == {E \in SUBSET Entries(n) : \A d, e \in E : d.seq = e.seq => d = e}

RowRecords == [rev : Nat, count : Nat, from : SUBSET (1..MaxEventIds)]
Recalls == [at : {"idle", "row", "delta", "all", "built"}, rev : Nat, count : Nat,
            row : Rows, from : SUBSET (1..MaxEventIds)]

ProjectionTypes ==
  /\ appended \in Nat /\ appended <= MaxEventIds /\ rollbacks \in Nat
  /\ eventLog \in Logs(appended)
  /\ ledgerRow \in Rows
  /\ sessionRow \in [LogSessions -> Rows] /\ outputCache \in [LogSessions -> Rows]
  /\ listed \subseteq LogSessions
  /\ unpublished = {} \/ \E f \in LogSessions \ listed : unpublished = {f}
  /\ recaller \in [Recallers -> Recalls]
  /\ \A r \in Recallers : recaller[r].at = "delta" => recaller[r].row \in RowRecords

\* A row says what the events up to its label say, all of which are still there.
BuiltFrom(row, E) ==
  /\ row.rev <= LatestSequence(E)
  /\ row.from = Ids({e \in E : e.seq <= row.rev})
ExactRow(row, E) == row # NoRow => BuiltFrom(row, E)

\* A session that is not listed has no row, so that a fork finds none.
RowsAreExact ==
  /\ ExactRow(ledgerRow, eventLog)
  /\ \A s \in LogSessions :
       IF s \in listed THEN /\ ExactRow(sessionRow[s], OfSession(eventLog, s))
                            /\ ExactRow(outputCache[s], OfSession(eventLog, s))
       ELSE sessionRow[s] = NoRow /\ outputCache[s] = NoRow

\* What a recall has read is exact for as long as the log has not moved on from
\* the revision it read first.
RecallIsExact(a) ==
  a.at # "idle" =>
    /\ a.rev <= LatestSequence(eventLog)
    /\ a.rev = LatestSequence(eventLog) =>
         /\ a.at = "delta" => BuiltFrom(a.row, eventLog)
         /\ a.at = "built" => a.from = Ids(eventLog)

ProjectionInv ==
  /\ ProjectionTypes
  /\ rollbacks = 0 => RowsAreExact /\ \A r \in Recallers : RecallIsExact(recaller[r])
-----------------------------------------------------------------------------
(* Logs.                                                                   *)

\* A set of numbers has a least one.
LEMMA LeastNumber ==
  ASSUME NEW S, S \subseteq Nat, S # {}
  PROVE  \E x \in S : \A y \in S : x <= y
<1>1. \E x \in S : \A y \in S : ~(<<y, x>> \in OpToRel(<, Nat))
  BY WFMin, NatLessThanWellFounded
<1>2. \A x, y \in Nat : ~(<<y, x>> \in OpToRel(<, Nat)) => x <= y
  BY DEF OpToRel
<1> QED
  BY <1>1, <1>2

\* The latest sequence of a log is the greatest of its sequences.
LEMMA LatestFacts ==
  ASSUME NEW n \in Nat, NEW E, \A e \in E : e.seq \in 1..n
  PROVE  /\ LatestSequence(E) \in 0..n
         /\ \A e \in E : e.seq <= LatestSequence(E)
         /\ E = {} => LatestSequence(E) = 0
         /\ E # {} => \E e \in E : e.seq = LatestSequence(E)
<1>1. CASE E = {}
  BY <1>1 DEF LatestSequence
<1>2. CASE E # {}
  <2> DEFINE S == {e.seq : e \in E}
             T == {m \in 0..n : \A x \in S : x <= m}
  <2>1. S \subseteq 1..n /\ S # {}
    BY <1>2
  <2>2. n \in T /\ T \subseteq Nat
    BY <2>1
  <2>3. PICK m \in T : \A k \in T : m <= k
    BY <2>2, LeastNumber
  <2>4. m \in S
    <3> SUFFICES ASSUME m \notin S PROVE FALSE
      OBVIOUS
    <3>1. \A x \in S : x < m /\ x >= 1
      BY <2>1, <2>3
    <3>2. m - 1 \in T
      BY <2>1, <2>3, <3>1
    <3> QED
      BY <2>3, <3>2
  <2>5. \A y \in S : m >= y
    BY <2>1, <2>3
  <2> HIDE DEF S, T
  <2>6. \A z \in S : (\A y \in S : z >= y) => z = m
    <3> SUFFICES ASSUME NEW z \in S, \A y \in S : z >= y PROVE z = m
      OBVIOUS
    <3>1. z >= m /\ m >= z
      BY <2>4, <2>5
    <3>2. z \in 1..n /\ m \in 1..n
      BY <2>1, <2>4
    <3> QED
      BY <3>1, <3>2
  <2>7. Max(S) = m
    BY <2>4, <2>5, <2>6 DEF Max
  <2>8. LatestSequence(E) = m
    BY <1>2, <2>7 DEF LatestSequence, S
  <2> QED
    BY <1>2, <2>1, <2>4, <2>5, <2>8 DEF S
<1> QED
  BY <1>1, <1>2

\* A log is finite: its sequences tell its events apart.
LEMMA LogFacts ==
  ASSUME NEW n \in Nat, n <= MaxEventIds, NEW E \in Logs(n)
  PROVE  /\ \A e \in E : e.seq \in 1..n /\ e.id \in 1..n
         /\ LatestSequence(E) \in 0..n
         /\ \A e \in E : e.seq <= LatestSequence(E)
         /\ IsFiniteSet(E) /\ Cardinality(E) \in Nat
         /\ Ids(E) \subseteq 1..MaxEventIds
<1>1. \A e \in E : e.seq \in 1..n /\ e.id \in 1..n
  BY DEF Logs, Entries
<1>2. /\ LatestSequence(E) \in 0..n
      /\ \A e \in E : e.seq <= LatestSequence(E)
  BY <1>1, LatestFacts
<1>3. IsFiniteSet(E)
  <2> DEFINE f == [e \in E |-> e.seq]
  <2>1. f \in Injection(E, 1..n)
    BY <1>1 DEF Injection, IsInjective, Logs
  <2>2. IsFiniteSet(1..n)
    BY FS_Interval
  <2> HIDE DEF f
  <2> QED
    BY <2>1, <2>2, FS_Injection
<1>4. Cardinality(E) \in Nat
  BY <1>3, FS_CardinalityType
<1>5. \A e \in E : e.id \in 1..MaxEventIds
  BY <1>1, ProjectionAssumption
<1> QED
  BY <1>1, <1>2, <1>3, <1>4, <1>5 DEF Ids

\* Part of a log is a log.
LEMMA PartOfLog ==
  ASSUME NEW n \in Nat, NEW E \in Logs(n), NEW F, F \subseteq E
  PROVE  F \in Logs(n)
  BY DEF Logs

\* A log with n events after it, and what is left of it: everything.
Extended(a, E, s, n) ==
  E \cup {[id |-> a + k, seq |-> NextSequence(E) + k - 1, sess |-> s] : k \in 1..n}
GrownFrom(F, E) == E = {e \in F : e.seq <= LatestSequence(E)}

\* Appending gives the next sequences to the new events.
LEMMA AppendedFacts ==
  ASSUME NEW a \in Nat, NEW E \in Logs(a), a <= MaxEventIds,
         NEW s \in LogSessions \cup {MemorySession}, NEW n \in Nat \ {0},
         NEW F, F = Extended(a, E, s, n)
  PROVE  /\ F \in Logs(a + n)
         /\ GrownFrom(F, E)
         /\ \A e \in F : e.seq > LatestSequence(E) => e.sess = s
         /\ \E e \in F : e.seq > LatestSequence(E)
<1> DEFINE l == LatestSequence(E)
           new(k) == [id |-> a + k, seq |-> NextSequence(E) + k - 1, sess |-> s]
<1>1. l \in 0..a /\ \A e \in E : e.seq <= l /\ e.seq \in 1..a
  BY LogFacts
<1>2. NextSequence(E) = l + 1
  BY DEF NextSequence
<1> HIDE DEF l
<1>3. \A k \in 1..n : /\ new(k) \in Entries(a + n)
                      /\ new(k).seq = l + k /\ new(k).sess = s /\ l + k > l
  BY <1>1, <1>2 DEF Entries
<1>4. E \subseteq Entries(a + n)
  BY DEF Logs, Entries
<1>5. F = E \cup {new(k) : k \in 1..n}
  BY DEF Extended
<1> HIDE DEF new
<1>6. \A j, k \in 1..n : new(j).seq = new(k).seq => j = k
  BY <1>1, <1>3
<1>7. \A d, e \in E : d.seq = e.seq => d = e
  BY DEF Logs
<1>8. F \subseteq Entries(a + n)
  BY <1>3, <1>4, <1>5
<1>9. \A e \in E, k \in 1..n : e.seq # new(k).seq
  BY <1>1, <1>3
<1>10. \A d, e \in F : d.seq = e.seq => d = e
  BY <1>5, <1>6, <1>7, <1>9
<1>11. F \in Logs(a + n)
  BY <1>8, <1>10 DEF Logs
<1>12. \A e \in F : \/ e \in E /\ e.seq <= l
                    \/ e.seq > l /\ e.sess = s
  BY <1>1, <1>3, <1>5
<1>13. E = {e \in F : e.seq <= l} /\ \A e \in F : e.seq > l => e.sess = s
  <2>1. \A e \in F : e.seq \in Nat
    BY <1>8 DEF Entries
  <2>2. \A e \in F : e.seq <= l => e \in E
    BY <1>1, <1>12, <2>1
  <2>3. \A e \in F : e.seq > l => e.sess = s
    BY <1>1, <1>12, <2>1
  <2> QED
    BY <1>1, <1>5, <2>2, <2>3
<1>14. new(1) \in F /\ new(1).seq > l
  BY <1>3, <1>5
<1> QED
  BY <1>11, <1>13, <1>14 DEF l, GrownFrom
-----------------------------------------------------------------------------
(* Rows.                                                                   *)

\* A row stays exact while its log only grows above its latest sequence.
LEMMA RowKept ==
  ASSUME NEW n \in Nat, NEW E, NEW F,
         \A e \in E : e.seq \in 1..n, \A e \in F : e.seq \in 1..n,
         GrownFrom(F, E), NEW row \in Rows, ExactRow(row, E)
  PROVE  ExactRow(row, F)
<1>0. E = {e \in F : e.seq <= LatestSequence(E)}
  BY DEF GrownFrom
<1> SUFFICES ASSUME row # NoRow PROVE BuiltFrom(row, F)
  BY DEF ExactRow
<1>1. row.rev \in Nat /\ row.rev <= LatestSequence(E) /\ row.from = Ids({e \in E : e.seq <= row.rev})
  BY DEF ExactRow, BuiltFrom, Rows
<1>2. LatestSequence(E) \in Nat /\ LatestSequence(F) \in Nat
  BY LatestFacts
<1>3. LatestSequence(E) <= LatestSequence(F)
  <2>1. CASE E = {}
    <3>1. LatestSequence(E) = 0
      BY <2>1, LatestFacts
    <3> QED
      BY <1>2, <3>1
  <2>2. CASE E # {}
    <3>1. PICK e \in E : e.seq = LatestSequence(E)
      BY <2>2, LatestFacts
    <3>2. \A x \in F : x.seq <= LatestSequence(F)
      BY LatestFacts
    <3>3. e \in F
      BY <1>0
    <3> QED
      BY <3>1, <3>2, <3>3
  <2> QED
    BY <2>1, <2>2
<1>4. {e \in E : e.seq <= row.rev} = {e \in F : e.seq <= row.rev}
  <2>1. \A e \in F : e.seq <= row.rev => e.seq <= LatestSequence(E)
    BY <1>1, <1>2
  <2> QED
    BY <1>0, <2>1
<1>5. row.rev <= LatestSequence(F)
  BY <1>1, <1>2, <1>3
<1> QED
  BY <1>1, <1>4, <1>5 DEF BuiltFrom

\* What an exact row and the events after it make is the whole log; an empty row
\* is exact.
LEMMA ExactFacts ==
  ASSUME NEW n \in Nat, n <= MaxEventIds, NEW E \in Logs(n)
  PROVE  /\ EmptyRow \in RowRecords /\ BuiltFrom(EmptyRow, E)
         /\ \A row \in RowRecords :
              /\ row.from \cup Ids(EventsAfter(E, row.rev)) \subseteq 1..MaxEventIds
              /\ BuiltFrom(row, E) => row.from \cup Ids(EventsAfter(E, row.rev)) = Ids(E)
         /\ \A row : row.rev = LatestSequence(E) /\ row.from = Ids(E) => BuiltFrom(row, E)
<1>1. /\ \A e \in E : e.seq \in 1..n /\ e.id \in 1..n /\ e.seq <= LatestSequence(E)
      /\ LatestSequence(E) \in Nat /\ Ids(E) \subseteq 1..MaxEventIds
  BY LogFacts
<1>2. EmptyRow \in RowRecords /\ EmptyRow.rev = 0 /\ EmptyRow.from = {}
  BY DEF EmptyRow, RowRecords
<1>3. BuiltFrom(EmptyRow, E)
  <2>1. {e \in E : e.seq <= 0} = {}
    BY <1>1
  <2> QED
    BY <1>1, <1>2, <2>1 DEF BuiltFrom, Ids
<1>4. ASSUME NEW row \in RowRecords
      PROVE  /\ row.from \cup Ids(EventsAfter(E, row.rev)) \subseteq 1..MaxEventIds
             /\ BuiltFrom(row, E) => row.from \cup Ids(EventsAfter(E, row.rev)) = Ids(E)
  <2>1. row.rev \in Nat /\ row.from \subseteq 1..MaxEventIds
    BY DEF RowRecords
  <2>2. Ids(EventsAfter(E, row.rev)) \subseteq Ids(E)
    BY DEF Ids, EventsAfter
  <2>3. \A e \in E : e.seq <= row.rev \/ e.seq > row.rev
    BY <1>1, <2>1
  <2>4. ASSUME BuiltFrom(row, E)
        PROVE  row.from \cup Ids(EventsAfter(E, row.rev)) = Ids(E)
    BY <2>3, <2>4 DEF BuiltFrom, Ids, EventsAfter
  <2> QED
    BY <1>1, <2>1, <2>2, <2>4
<1>5. ASSUME NEW row, row.rev = LatestSequence(E), row.from = Ids(E) PROVE BuiltFrom(row, E)
  <2>1. {e \in E : e.seq <= row.rev} = E
    BY <1>1, <1>5
  <2>2. row.rev <= LatestSequence(E)
    BY <1>1, <1>5
  <2>3. row.from = Ids({e \in E : e.seq <= row.rev})
    BY <1>5, <2>1, Zenon
  <2> QED
    BY <2>2, <2>3 DEF BuiltFrom
<1> QED
  BY <1>2, <1>3, <1>4, <1>5

\* A row that is used is a row, and exact if the stored one is.
LEMMA UsableFacts ==
  ASSUME NEW n \in Nat, n <= MaxEventIds, NEW E \in Logs(n), NEW row \in Rows, NEW rev, NEW count
  PROVE  /\ UsableRow(row, rev, count) \in RowRecords
         /\ ExactRow(row, E) => BuiltFrom(UsableRow(row, rev, count), E)
<1>1. EmptyRow \in RowRecords /\ BuiltFrom(EmptyRow, E)
  BY ExactFacts
<1>2. row # NoRow => row \in RowRecords
  BY DEF Rows, RowRecords
<1> QED
  BY <1>1, <1>2 DEF UsableRow, ExactRow

\* A row brought forward is a row; from an exact one it is what building it from
\* the log gives.
LEMMA ForwardedFacts ==
  ASSUME NEW n \in Nat, n <= MaxEventIds, NEW E \in Logs(n), NEW row \in Rows
  PROVE  /\ Forwarded(row, E) \in RowRecords
         /\ ExactRow(row, E) => Forwarded(row, E).from = Ids(E) /\ BuiltFrom(Forwarded(row, E), E)
<1> DEFINE base == UsableRow(row, LatestSequence(E), Cardinality(E))
           delta == EventsAfter(E, base.rev)
           out == Forwarded(row, E)
<1>1. LatestSequence(E) \in Nat /\ Cardinality(E) \in Nat /\ Ids(E) \subseteq 1..MaxEventIds
  BY LogFacts
<1>2. base \in RowRecords /\ (ExactRow(row, E) => BuiltFrom(base, E))
  BY UsableFacts
<1> HIDE DEF base
<1>3. base.from \cup Ids(delta) \subseteq 1..MaxEventIds
      /\ (BuiltFrom(base, E) => base.from \cup Ids(delta) = Ids(E))
  BY <1>2, ExactFacts
<1>4. out = IF base.count + Cardinality(delta) # Cardinality(E) THEN RowOf(E)
            ELSE [rev |-> LatestSequence(E), count |-> Cardinality(E),
                  from |-> base.from \cup Ids(delta)]
  BY DEF Forwarded, base
<1>5. /\ out.rev = LatestSequence(E) /\ out \in RowRecords
      /\ out.from \in {Ids(E), base.from \cup Ids(delta)}
  BY <1>1, <1>3, <1>4 DEF RowOf, RowRecords
<1> HIDE DEF out
<1>6. ExactRow(row, E) => out.from = Ids(E)
  BY <1>2, <1>3, <1>5
<1>7. ExactRow(row, E) => BuiltFrom(out, E)
  BY <1>5, <1>6, ExactFacts
<1> QED
  BY <1>5, <1>6, <1>7 DEF out
-----------------------------------------------------------------------------
(* Steps.                                                                  *)

\* Once the log has a higher sequence than any recall has seen, a recall may hold
\* anything.
LEMMA RecallsOutrun ==
  ASSUME ProjectionInv, rollbacks = 0, UNCHANGED recaller,
         LatestSequence(eventLog') \in Nat, LatestSequence(eventLog) \in Nat,
         LatestSequence(eventLog') > LatestSequence(eventLog)
  PROVE  \A r \in Recallers : RecallIsExact(recaller[r])'
<1> TAKE r \in Recallers
<1>1. RecallIsExact(recaller[r]) /\ recaller[r].rev \in Nat /\ recaller'[r] = recaller[r]
  BY DEF ProjectionInv, ProjectionTypes, Recalls
<1>2. recaller[r].at # "idle" => recaller[r].rev <= LatestSequence(eventLog)
  BY <1>1 DEF RecallIsExact
<1>3. recaller[r].at # "idle" => /\ recaller[r].rev <= LatestSequence(eventLog')
                                 /\ recaller[r].rev # LatestSequence(eventLog')
  BY <1>1, <1>2
<1> QED
  BY <1>1, <1>3 DEF RecallIsExact

\* A session's own events in a log that grew.
LEMMA OwnEventsKept ==
  ASSUME NEW n \in Nat, NEW E, NEW F, NEW u,
         \A e \in F : e.seq \in 1..n, GrownFrom(F, E)
  PROVE  GrownFrom(OfSession(F, u), OfSession(E, u))
<1>0. PICK own : own = OfSession(E, u)
  OBVIOUS
<1>1. own \subseteq E /\ E \subseteq F /\ \A e \in own : e \in E
  BY <1>0 DEF OfSession, GrownFrom
<1>2. (\A e \in own : e.seq \in 1..n) /\ (\A e \in E : e.seq \in 1..n)
  BY <1>1
<1>3. /\ LatestSequence(own) \in 0..n
      /\ \A e \in own : e.seq <= LatestSequence(own)
      /\ own = {} => LatestSequence(own) = 0
      /\ own # {} => \E e \in own : e.seq = LatestSequence(own)
  BY <1>2, LatestFacts
<1>4. LatestSequence(E) \in 0..n /\ \A e \in E : e.seq <= LatestSequence(E)
  BY <1>2, LatestFacts
<1>5. LatestSequence(own) <= LatestSequence(E)
  <2>1. CASE own = {}
    BY <1>3, <1>4, <2>1
  <2>2. CASE own # {}
    <3>1. PICK e \in own : e.seq = LatestSequence(own)
      BY <1>3, <2>2
    <3>2. e.seq <= LatestSequence(E)
      BY <1>1, <1>4
    <3> QED
      BY <3>1, <3>2
  <2> QED
    BY <2>1, <2>2
<1>6. \A e \in F : e.seq <= LatestSequence(own) => e.seq <= LatestSequence(E)
  BY <1>3, <1>4, <1>5
<1>7. \A e \in F : e.seq <= LatestSequence(own) => e \in E
  BY <1>6 DEF GrownFrom
<1>8. own = {e \in OfSession(F, u) : e.seq <= LatestSequence(own)}
  BY <1>0, <1>1, <1>3, <1>7 DEF OfSession
<1> QED
  BY <1>0, <1>8 DEF GrownFrom

\* Events are appended, of a listed session or of a fork.
LEMMA AppendKeeps ==
  ASSUME ProjectionInv, NEW s \in LogSessions, NEW n \in Nat \ {0}, MayAppend(n),
         eventLog' = WithAppended(eventLog, s, n), appended' = appended + n,
         UNCHANGED <<ledgerRow, sessionRow, outputCache, listed, recaller, rollbacks>>,
         unpublished' = {} \/ \E f \in LogSessions \ listed : unpublished' = {f}
  PROVE  ProjectionInv'
<1>0. PICK a, E, F : a = appended /\ E = eventLog /\ F = eventLog'
  OBVIOUS
<1>1. /\ a \in Nat /\ a <= MaxEventIds /\ E \in Logs(a) /\ a + n <= MaxEventIds
      /\ F = Extended(a, E, s, n)
  BY <1>0 DEF ProjectionInv, ProjectionTypes, MayAppend, WithAppended, Extended
<1>2. /\ F \in Logs(a + n) /\ a + n \in Nat
      /\ GrownFrom(F, E)
      /\ \E e \in F : e.seq > LatestSequence(E)
  <2>1. s \in LogSessions \cup {MemorySession}
    OBVIOUS
  <2> QED
    BY <1>1, <2>1, AppendedFacts
<1>3. ProjectionTypes'
  BY <1>0, <1>1, <1>2 DEF ProjectionInv, ProjectionTypes
<1>4. /\ \A e \in F : e.seq \in 1..(a + n) /\ e.seq <= LatestSequence(F)
      /\ \A e \in E : e.seq \in 1..(a + n)
      /\ LatestSequence(F) \in Nat /\ LatestSequence(E) \in Nat
  <2>1. /\ \A e \in F : e.seq \in 1..(a + n) /\ e.seq <= LatestSequence(F)
        /\ LatestSequence(F) \in 0..(a + n)
    BY <1>1, <1>2, LogFacts
  <2>2. (\A e \in E : e.seq \in 1..a) /\ LatestSequence(E) \in 0..a
    BY <1>1, LogFacts
  <2> QED
    BY <1>1, <2>1, <2>2
<1>5. LatestSequence(F) > LatestSequence(E)
  BY <1>2, <1>4
<1>6. \A row \in Rows : ExactRow(row, E) => ExactRow(row, F)
  BY <1>2, <1>4, RowKept
<1>7. \A u \in LogSessions, row \in Rows :
        ExactRow(row, OfSession(E, u)) => ExactRow(row, OfSession(F, u))
  <2> TAKE u \in LogSessions
  <2>1. GrownFrom(OfSession(F, u), OfSession(E, u))
    BY <1>2, <1>4, OwnEventsKept
  <2>2. OfSession(E, u) \subseteq E /\ OfSession(F, u) \subseteq F
    BY DEF OfSession
  <2> QED
    BY <1>2, <1>4, <2>1, <2>2, RowKept
<1>8. ASSUME rollbacks' = 0 PROVE RowsAreExact' /\ \A r \in Recallers : RecallIsExact(recaller[r])'
  <2>1. rollbacks = 0 /\ RowsAreExact
    BY <1>8 DEF ProjectionInv
  <2>2. RowsAreExact'
    BY <1>0, <1>6, <1>7, <2>1 DEF RowsAreExact, ProjectionInv, ProjectionTypes
  <2>3. \A r \in Recallers : RecallIsExact(recaller[r])'
    BY <1>0, <1>4, <1>5, <2>1, RecallsOutrun
  <2> QED
    BY <2>2, <2>3
<1> QED
  BY <1>3, <1>8 DEF ProjectionInv

\* Both writers append.
LEMMA WritersKeep ==
  ASSUME ProjectionInv, NEW s \in LogSessions,
         AppendEvent(s) \/ \E f \in LogSessions : PersistForkEvents(s, f)
  PROVE  ProjectionInv'
<1>1. CASE AppendEvent(s)
  BY <1>1, AppendKeeps DEF AppendEvent, ProjectionInv, ProjectionTypes
<1>2. ASSUME NEW f \in LogSessions, PersistForkEvents(s, f) PROVE ProjectionInv'
  <2>0. PICK a, E : a = appended /\ E = eventLog
    OBVIOUS
  <2>1. a \in Nat /\ a <= MaxEventIds /\ E \in Logs(a)
    BY <2>0 DEF ProjectionInv, ProjectionTypes
  <2>2. OfSession(E, s) \in Logs(a)
    BY <2>1, PartOfLog DEF OfSession
  <2>3. Cardinality(OfSession(E, s)) \in Nat
    BY <2>1, <2>2, LogFacts
  <2>4. PICK n \in Nat : n = Cardinality(OfSession(eventLog, s))
    BY <2>0, <2>3
  <2>5. /\ n \in Nat \ {0} /\ MayAppend(n) /\ eventLog' = WithAppended(eventLog, f, n)
        /\ appended' = appended + n /\ f \notin listed /\ unpublished' = {f}
        /\ UNCHANGED <<ledgerRow, sessionRow, outputCache, listed, recaller, rollbacks>>
    BY <1>2, <2>4 DEF PersistForkEvents
  <2> QED
    BY <2>5, AppendKeeps
<1> QED
  BY <1>1, <1>2

\* Rows are brought forward.
LEMMA LoadsKeep ==
  ASSUME ProjectionInv,
         LoadLedger \/ \E s \in LogSessions : LoadSessionModel(s) \/ LoadOutputs(s)
  PROVE  ProjectionInv'
<1>0. PICK a, E : a = appended /\ E = eventLog
  OBVIOUS
<1>1. a \in Nat /\ a <= MaxEventIds /\ E \in Logs(a) /\ \A s : OfSession(E, s) \in Logs(a)
  BY <1>0, PartOfLog DEF ProjectionInv, ProjectionTypes, OfSession
<1>2. \A row \in Rows :
        /\ Forwarded(row, E) \in Rows
        /\ ExactRow(row, E) => ExactRow(Forwarded(row, E), E)
        /\ \A s : /\ Forwarded(row, OfSession(E, s)) \in Rows
                  /\ ExactRow(row, OfSession(E, s)) =>
                       ExactRow(Forwarded(row, OfSession(E, s)), OfSession(E, s))
  <2>1. RowRecords \subseteq Rows
    BY DEF Rows, RowRecords
  <2> QED
    BY <1>1, <2>1, ForwardedFacts DEF ExactRow
<1>3. /\ ledgerRow \in Rows /\ sessionRow \in [LogSessions -> Rows]
      /\ outputCache \in [LogSessions -> Rows]
  BY DEF ProjectionInv, ProjectionTypes
<1>4. ASSUME UNCHANGED <<eventLog, appended, listed, unpublished, recaller, rollbacks>>,
             ledgerRow' \in Rows, sessionRow' \in [LogSessions -> Rows],
             outputCache' \in [LogSessions -> Rows], RowsAreExact => RowsAreExact'
      PROVE  ProjectionInv'
  BY <1>4 DEF ProjectionInv, ProjectionTypes, RecallIsExact
<1>5. CASE LoadLedger
  BY <1>0, <1>2, <1>3, <1>4, <1>5 DEF LoadLedger, RowsAreExact
<1>6. ASSUME NEW s \in LogSessions, LoadSessionModel(s) PROVE ProjectionInv'
  <2>1. /\ UNCHANGED <<eventLog, appended, ledgerRow, outputCache, listed, unpublished,
                       recaller, rollbacks>>
        /\ s \in listed
        /\ sessionRow' = [sessionRow EXCEPT ![s] = Forwarded(sessionRow[s], OfSession(E, s))]
    BY <1>0, <1>6 DEF LoadSessionModel
  <2>2. sessionRow' \in [LogSessions -> Rows]
    BY <1>2, <1>3, <2>1
  <2>3. RowsAreExact => RowsAreExact'
    BY <1>0, <1>2, <1>3, <2>1 DEF RowsAreExact
  <2> QED
    BY <1>3, <1>4, <2>1, <2>2, <2>3
<1>7. ASSUME NEW s \in LogSessions, LoadOutputs(s) PROVE ProjectionInv'
  <2>1. /\ UNCHANGED <<eventLog, appended, ledgerRow, sessionRow, listed, unpublished,
                       recaller, rollbacks>>
        /\ s \in listed
        /\ outputCache' = [outputCache EXCEPT ![s] = Forwarded(outputCache[s], OfSession(E, s))]
    BY <1>0, <1>7 DEF LoadOutputs
  <2>2. outputCache' \in [LogSessions -> Rows]
    BY <1>2, <1>3, <2>1
  <2>3. RowsAreExact => RowsAreExact'
    BY <1>0, <1>2, <1>3, <2>1 DEF RowsAreExact
  <2> QED
    BY <1>3, <1>4, <2>1, <2>2, <2>3
<1> QED
  BY <1>5, <1>6, <1>7


\* A fork is published: it has events and no row.
LEMMA PublishKeeps == ASSUME ProjectionInv, PublishFork PROVE ProjectionInv'
<1>0. PICK f \in LogSessions \ listed : unpublished = {f} /\ listed' = listed \cup {f}
  BY DEF ProjectionInv, ProjectionTypes, PublishFork
<1>1. /\ UNCHANGED <<eventLog, appended, ledgerRow, sessionRow, outputCache, recaller, rollbacks>>
      /\ unpublished' = {}
  BY DEF PublishFork
<1>2. ProjectionTypes'
  BY <1>0, <1>1 DEF ProjectionInv, ProjectionTypes
<1>3. RowsAreExact => RowsAreExact'
  BY <1>0, <1>1 DEF RowsAreExact, ExactRow
<1> QED
  BY <1>1, <1>2, <1>3 DEF ProjectionInv, RecallIsExact

\* A fork is rolled back, now or at the next start.
LEMMA RollbackUnpublishedKeeps ==
  ASSUME ProjectionInv, RollbackUnpublishedFork \/ RestartProcess PROVE ProjectionInv'
<1>0. /\ appended \in Nat /\ appended <= MaxEventIds /\ rollbacks \in Nat
      /\ eventLog \in Logs(appended) /\ ledgerRow \in Rows /\ listed \subseteq LogSessions
      /\ sessionRow \in [LogSessions -> Rows] /\ outputCache \in [LogSessions -> Rows]
      /\ recaller \in [Recallers -> Recalls]
      /\ \A r \in Recallers : recaller[r].at = "delta" => recaller[r].row \in RowRecords
      /\ unpublished = {} \/ \E f \in LogSessions \ listed : unpublished = {f}
  BY DEF ProjectionInv, ProjectionTypes
<1>1. /\ DropUnpublished /\ UNCHANGED <<appended, ledgerRow, listed>> /\ unpublished' = {}
      /\ eventLog' = {e \in eventLog : e.sess \notin unpublished}
      /\ sessionRow' = [s \in LogSessions |-> IF s \in unpublished THEN NoRow ELSE sessionRow[s]]
      /\ rollbacks' = rollbacks + Cardinality(unpublished)
      /\ outputCache' \in {outputCache, [s \in LogSessions |-> NoRow]}
      /\ recaller' \in {recaller, [r \in Recallers |-> IdleRecaller]}
  BY DEF RollbackUnpublishedFork, RestartProcess, DropUnpublished
<1>2. Cardinality(unpublished) \in Nat /\ (Cardinality(unpublished) = 0 => unpublished = {})
  <2>1. CASE unpublished = {}
    BY <2>1, FS_EmptySet
  <2>2. ASSUME NEW f, unpublished = {f} PROVE Cardinality(unpublished) = 1
    <3>1. Cardinality({f}) = 1
      BY FS_Singleton
    <3> QED
      BY <2>2, <3>1, Zenon
  <2>3. CASE \E f \in LogSessions \ listed : unpublished = {f}
    <3>1. Cardinality(unpublished) = 1
      BY <2>2, <2>3
    <3> QED
      BY <3>1
  <2> QED
    BY <1>0, <2>1, <2>3
<1>3. IdleRecaller \in Recalls /\ IdleRecaller.at = "idle" /\ NoRow \in Rows
  BY DEF IdleRecaller, Recalls, Rows
<1>4. /\ recaller' \in [Recallers -> Recalls]
      /\ \A r \in Recallers : recaller'[r] = recaller[r] \/ recaller'[r] = IdleRecaller
  BY <1>0, <1>1, <1>3
<1>5. \A r \in Recallers : recaller'[r].at = "delta" => recaller'[r].row \in RowRecords
  BY <1>0, <1>3, <1>4
<1>6. eventLog' \in Logs(appended) /\ rollbacks' \in Nat
  BY <1>0, <1>1, <1>2 DEF Logs
<1>7. /\ sessionRow' \in [LogSessions -> Rows] /\ outputCache' \in [LogSessions -> Rows]
  BY <1>0, <1>1, <1>3
<1>8. ProjectionTypes'
  BY <1>0, <1>1, <1>4, <1>5, <1>6, <1>7 DEF ProjectionTypes
<1>9. ASSUME rollbacks' = 0 PROVE RowsAreExact' /\ \A r \in Recallers : RecallIsExact(recaller[r])'
  <2>1. rollbacks = 0 /\ unpublished = {}
    BY <1>0, <1>1, <1>2, <1>9
  <2>2. /\ eventLog' = eventLog /\ sessionRow' = sessionRow /\ listed' = listed
        /\ ledgerRow' = ledgerRow
        /\ \A s \in LogSessions : outputCache'[s] = outputCache[s] \/ outputCache'[s] = NoRow
    BY <1>0, <1>1, <2>1
  <2>3. RowsAreExact /\ \A r \in Recallers : RecallIsExact(recaller[r])
    BY <2>1 DEF ProjectionInv
  <2>4. RowsAreExact'
    BY <2>2, <2>3 DEF RowsAreExact, ExactRow
  <2>5. \A r \in Recallers : RecallIsExact(recaller[r])'
    BY <1>3, <1>4, <2>2, <2>3 DEF RecallIsExact
  <2> QED
    BY <2>4, <2>5
<1> QED
  BY <1>8, <1>9 DEF ProjectionInv

\* The memory event keeps the highest sequence of the project above what the
\* session's events had.
LEMMA CleanDeletedKeeps ==
  ASSUME ProjectionInv, NEW s \in LogSessions, CleanDeletedSession(s) PROVE ProjectionInv'
<1>0. PICK a, E, F, K : /\ a = appended /\ E = eventLog
                        /\ F = Extended(a, E, MemorySession, 1) /\ K = {e \in F : e.sess # s}
  OBVIOUS
<1>1. /\ a \in Nat /\ a <= MaxEventIds /\ E \in Logs(a) /\ a + 1 <= MaxEventIds /\ s \in listed
      /\ eventLog' = K /\ appended' = a + 1 /\ listed' = listed \ {s}
      /\ ledgerRow' = Forwarded(NoRow, K)
      /\ sessionRow' = [sessionRow EXCEPT ![s] = NoRow]
      /\ outputCache' = [outputCache EXCEPT ![s] = NoRow]
      /\ UNCHANGED <<unpublished, recaller, rollbacks>>
  BY <1>0 DEF ProjectionInv, ProjectionTypes, CleanDeletedSession, MayAppend, WithAppended, Extended
<1>2. /\ F \in Logs(a + 1) /\ GrownFrom(F, E)
      /\ \A e \in F : e.seq > LatestSequence(E) => e.sess = MemorySession
      /\ \E e \in F : e.seq > LatestSequence(E)
  <2>1. PICK m \in LogSessions \cup {MemorySession}, n \in Nat \ {0} : m = MemorySession /\ n = 1
    OBVIOUS
  <2>2. F = Extended(a, E, m, n)
    BY <1>0, <2>1
  <2>3. /\ F \in Logs(a + n) /\ GrownFrom(F, E)
        /\ \A e \in F : e.seq > LatestSequence(E) => e.sess = m
        /\ \E e \in F : e.seq > LatestSequence(E)
    BY <1>1, <2>2, AppendedFacts
  <2> QED
    BY <2>1, <2>3
<1>3. K \in Logs(a + 1) /\ a + 1 \in Nat
  BY <1>0, <1>1, <1>2 DEF Logs
<1>4. /\ \A e \in K : e.seq \in 1..(a + 1) /\ e.seq <= LatestSequence(K)
      /\ LatestSequence(K) \in 0..(a + 1)
  BY <1>1, <1>3, LogFacts
<1>5. LatestSequence(E) \in 0..a
  BY <1>1, LogFacts
<1>6. LatestSequence(K) > LatestSequence(E)
  <2>1. PICK e \in F : e.seq > LatestSequence(E) /\ e.sess = MemorySession
    BY <1>2
  <2>2. e \in K
    BY <1>0, <2>1, ProjectionAssumption
  <2>3. e.seq \in Nat /\ e.seq <= LatestSequence(K)
    BY <1>4, <2>2
  <2> QED
    BY <1>4, <1>5, <2>1, <2>3
<1>7. NoRow \in Rows /\ Forwarded(NoRow, K) \in Rows /\ ExactRow(Forwarded(NoRow, K), K)
  <2>1. NoRow \in Rows /\ ExactRow(NoRow, K) /\ RowRecords \subseteq Rows
    BY DEF Rows, RowRecords, ExactRow
  <2> QED
    BY <1>1, <1>3, <2>1, ForwardedFacts DEF ExactRow
<1>8. /\ sessionRow' \in [LogSessions -> Rows] /\ outputCache' \in [LogSessions -> Rows]
      /\ unpublished' = {} \/ \E f \in LogSessions \ listed' : unpublished' = {f}
  BY <1>1, <1>7 DEF ProjectionInv, ProjectionTypes
<1>9. ProjectionTypes'
  BY <1>1, <1>3, <1>7, <1>8 DEF ProjectionInv, ProjectionTypes
<1>10. \A u \in LogSessions : u # s => OfSession(K, u) = OfSession(E, u)
  <2> SUFFICES ASSUME NEW u \in LogSessions, u # s PROVE OfSession(K, u) = OfSession(E, u)
    OBVIOUS
  <2>1. \A e \in F : e.seq \in Nat
    BY <1>2 DEF Logs, Entries
  <2>2. \A e \in F : e.sess = u => e.seq <= LatestSequence(E)
    BY <1>2, <1>5, <2>1, ProjectionAssumption
  <2>3. \A e \in F : e.sess = u => e \in E
    BY <1>2, <2>2 DEF GrownFrom
  <2>4. E \subseteq F
    BY <1>2 DEF GrownFrom
  <2> QED
    BY <1>0, <2>3, <2>4 DEF OfSession
<1>11. ASSUME rollbacks' = 0 PROVE RowsAreExact' /\ \A r \in Recallers : RecallIsExact(recaller[r])'
  <2>1. rollbacks = 0 /\ RowsAreExact
    BY <1>1, <1>11 DEF ProjectionInv
  <2>2. RowsAreExact'
    <3>1. \A u \in LogSessions : u # s =>
            /\ sessionRow'[u] = sessionRow[u] /\ outputCache'[u] = outputCache[u]
            /\ u \in listed' <=> u \in listed
      BY <1>1 DEF ProjectionInv, ProjectionTypes
    <3>2. sessionRow'[s] = NoRow /\ outputCache'[s] = NoRow /\ s \notin listed'
      BY <1>1 DEF ProjectionInv, ProjectionTypes
    <3>3. ExactRow(ledgerRow, eventLog)'
      BY <1>1, <1>7
    <3>4. ASSUME NEW u \in LogSessions
          PROVE  IF u \in listed' THEN /\ ExactRow(sessionRow'[u], OfSession(K, u))
                                       /\ ExactRow(outputCache'[u], OfSession(K, u))
                 ELSE sessionRow'[u] = NoRow /\ outputCache'[u] = NoRow
      BY <1>0, <1>10, <2>1, <3>1, <3>2 DEF RowsAreExact
    <3> QED
      BY <1>1, <3>3, <3>4 DEF RowsAreExact
  <2>3. \A r \in Recallers : RecallIsExact(recaller[r])'
    BY <1>0, <1>1, <1>4, <1>5, <1>6, <2>1, RecallsOutrun
  <2> QED
    BY <2>2, <2>3
<1> QED
  BY <1>9, <1>11 DEF ProjectionInv


\* The reads of a recall, and its write.
LEMMA RecallsKeep ==
  ASSUME ProjectionInv, NEW r \in Recallers,
         \/ RecallRevision(r) \/ RecallRow(r) \/ RecallDelta(r) \/ RecallAll(r)
         \/ PersistIfCurrent(r)
  PROVE  ProjectionInv'
<1>0. PICK a, E, row, c : /\ a = appended /\ E = eventLog /\ row = ledgerRow /\ c = recaller[r]
  OBVIOUS
<1>1. /\ a \in Nat /\ a <= MaxEventIds /\ E \in Logs(a) /\ row \in Rows
      /\ c \in Recalls /\ recaller \in [Recallers -> Recalls]
      /\ c.at = "delta" => c.row \in RowRecords
  BY <1>0 DEF ProjectionInv, ProjectionTypes
<1>2. /\ LatestSequence(E) \in Nat /\ Cardinality(E) \in Nat /\ Ids(E) \subseteq 1..MaxEventIds
  BY <1>1, LogFacts
<1>3. /\ UNCHANGED <<eventLog, appended, sessionRow, outputCache, listed, unpublished, rollbacks>>
      /\ c.at # "built" => UNCHANGED ledgerRow
  BY <1>0 DEF RecallRevision, RecallRow, RecallDelta, RecallAll, PersistIfCurrent
<1>4. ASSUME NEW d \in Recalls, recaller' = [recaller EXCEPT ![r] = d],
             d.at = "delta" => d.row \in RowRecords, ledgerRow' \in Rows,
             rollbacks = 0 => RecallIsExact(d) /\ ExactRow(ledgerRow', E)
      PROVE  ProjectionInv'
  <2>1. /\ recaller' \in [Recallers -> Recalls]
        /\ \A u \in Recallers : recaller'[u] = IF u = r THEN d ELSE recaller[u]
    BY <1>1, <1>4
  <2>2. \A u \in Recallers : recaller'[u].at = "delta" => recaller'[u].row \in RowRecords
    BY <1>4, <2>1 DEF ProjectionInv, ProjectionTypes
  <2>3. ProjectionTypes'
    BY <1>3, <1>4, <2>1, <2>2 DEF ProjectionInv, ProjectionTypes
  <2>4. ASSUME rollbacks' = 0
        PROVE  RowsAreExact' /\ \A u \in Recallers : RecallIsExact(recaller[u])'
    <3>1. /\ RowsAreExact /\ RecallIsExact(d) /\ ExactRow(ledgerRow', E)
          /\ \A u \in Recallers : RecallIsExact(recaller[u])
      BY <1>3, <1>4, <2>4 DEF ProjectionInv
    <3>2. RowsAreExact'
      BY <1>0, <1>3, <3>1 DEF RowsAreExact
    <3>3. \A u \in Recallers : RecallIsExact(recaller[u])'
      BY <1>3, <2>1, <3>1 DEF RecallIsExact
    <3> QED
      BY <3>2, <3>3
  <2> QED
    BY <2>3, <2>4 DEF ProjectionInv
<1>5. rollbacks = 0 => RecallIsExact(c) /\ ExactRow(row, E)
  BY <1>0 DEF ProjectionInv, RowsAreExact
<1>6. IdleRecaller \in Recalls /\ IdleRecaller.at = "idle" /\ RecallIsExact(IdleRecaller)
  BY DEF IdleRecaller, Recalls, Rows, RecallIsExact
<1>7. CASE RecallRevision(r)
  <2> DEFINE d == [IdleRecaller EXCEPT !.at = "row", !.rev = LatestSequence(E),
                                       !.count = Cardinality(E)]
  <2>1. d \in Recalls /\ d.at = "row" /\ d.rev = LatestSequence(E)
    BY <1>2 DEF IdleRecaller, Recalls, Rows
  <2>2. recaller' = [recaller EXCEPT ![r] = d] /\ c.at = "idle"
    BY <1>0, <1>7 DEF RecallRevision
  <2> HIDE DEF d
  <2>3. RecallIsExact(d)
    BY <1>0, <1>2, <2>1 DEF RecallIsExact
  <2>4. ledgerRow' = row
    BY <1>0, <1>3, <2>2
  <2> QED
    BY <1>1, <1>4, <1>5, <2>1, <2>2, <2>3, <2>4
<1>8. CASE RecallRow(r)
  <2> DEFINE use == UsableRow(row, c.rev, c.count)
             d == [c EXCEPT !.at = "delta", !.row = use]
  <2>1. use \in RowRecords /\ (ExactRow(row, E) => BuiltFrom(use, E)) /\ RowRecords \subseteq Rows
    BY <1>1, UsableFacts DEF RowRecords, Rows
  <2>2. recaller' = [recaller EXCEPT ![r] = d] /\ c.at = "row"
    BY <1>0, <1>1, <1>8 DEF RecallRow
  <2> HIDE DEF use
  <2>3. d \in Recalls /\ d.at = "delta" /\ d.rev = c.rev /\ d.row = use
    BY <1>1, <2>1 DEF Recalls
  <2> HIDE DEF d
  <2>4. rollbacks = 0 => RecallIsExact(d)
    BY <1>0, <1>5, <2>1, <2>2, <2>3 DEF RecallIsExact
  <2>5. ledgerRow' = row
    BY <1>0, <1>3, <2>2
  <2> QED
    BY <1>1, <1>4, <1>5, <2>1, <2>2, <2>3, <2>4, <2>5
<1>9. CASE RecallDelta(r)
  <2> DEFINE all == c.row.from \cup Ids(EventsAfter(E, c.row.rev))
  <2>0. c.at = "delta" /\ c.row \in RowRecords
    BY <1>0, <1>1, <1>9 DEF RecallDelta
  <2>1. all \subseteq 1..MaxEventIds /\ (BuiltFrom(c.row, E) => all = Ids(E))
    BY <1>1, <2>0, ExactFacts
  <2>2. PICK at \in {"built", "all"} :
          recaller' = [recaller EXCEPT ![r] = [c EXCEPT !.at = at, !.from = all]]
    BY <1>0, <1>1, <1>9 DEF RecallDelta
  <2> HIDE DEF all
  <2> DEFINE d == [c EXCEPT !.at = at, !.from = all]
  <2>3. d \in Recalls /\ d.at = at /\ d.rev = c.rev /\ d.from = all /\ d.at # "delta"
    BY <1>1, <2>1, <2>2 DEF Recalls
  <2>4. recaller' = [recaller EXCEPT ![r] = d]
    BY <2>2
  <2> HIDE DEF d
  <2>5. rollbacks = 0 => RecallIsExact(d)
    BY <1>0, <1>5, <2>0, <2>1, <2>3 DEF RecallIsExact
  <2>6. ledgerRow' = row
    BY <1>0, <1>3, <2>0
  <2> QED
    BY <1>1, <1>4, <1>5, <2>3, <2>4, <2>5, <2>6
<1>10. CASE RecallAll(r)
  <2> DEFINE d == [c EXCEPT !.at = "built", !.from = Ids(E)]
  <2>1. d \in Recalls /\ d.at = "built" /\ d.rev = c.rev /\ d.from = Ids(E)
    BY <1>1, <1>2 DEF Recalls
  <2>2. recaller' = [recaller EXCEPT ![r] = d] /\ c.at = "all"
    BY <1>0, <1>1, <1>10 DEF RecallAll
  <2> HIDE DEF d
  <2>3. rollbacks = 0 => RecallIsExact(d)
    BY <1>0, <1>5, <2>1, <2>2 DEF RecallIsExact
  <2>4. ledgerRow' = row
    BY <1>0, <1>3, <2>2
  <2> QED
    BY <1>1, <1>4, <1>5, <2>1, <2>2, <2>3, <2>4
<1>11. CASE PersistIfCurrent(r)
  <2> DEFINE new == [rev |-> c.rev, count |-> c.count, from |-> c.from]
  <2>1. /\ c.at = "built" /\ recaller' = [recaller EXCEPT ![r] = IdleRecaller]
        /\ ledgerRow' = row \/ (c.rev = LatestSequence(E) /\ ledgerRow' = new)
    BY <1>0, <1>11 DEF PersistIfCurrent, StillCurrent
  <2>2. new \in Rows /\ new.rev = c.rev /\ new.from = c.from
    BY <1>1 DEF Recalls, Rows
  <2> HIDE DEF new
  <2>3. rollbacks = 0 /\ c.rev = LatestSequence(E) => ExactRow(new, E)
    <3>1. rollbacks = 0 /\ c.rev = LatestSequence(E) => c.from = Ids(E)
      BY <1>0, <1>5, <2>1 DEF RecallIsExact
    <3> QED
      BY <1>1, <2>2, <3>1, ExactFacts DEF ExactRow
  <2>4. ledgerRow' \in Rows /\ (rollbacks = 0 => ExactRow(ledgerRow', E))
    BY <1>1, <1>5, <2>1, <2>2, <2>3
  <2> QED
    BY <1>4, <1>6, <2>1, <2>4
<1> QED
  BY <1>7, <1>8, <1>9, <1>10, <1>11

\* At first the log is empty and there is no row.
LEMMA ProjectionInitInv == ProjectionInit => ProjectionInv
<1> SUFFICES ASSUME ProjectionInit PROVE ProjectionInv
  OBVIOUS
<1>1. {} \in Logs(0) /\ NoRow \in Rows /\ IdleRecaller \in Recalls /\ IdleRecaller.at = "idle"
  BY DEF Logs, Rows, IdleRecaller, Recalls
<1>2. /\ eventLog = {} /\ appended = 0 /\ rollbacks = 0 /\ ledgerRow = NoRow /\ unpublished = {}
      /\ sessionRow = [s \in LogSessions |-> NoRow] /\ outputCache = [s \in LogSessions |-> NoRow]
      /\ recaller = [r \in Recallers |-> IdleRecaller] /\ listed \subseteq LogSessions
  BY DEF ProjectionInit
<1>3. ProjectionTypes
  BY <1>1, <1>2, ProjectionAssumption DEF ProjectionTypes
<1>4. RowsAreExact /\ \A r \in Recallers : RecallIsExact(recaller[r])
  BY <1>1, <1>2 DEF RowsAreExact, RecallIsExact, ExactRow
<1> QED
  BY <1>3, <1>4 DEF ProjectionInv

\* Every step keeps the invariant.
LEMMA ProjectionStep == ProjectionInv /\ [ProjectionNext]_projectionVars => ProjectionInv'
<1> SUFFICES ASSUME ProjectionInv, [ProjectionNext]_projectionVars PROVE ProjectionInv'
  OBVIOUS
<1>1. CASE UNCHANGED projectionVars
  BY <1>1 DEF projectionVars, ProjectionInv, ProjectionTypes, RowsAreExact, RecallIsExact
<1>2. ASSUME NEW s \in LogSessions,
             \/ AppendEvent(s) \/ LoadSessionModel(s) \/ LoadOutputs(s)
             \/ CleanDeletedSession(s)
             \/ \E f \in LogSessions : PersistForkEvents(s, f)
      PROVE  ProjectionInv'
  BY <1>2, WritersKeep, LoadsKeep, CleanDeletedKeeps
<1>3. CASE LoadLedger \/ PublishFork \/ RollbackUnpublishedFork \/ RestartProcess
  BY <1>3, LoadsKeep, PublishKeeps, RollbackUnpublishedKeeps
<1>4. ASSUME NEW r \in Recallers,
             \/ RecallRevision(r) \/ RecallRow(r) \/ RecallDelta(r) \/ RecallAll(r)
             \/ PersistIfCurrent(r)
      PROVE  ProjectionInv'
  BY <1>4, RecallsKeep
<1> QED
  BY <1>1, <1>2, <1>3, <1>4 DEF ProjectionNext

\* ProjectionInv is inductive: rows built, brought forward, stored late or
\* dropped all keep to it (read_models and memory recall of agent-storage).
THEOREM ProjectionInvariant == ProjectionSpec => []ProjectionInv
  BY ProjectionInitInv, ProjectionStep, PTL DEF ProjectionSpec

\* Bringing a stored row forward gives what building it from the log gives, as
\* long as no fork was rolled back: a label of a count and a sequence is enough,
\* because every deletion leaves a higher sequence behind and every late write is
\* checked (persist_project_memory_snapshot_if_current,
\* cleanup_deleted_session_storage); and sequences stay unique throughout.
THEOREM RowsAlwaysAgree == ProjectionSpec => []RowsAgreeWithTheLog
<1>1. ProjectionInv => RowsAgreeWithTheLog
  <2> SUFFICES ASSUME ProjectionInv PROVE RowsAgreeWithTheLog
    OBVIOUS
  <2>0. PICK a, E : a = appended /\ E = eventLog
    OBVIOUS
  <2>1. a \in Nat /\ a <= MaxEventIds /\ E \in Logs(a) /\ \A s : OfSession(E, s) \in Logs(a)
    BY <2>0, PartOfLog DEF ProjectionInv, ProjectionTypes, OfSession
  <2>2. ProjectionTypeOK
    BY <2>0, <2>1 DEF ProjectionInv, ProjectionTypes, ProjectionTypeOK, Logs, Entries
  <2>3. \A row \in Rows :
          /\ ExactRow(row, E) => Forwarded(row, E).from = Ids(E)
          /\ \A s : ExactRow(row, OfSession(E, s)) =>
                      Forwarded(row, OfSession(E, s)).from = Ids(OfSession(E, s))
    BY <2>1, ForwardedFacts
  <2>4. rollbacks = 0 => RowsAgree
    BY <2>0, <2>3 DEF ProjectionInv, ProjectionTypes, RowsAreExact, RowsAgree
  <2> QED
    BY <2>2, <2>4 DEF RowsAgreeWithTheLog
<1> QED
  BY <1>1, ProjectionInvariant, PTL

(***************************************************************************)
(* The message queue of a session.                                         *)
(***************************************************************************)

\* A run is continued under the queue id of the session's latest run start or
\* under none, so a retry or a resume never revives an older message's id.
IdsAgree ==
  /\ status.queue \in {latest, NoMessage}
  /\ run.queue \in {latest, NoMessage}
  /\ suspended.queue \in {latest, NoMessage}

\* Only an accepted message is queued or delivered; a new one enters the queue
\* as it was typed.
OnlyAccepted ==
  /\ \A m \in queued \cup delivered : age[m] > 0
  /\ \A m \in Messages : age[m] = 0 => payload[m] = typed[m]

\* From its "start" event to its restore check a dispatcher has an accepted
\* message that is out of the queue, in the text the user last saved, and
\* that the latest run start names exactly while the run is its own.
InHand(d) ==
  LET t == dispatch[d] IN
  t.at \in {"taken", "running", "returning"} =>
    /\ t.msg \in Messages
    /\ age[t.msg] > 0
    /\ t.msg \notin queued
    /\ t.text = typed[t.msg]
    /\ t.at = "taken" => latest # t.msg
    /\ t.at = "running" => latest = t.msg
HandsAreSound == \A d \in Dispatchers : InHand(d)

\* The queue holds the saved text, and never the message of the latest run.
QueueHoldsSaved == \A m \in queued : payload[m] = typed[m] /\ latest # m

\* The message of the latest run was delivered to it as it was saved.
LatestGotSaved ==
  latest # NoMessage => latest \in delivered /\ sent[latest] = typed[latest]

\* Every accepted message is in the queue, with a dispatch or a run, or gone.
Accounted ==
  \A m \in Messages :
    age[m] > 0 => m \in queued \cup delivered \cup erased \cup lost \/ Held(m)

Copies == OnlyAccepted /\ HandsAreSound /\ QueueHoldsSaved /\ LatestGotSaved

Account == Accounted /\ DeliveredAtMostOnce /\ EditsReachTheRun

Exclusion == OneDispatchAtATime /\ DispatchWaitsForItsRun /\ DeletedSessionIsQuiet

QueueInv ==
  /\ TypeOK
  /\ Exclusion
  /\ IdsAgree
  /\ Copies
  /\ Account
-----------------------------------------------------------------------------
\* The number of accepted messages, which orders the next one, is a number.
LEMMA AcceptedIsFinite ==
  Cardinality({m \in Messages : age[m] > 0}) \in Nat
<1>1. {m \in Messages : age[m] > 0} \subseteq Messages
  OBVIOUS
<1>2. IsFiniteSet({m \in Messages : age[m] > 0})
  BY <1>1, MessagesAssumption, FS_Subset
<1> QED
  BY <1>2, FS_CardinalityType

\* A dispatcher that goes on to its next step keeps its message, and leaves
\* the other dispatchers where they are.
LEMMA AtFacts ==
  ASSUME dispatch \in [Dispatchers -> Hands], NEW d \in Dispatchers, NEW pc \in Places
  PROVE  /\ At(d, pc) \in [Dispatchers -> Hands]
         /\ At(d, pc)[d].at = pc
         /\ At(d, pc)[d].msg = dispatch[d].msg
         /\ At(d, pc)[d].mode = dispatch[d].mode
         /\ At(d, pc)[d].text = dispatch[d].text
         /\ \A e \in Dispatchers \ {d} : At(d, pc)[e] = dispatch[e]
<1> DEFINE moved == [dispatch[d] EXCEPT !.at = pc]
<1>1. /\ moved \in Hands
      /\ moved.at = pc /\ moved.msg = dispatch[d].msg
      /\ moved.mode = dispatch[d].mode /\ moved.text = dispatch[d].text
  BY DEF Hands
<1>2. At(d, pc) = [dispatch EXCEPT ![d] = moved]
  BY DEF At
<1> HIDE DEF moved
<1> QED
  BY <1>1, <1>2

\* The records that handlers write are well formed.
LEMMA RecordFacts ==
  /\ NoRun \in Runs /\ NoRun.owner = "nobody" /\ NoRun.queue = NoMessage
  /\ NoSuspended \in Suspensions /\ ~NoSuspended.kept
  /\ NoSuspended.queue = NoMessage
  /\ Ended \in Statuses /\ Ended.queue = NoMessage
  /\ Idle \in Hands /\ Idle.at = "idle"
  BY BoundsAssumption
  DEF NoRun, Runs, Owners, MaybeMessage, NoSuspended, Suspensions, Ended, Status,
      Statuses, Idle, Hands, Places, Revisions

\* The statuses of a session.
LEMMA StatusFacts ==
  ASSUME NEW kind \in {"none", "running", "waiting", "paused", "ended"},
         NEW m \in MaybeMessage
  PROVE  Status(kind, m) \in Statuses /\ Status(kind, m).queue = m
  BY DEF Status, Statuses

\* A run that starts.
LEMMA NewRunFacts ==
  ASSUME NEW o \in Owners, NEW m \in MaybeMessage, NEW pending \in SUBSET Messages
  PROVE  /\ NewRun(o, m, pending) \in Runs
         /\ NewRun(o, m, pending).owner = o
         /\ NewRun(o, m, pending).queue = m
  BY DEF NewRun, Runs

\* What becomes of a registered run: one field changes, the owner and the
\* queue id stay.
LEMMA RunFieldFacts ==
  ASSUME run \in Runs
  PROVE  /\ run.owner \in Owners /\ run.queue \in MaybeMessage
         /\ run.pending \in SUBSET Messages
         /\ \A s \in {"no", "budget", "cancelled", "terminal", "parked"} :
              LET r == [run EXCEPT !.stop = s] IN
              r \in Runs /\ r.owner = run.owner /\ r.queue = run.queue
         /\ \A b \in BOOLEAN :
              LET r == [run EXCEPT !.resuming = b] IN
              r \in Runs /\ r.owner = run.owner /\ r.queue = run.queue
         /\ \A pending \in SUBSET Messages :
              LET r == [run EXCEPT !.pending = pending] IN
              r \in Runs /\ r.owner = run.owner /\ r.queue = run.queue
  BY DEF Runs

\* Every handler keeps every variable in its range; a start relies on the
\* dispatcher having a message.
LEMMA TypeStep == TypeOK /\ HandsAreSound /\ [Next]_vars => TypeOK'
<1> SUFFICES ASSUME TypeOK, HandsAreSound, [Next]_vars PROVE TypeOK'
  OBVIOUS
<1> USE DEF TypeOK, queueVars, historyVars
<1>1. ASSUME NEW m \in Messages, Enqueue(m) PROVE TypeOK'
  BY <1>1, AcceptedIsFinite DEF Enqueue
<1>2. ASSUME NEW m \in Messages, EditQueued(m) PROVE TypeOK'
  BY <1>2, BoundsAssumption DEF EditQueued, Revisions
<1>3. ASSUME NEW m \in Messages, DeleteQueued(m) PROVE TypeOK'
  BY <1>3 DEF DeleteQueued
<1>4. ASSUME NEW m \in Messages, SteerQueued(m) PROVE TypeOK'
  BY <1>4, RunFieldFacts DEF SteerQueued
<1>5. ASSUME NEW d \in Dispatchers, BeginQueueDispatch(d) PROVE TypeOK'
  BY <1>5, AtFacts DEF BeginQueueDispatch, Places
<1>6. ASSUME NEW d \in Dispatchers, TakeHead(d) PROVE TypeOK'
  <2>1. CASE UNCHANGED queued /\ dispatch' = At(d, "leaving")
    BY <1>6, <2>1, AtFacts DEF TakeHead, Places
  <2>2. ASSUME NEW m \in Heads, queued' = queued \ {m},
               dispatch' = [dispatch EXCEPT ![d] =
                 [at |-> "taken", msg |-> m, mode |-> mode[m], text |-> payload[m]]]
        PROVE  TypeOK'
    <3>1. [at |-> "taken", msg |-> m, mode |-> mode[m], text |-> payload[m]] \in Hands
      BY DEF Hands, Places, MaybeMessage, Heads
    <3> QED
      BY <1>6, <2>2, <3>1 DEF TakeHead
  <2> QED
    BY <1>6, <2>1, <2>2 DEF TakeHead
<1>7. ASSUME NEW d \in Dispatchers, StartTakenMessage(d) PROVE TypeOK'
  <2>1. dispatch[d].msg \in Messages /\ dispatch[d].text \in Revisions
    BY <1>7 DEF StartTakenMessage, HandsAreSound, InHand, Hands
  <2>2. /\ NewRun(d, dispatch[d].msg, {}) \in Runs
        /\ Status("running", dispatch[d].msg) \in Statuses
        /\ NoSuspended \in Suspensions
        /\ At(d, "running") \in [Dispatchers -> Hands]
    BY <2>1, AtFacts, NewRunFacts, StatusFacts, RecordFacts DEF Places, MaybeMessage, Owners
  <2> QED
    BY <1>7, <2>1, <2>2 DEF StartTakenMessage, MaybeMessage
<1>8. ASSUME NEW d \in Dispatchers, RefuseTakenMessage(d) PROVE TypeOK'
  BY <1>8, AtFacts, RecordFacts DEF RefuseTakenMessage, StartFails, Places
<1>9. ASSUME NEW d \in Dispatchers, RestoreUnlessStarted(d) PROVE TypeOK'
  <2>1. /\ dispatch[d].msg \in Messages /\ dispatch[d].mode \in {"queue", "steer"}
        /\ dispatch[d].text \in Revisions
    BY <1>9 DEF RestoreUnlessStarted, HandsAreSound, InHand, Hands
  <2>2. At(d, "leaving") \in [Dispatchers -> Hands]
    BY AtFacts DEF Places
  <2> QED
    BY <1>9, <2>1, <2>2 DEF RestoreUnlessStarted
<1>10. ASSUME NEW d \in Dispatchers, ReleaseLease(d) PROVE TypeOK'
  BY <1>10, RecordFacts DEF ReleaseLease
<1>11. CASE StartPrompt
  <2>1. /\ NewRun("command", NoMessage, {}) \in Runs
        /\ Status("running", NoMessage) \in Statuses
        /\ NoSuspended \in Suspensions /\ Ended \in Statuses
    BY NewRunFacts, StatusFacts, RecordFacts DEF MaybeMessage, Owners
  <2> QED
    BY <1>11, <2>1 DEF StartPrompt, StartFails, MaybeMessage
<1>12. CASE RetryTask
  <2> DEFINE message == IF status.kind = "paused" THEN status.queue ELSE suspended.queue
  <2>1. message \in MaybeMessage /\ suspended.pending \in SUBSET Messages
    BY DEF Statuses, Suspensions
  <2> HIDE DEF message
  <2>2. /\ NewRun("command", message, suspended.pending) \in Runs
        /\ Status("running", message) \in Statuses
        /\ NoSuspended \in Suspensions /\ Ended \in Statuses
    BY <2>1, NewRunFacts, StatusFacts, RecordFacts DEF Owners
  <2> QED
    BY <1>12, <2>1, <2>2 DEF RetryTask, StartFails, message
<1>13. CASE RegisterResume
  <2>1. run' \in Runs
    BY <1>13 DEF RegisterResume, NewRun, Runs, Owners, Statuses, Suspensions
  <2> QED
    BY <1>13, <2>1 DEF RegisterResume
<1>14. CASE ContinueResumed
  BY <1>14, RunFieldFacts, StatusFacts, RecordFacts DEF ContinueResumed
<1>15. CASE AbandonResume
  BY <1>15, RecordFacts, AtFacts DEF AbandonResume, RunReturns, Places, Statuses
<1>16. CASE StopRun
  BY <1>16, RunFieldFacts DEF StopRun
<1>17. CASE CancelTask
  BY <1>17, RunFieldFacts, RecordFacts DEF CancelTask
<1>18. CASE CompleteRun
  BY <1>18, RunFieldFacts, RecordFacts DEF CompleteRun
<1>19. CASE FinishStoppedRun
  <2>1. KeepRun \in Suspensions /\ Status("paused", run.queue) \in Statuses
    BY RunFieldFacts, StatusFacts DEF KeepRun, Suspensions
  <2>2. dispatch' \in [Dispatchers -> Hands] /\ run' \in Runs
    BY <1>19, AtFacts, RecordFacts DEF FinishStoppedRun, RunReturns, Places
  <2> QED
    BY <1>19, <2>1, <2>2, RecordFacts DEF FinishStoppedRun
<1>20. CASE WaitForPermission
  BY <1>20, RunFieldFacts, StatusFacts DEF WaitForPermission, Park, KeepRun, Suspensions
<1>21. CASE AwaitPlanConfirmation
  BY <1>21, RunFieldFacts, StatusFacts DEF AwaitPlanConfirmation, Park
<1>22. CASE FailRun
  BY <1>22, RecordFacts, AtFacts DEF FailRun, RunReturns, Places
<1>23. CASE ApplySteers
  BY <1>23, RunFieldFacts DEF ApplySteers
<1>24. CASE EvictSuspended
  BY <1>24, RecordFacts DEF EvictSuspended
<1>25. CASE PublishDeletion
  BY <1>25 DEF PublishDeletion
<1>26. CASE ClearSessionRuntime
  BY <1>26, RecordFacts DEF ClearSessionRuntime
<1>27. CASE Crash
  BY <1>27, RecordFacts DEF Crash, Statuses
<1>28. CASE UNCHANGED vars
  BY <1>28 DEF vars
<1> QED
  BY <1>1, <1>2, <1>3, <1>4, <1>5, <1>6, <1>7, <1>8, <1>9, <1>10, <1>11, <1>12, <1>13,
     <1>14, <1>15, <1>16, <1>17, <1>18, <1>19, <1>20, <1>21, <1>22, <1>23, <1>24,
     <1>25, <1>26, <1>27, <1>28
  DEF Next

\* Dispatches exclude each other, wait for their own run, and end before the
\* session can be deleted.
LEMMA ExclusionStep == TypeOK /\ Exclusion /\ [Next]_vars => Exclusion'
<1> SUFFICES ASSUME TypeOK, Exclusion, [Next]_vars PROVE Exclusion'
  OBVIOUS
<1> USE OwnersAssumption DEF TypeOK, Exclusion, OneDispatchAtATime, DispatchWaitsForItsRun,
           DeletedSessionIsQuiet, Active, Owners, queueVars, historyVars
<1>1. ASSUME NEW m \in Messages, Enqueue(m) PROVE Exclusion'
  BY <1>1 DEF Enqueue
<1>2. ASSUME NEW m \in Messages, EditQueued(m) PROVE Exclusion'
  BY <1>2 DEF EditQueued
<1>3. ASSUME NEW m \in Messages, DeleteQueued(m) PROVE Exclusion'
  BY <1>3 DEF DeleteQueued
<1>4. ASSUME NEW m \in Messages, SteerQueued(m) PROVE Exclusion'
  BY <1>4, RunFieldFacts DEF SteerQueued, Accepting
<1>5. ASSUME NEW d \in Dispatchers, BeginQueueDispatch(d) PROVE Exclusion'
  <2>1. dispatch'[d].at = "leased" /\ \A e \in Dispatchers \ {d} : dispatch'[e] = dispatch[e]
    BY <1>5, AtFacts DEF BeginQueueDispatch, Places
  <2> QED
    BY <1>5, <2>1 DEF BeginQueueDispatch
<1>6. ASSUME NEW d \in Dispatchers, TakeHead(d) PROVE Exclusion'
  <2>1. /\ \A e \in Dispatchers \ {d} : dispatch'[e] = dispatch[e]
        /\ dispatch'[d].at \in {"taken", "leaving"}
    BY <1>6, AtFacts DEF TakeHead, Places
  <2>2. queued' \subseteq queued
    BY <1>6 DEF TakeHead
  <2> QED
    BY <1>6, <2>1, <2>2 DEF TakeHead
<1>7. ASSUME NEW d \in Dispatchers, StartTakenMessage(d) PROVE Exclusion'
  <2>1. dispatch'[d].at = "running" /\ \A e \in Dispatchers \ {d} : dispatch'[e] = dispatch[e]
    BY <1>7, AtFacts DEF StartTakenMessage, Places
  <2>2. run'.owner = d
    BY <1>7 DEF StartTakenMessage, NewRun
  <2> QED
    BY <1>7, <2>1, <2>2 DEF StartTakenMessage
<1>8. ASSUME NEW d \in Dispatchers, RefuseTakenMessage(d) PROVE Exclusion'
  <2>1. dispatch'[d].at = "returning" /\ \A e \in Dispatchers \ {d} : dispatch'[e] = dispatch[e]
    BY <1>8, AtFacts DEF RefuseTakenMessage, Places
  <2> QED
    BY <1>8, <2>1, RecordFacts DEF RefuseTakenMessage, StartFails
<1>9. ASSUME NEW d \in Dispatchers, RestoreUnlessStarted(d) PROVE Exclusion'
  <2>1. dispatch'[d].at = "leaving" /\ \A e \in Dispatchers \ {d} : dispatch'[e] = dispatch[e]
    BY <1>9, AtFacts DEF RestoreUnlessStarted, Places
  <2> QED
    BY <1>9, <2>1 DEF RestoreUnlessStarted
<1>10. ASSUME NEW d \in Dispatchers, ReleaseLease(d) PROVE Exclusion'
  BY <1>10, RecordFacts DEF ReleaseLease
<1>11. CASE StartPrompt
  BY <1>11, RecordFacts DEF StartPrompt, StartFails, NewRun
<1>12. CASE RetryTask
  BY <1>12, RecordFacts DEF RetryTask, StartFails, NewRun
<1>13. CASE RegisterResume
  <2>1. run'.owner = "command"
    BY <1>13 DEF RegisterResume, NewRun
  <2> QED
    BY <1>13, <2>1 DEF RegisterResume
<1>14. CASE ContinueResumed
  BY <1>14, RunFieldFacts, RecordFacts DEF ContinueResumed
<1>15. CASE AbandonResume
  <2>1. /\ run'.owner = "nobody"
        /\ \A d \in Dispatchers : dispatch[d].at = "running" => dispatch'[d].at = "returning"
        /\ \A d \in Dispatchers : dispatch[d].at # "running" => dispatch'[d] = dispatch[d]
    BY <1>15, AtFacts, RecordFacts DEF AbandonResume, RunReturns, Places
  <2> QED
    BY <1>15, <2>1 DEF AbandonResume
<1>16. CASE StopRun
  BY <1>16, RunFieldFacts DEF StopRun, Looping
<1>17. CASE CancelTask
  BY <1>17, RunFieldFacts, RecordFacts DEF CancelTask
<1>18. CASE CompleteRun
  BY <1>18, RunFieldFacts DEF CompleteRun, Looping
<1>19. CASE FinishStoppedRun
  <2>1. /\ run'.owner = "nobody"
        /\ \A d \in Dispatchers : dispatch[d].at = "running" => dispatch'[d].at = "returning"
        /\ \A d \in Dispatchers : dispatch[d].at # "running" => dispatch'[d] = dispatch[d]
    BY <1>19, AtFacts, RecordFacts DEF FinishStoppedRun, RunReturns, Places
  <2> QED
    BY <1>19, <2>1 DEF FinishStoppedRun, Looping
<1>20. CASE WaitForPermission
  BY <1>20, RunFieldFacts DEF WaitForPermission, Park, Looping
<1>21. CASE AwaitPlanConfirmation
  BY <1>21, RunFieldFacts DEF AwaitPlanConfirmation, Park, Looping
<1>22. CASE FailRun
  <2>1. /\ run'.owner = "nobody"
        /\ \A d \in Dispatchers : dispatch[d].at = "running" => dispatch'[d].at = "returning"
        /\ \A d \in Dispatchers : dispatch[d].at # "running" => dispatch'[d] = dispatch[d]
    BY <1>22, AtFacts, RecordFacts DEF FailRun, RunReturns, Places
  <2> QED
    BY <1>22, <2>1 DEF FailRun, Looping
<1>23. CASE ApplySteers
  BY <1>23, RunFieldFacts DEF ApplySteers, Looping
<1>24. CASE EvictSuspended
  BY <1>24, RecordFacts DEF EvictSuspended
<1>25. CASE PublishDeletion
  BY <1>25 DEF PublishDeletion
<1>26. CASE ClearSessionRuntime
  BY <1>26, RecordFacts DEF ClearSessionRuntime
<1>27. CASE Crash
  BY <1>27, RecordFacts DEF Crash
<1>28. CASE UNCHANGED vars
  BY <1>28 DEF vars
<1> QED
  BY <1>1, <1>2, <1>3, <1>4, <1>5, <1>6, <1>7, <1>8, <1>9, <1>10, <1>11,
     <1>12, <1>13, <1>14, <1>15, <1>16, <1>17, <1>18, <1>19, <1>20, <1>21,
     <1>22, <1>23, <1>24, <1>25, <1>26, <1>27, <1>28 DEF Next

\* A run goes on under the queue id of the latest run start or under none.
LEMMA IdsStep == TypeOK /\ IdsAgree /\ [Next]_vars => IdsAgree'
<1> SUFFICES ASSUME TypeOK, IdsAgree, [Next]_vars PROVE IdsAgree'
  OBVIOUS
<1> USE DEF TypeOK, IdsAgree, queueVars, historyVars
<1>1. ASSUME NEW m \in Messages, Enqueue(m) PROVE IdsAgree'
  BY <1>1 DEF Enqueue
<1>2. ASSUME NEW m \in Messages, EditQueued(m) PROVE IdsAgree'
  BY <1>2 DEF EditQueued
<1>3. ASSUME NEW m \in Messages, DeleteQueued(m) PROVE IdsAgree'
  BY <1>3 DEF DeleteQueued
<1>4. ASSUME NEW m \in Messages, SteerQueued(m) PROVE IdsAgree'
  BY <1>4, RunFieldFacts DEF SteerQueued
<1>5. ASSUME NEW d \in Dispatchers, BeginQueueDispatch(d) PROVE IdsAgree'
  BY <1>5 DEF BeginQueueDispatch
<1>6. ASSUME NEW d \in Dispatchers, TakeHead(d) PROVE IdsAgree'
  BY <1>6 DEF TakeHead
<1>7. ASSUME NEW d \in Dispatchers, StartTakenMessage(d) PROVE IdsAgree'
  BY <1>7, RecordFacts DEF StartTakenMessage, NewRun, Status
<1>8. ASSUME NEW d \in Dispatchers, RefuseTakenMessage(d) PROVE IdsAgree'
  BY <1>8, RecordFacts DEF RefuseTakenMessage, StartFails
<1>9. ASSUME NEW d \in Dispatchers, RestoreUnlessStarted(d) PROVE IdsAgree'
  BY <1>9 DEF RestoreUnlessStarted
<1>10. ASSUME NEW d \in Dispatchers, ReleaseLease(d) PROVE IdsAgree'
  BY <1>10 DEF ReleaseLease
<1>11. CASE StartPrompt
  BY <1>11, RecordFacts DEF StartPrompt, StartFails, NewRun, Status
<1>12. CASE RetryTask
  BY <1>12, RecordFacts DEF RetryTask, StartFails, NewRun, Status
<1>13. CASE RegisterResume
  <2>1. run'.queue = status.queue
    BY <1>13 DEF RegisterResume, NewRun
  <2> QED
    BY <1>13, <2>1 DEF RegisterResume
<1>14. CASE ContinueResumed
  BY <1>14, RunFieldFacts, RecordFacts DEF ContinueResumed, Status
<1>15. CASE AbandonResume
  <2>1. run'.queue = NoMessage
    BY <1>15, RecordFacts DEF AbandonResume, RunReturns
  <2> QED
    BY <1>15, <2>1, RecordFacts DEF AbandonResume, Statuses
<1>16. CASE StopRun
  BY <1>16, RunFieldFacts DEF StopRun
<1>17. CASE CancelTask
  BY <1>17, RunFieldFacts, RecordFacts DEF CancelTask
<1>18. CASE CompleteRun
  BY <1>18, RunFieldFacts, RecordFacts DEF CompleteRun
<1>19. CASE FinishStoppedRun
  <2>1. run'.queue = NoMessage
    BY <1>19, RecordFacts DEF FinishStoppedRun, RunReturns
  <2> QED
    BY <1>19, <2>1, RecordFacts DEF FinishStoppedRun, KeepRun, Status
<1>20. CASE WaitForPermission
  BY <1>20, RunFieldFacts DEF WaitForPermission, Park, KeepRun, Status
<1>21. CASE AwaitPlanConfirmation
  BY <1>21, RunFieldFacts DEF AwaitPlanConfirmation, Park, Status
<1>22. CASE FailRun
  <2>1. run'.queue = NoMessage
    BY <1>22, RecordFacts DEF FailRun, RunReturns
  <2> QED
    BY <1>22, <2>1, RecordFacts DEF FailRun
<1>23. CASE ApplySteers
  BY <1>23, RunFieldFacts DEF ApplySteers
<1>24. CASE EvictSuspended
  BY <1>24, RecordFacts DEF EvictSuspended
<1>25. CASE PublishDeletion
  BY <1>25 DEF PublishDeletion
<1>26. CASE ClearSessionRuntime
  BY <1>26, RecordFacts DEF ClearSessionRuntime
<1>27. CASE Crash
  BY <1>27, RecordFacts DEF Crash, Statuses
<1>28. CASE UNCHANGED vars
  BY <1>28 DEF vars
<1> QED
  BY <1>1, <1>2, <1>3, <1>4, <1>5, <1>6, <1>7, <1>8, <1>9, <1>10, <1>11,
     <1>12, <1>13, <1>14, <1>15, <1>16, <1>17, <1>18, <1>19, <1>20, <1>21,
     <1>22, <1>23, <1>24, <1>25, <1>26, <1>27, <1>28 DEF Next

\* The copies of a message agree with what the user saved, wherever they are.
LEMMA CopiesStep == TypeOK /\ Exclusion /\ IdsAgree /\ Copies /\ [Next]_vars => Copies'
<1> SUFFICES ASSUME TypeOK, Exclusion, IdsAgree, Copies, [Next]_vars PROVE Copies'
  OBVIOUS
<1> USE DEF TypeOK, Copies, OnlyAccepted, HandsAreSound, InHand, QueueHoldsSaved,
           LatestGotSaved, MaybeMessage, queueVars, historyVars
<1>1. ASSUME NEW m \in Messages, Enqueue(m) PROVE Copies'
  <2>1. age'[m] > 0 /\ \A n \in Messages \ {m} : age'[n] = age[n]
    BY <1>1, AcceptedIsFinite DEF Enqueue
  <2>2. /\ payload[m] = typed[m] /\ latest # m
        /\ \A d \in Dispatchers :
             dispatch[d].at \in {"taken", "running", "returning"} => dispatch[d].msg # m
    BY <1>1, NoMessageAssumption DEF Enqueue
  <2>3. OnlyAccepted' /\ QueueHoldsSaved' /\ LatestGotSaved'
    BY <1>1, <2>1, <2>2 DEF Enqueue
  <2>4. HandsAreSound'
    BY <1>1, <2>1, <2>2 DEF Enqueue
  <2> QED
    BY <2>3, <2>4
<1>2. ASSUME NEW m \in Messages, EditQueued(m) PROVE Copies'
  BY <1>2 DEF EditQueued
<1>3. ASSUME NEW m \in Messages, DeleteQueued(m) PROVE Copies'
  BY <1>3 DEF DeleteQueued
<1>4. ASSUME NEW m \in Messages, SteerQueued(m) PROVE Copies'
  BY <1>4 DEF SteerQueued
<1>5. ASSUME NEW d \in Dispatchers, BeginQueueDispatch(d) PROVE Copies'
  <2>1. /\ dispatch'[d].at = "leased" /\ dispatch'[d].msg = dispatch[d].msg
        /\ dispatch'[d].text = dispatch[d].text
        /\ \A e \in Dispatchers \ {d} : dispatch'[e] = dispatch[e]
    BY <1>5, AtFacts DEF BeginQueueDispatch, Places
  <2> QED
    BY <1>5, <2>1 DEF BeginQueueDispatch
<1>6. ASSUME NEW d \in Dispatchers, TakeHead(d) PROVE Copies'
  <2>1. CASE UNCHANGED queued /\ dispatch' = At(d, "leaving")
    <3>1. /\ dispatch'[d].at = "leaving"
          /\ \A e \in Dispatchers \ {d} : dispatch'[e] = dispatch[e]
      BY <2>1, AtFacts DEF Places
    <3> QED
      BY <1>6, <2>1, <3>1 DEF TakeHead
  <2>2. ASSUME NEW m \in Heads, queued' = queued \ {m},
               dispatch' = [dispatch EXCEPT ![d] =
                 [at |-> "taken", msg |-> m, mode |-> mode[m], text |-> payload[m]]]
        PROVE  Copies'
    <3>1. /\ dispatch'[d].at = "taken" /\ dispatch'[d].msg = m
          /\ dispatch'[d].text = payload[m]
          /\ \A e \in Dispatchers \ {d} : dispatch'[e] = dispatch[e]
      BY <2>2
    <3>2. m \in queued /\ m \in Messages
      BY DEF Heads
    <3> QED
      BY <1>6, <2>2, <3>1, <3>2 DEF TakeHead
  <2> QED
    BY <1>6, <2>1, <2>2 DEF TakeHead
<1>7. ASSUME NEW d \in Dispatchers, StartTakenMessage(d) PROVE Copies'
  <2>1. /\ dispatch'[d].at = "running" /\ dispatch'[d].msg = dispatch[d].msg
        /\ dispatch'[d].text = dispatch[d].text
        /\ \A e \in Dispatchers \ {d} : dispatch'[e] = dispatch[e]
    BY <1>7, AtFacts DEF StartTakenMessage, Places
  <2>2. \A e \in Dispatchers \ {d} : dispatch[e].at = "idle"
    BY <1>7 DEF StartTakenMessage, Exclusion, OneDispatchAtATime
  <2> QED
    BY <1>7, <2>1, <2>2 DEF StartTakenMessage
<1>8. ASSUME NEW d \in Dispatchers, RefuseTakenMessage(d) PROVE Copies'
  <2>1. /\ dispatch'[d].at = "returning" /\ dispatch'[d].msg = dispatch[d].msg
        /\ dispatch'[d].text = dispatch[d].text
        /\ \A e \in Dispatchers \ {d} : dispatch'[e] = dispatch[e]
    BY <1>8, AtFacts DEF RefuseTakenMessage, Places
  <2> QED
    BY <1>8, <2>1 DEF RefuseTakenMessage, StartFails
<1>9. ASSUME NEW d \in Dispatchers, RestoreUnlessStarted(d) PROVE Copies'
  <2>1. /\ dispatch'[d].at = "leaving" /\ dispatch'[d].msg = dispatch[d].msg
        /\ dispatch'[d].text = dispatch[d].text
        /\ \A e \in Dispatchers \ {d} : dispatch'[e] = dispatch[e]
    BY <1>9, AtFacts DEF RestoreUnlessStarted, Places
  <2>2. \A e \in Dispatchers \ {d} : dispatch[e].at = "idle"
    BY <1>9 DEF RestoreUnlessStarted, Exclusion, OneDispatchAtATime
  <2> QED
    BY <1>9, <2>1, <2>2 DEF RestoreUnlessStarted
<1>10. ASSUME NEW d \in Dispatchers, ReleaseLease(d) PROVE Copies'
  BY <1>10, RecordFacts DEF ReleaseLease
<1>11. CASE StartPrompt
  <2>1. run.owner = "nobody" /\ \A d \in Dispatchers : dispatch[d].at # "running"
    BY <1>11, OwnersAssumption DEF StartPrompt, Active, Exclusion, DispatchWaitsForItsRun
  <2> QED
    BY <1>11, <2>1, NoMessageAssumption DEF StartPrompt, StartFails
<1>12. CASE RetryTask
  <2>1. run.owner = "nobody" /\ \A d \in Dispatchers : dispatch[d].at # "running"
    BY <1>12, OwnersAssumption DEF RetryTask, Active, Exclusion, DispatchWaitsForItsRun
  <2>2. latest' \in {latest, NoMessage}
    BY <1>12 DEF RetryTask, StartFails, IdsAgree
  <2> QED
    BY <1>12, <2>1, <2>2, NoMessageAssumption DEF RetryTask
<1>13. CASE RegisterResume
  BY <1>13 DEF RegisterResume
<1>14. CASE ContinueResumed
  BY <1>14 DEF ContinueResumed
<1>15. CASE AbandonResume
  <2>1. \A d \in Dispatchers :
          /\ dispatch[d].at = "running" => dispatch'[d].at = "returning"
          /\ dispatch[d].at # "running" => dispatch'[d].at = dispatch[d].at
          /\ dispatch'[d].msg = dispatch[d].msg /\ dispatch'[d].text = dispatch[d].text
    BY <1>15, AtFacts DEF AbandonResume, RunReturns, Places, Exclusion, DispatchWaitsForItsRun
  <2> QED
    BY <1>15, <2>1 DEF AbandonResume
<1>16. CASE StopRun
  BY <1>16 DEF StopRun
<1>17. CASE CancelTask
  BY <1>17 DEF CancelTask
<1>18. CASE CompleteRun
  BY <1>18 DEF CompleteRun
<1>19. CASE FinishStoppedRun
  <2>1. \A d \in Dispatchers :
          /\ dispatch[d].at = "running" => dispatch'[d].at = "returning"
          /\ dispatch[d].at # "running" => dispatch'[d].at = dispatch[d].at
          /\ dispatch'[d].msg = dispatch[d].msg /\ dispatch'[d].text = dispatch[d].text
    BY <1>19, AtFacts DEF FinishStoppedRun, RunReturns, Places, Exclusion, DispatchWaitsForItsRun
  <2> QED
    BY <1>19, <2>1 DEF FinishStoppedRun
<1>20. CASE WaitForPermission
  BY <1>20 DEF WaitForPermission, Park
<1>21. CASE AwaitPlanConfirmation
  BY <1>21 DEF AwaitPlanConfirmation, Park
<1>22. CASE FailRun
  <2>1. \A d \in Dispatchers :
          /\ dispatch[d].at = "running" => dispatch'[d].at = "returning"
          /\ dispatch[d].at # "running" => dispatch'[d].at = dispatch[d].at
          /\ dispatch'[d].msg = dispatch[d].msg /\ dispatch'[d].text = dispatch[d].text
    BY <1>22, AtFacts DEF FailRun, RunReturns, Places, Exclusion, DispatchWaitsForItsRun
  <2> QED
    BY <1>22, <2>1 DEF FailRun
<1>23. CASE ApplySteers
  BY <1>23 DEF ApplySteers
<1>24. CASE EvictSuspended
  BY <1>24 DEF EvictSuspended
<1>25. CASE PublishDeletion
  BY <1>25 DEF PublishDeletion
<1>26. CASE ClearSessionRuntime
  BY <1>26 DEF ClearSessionRuntime
<1>27. CASE Crash
  BY <1>27, RecordFacts DEF Crash
<1>28. CASE UNCHANGED vars
  BY <1>28 DEF vars
<1> QED
  BY <1>1, <1>2, <1>3, <1>4, <1>5, <1>6, <1>7, <1>8, <1>9, <1>10, <1>11,
     <1>12, <1>13, <1>14, <1>15, <1>16, <1>17, <1>18, <1>19, <1>20, <1>21,
     <1>22, <1>23, <1>24, <1>25, <1>26, <1>27, <1>28 DEF Next

\* No message gets lost or is delivered twice, and a delivered one was sent as
\* it was saved.
LEMMA AccountStep == TypeOK /\ Exclusion /\ Copies /\ Account /\ [Next]_vars => Account'
<1> SUFFICES ASSUME TypeOK, Exclusion, Copies, Account, [Next]_vars PROVE Account'
  OBVIOUS
<1> USE DEF TypeOK, Account, Accounted, DeliveredAtMostOnce, EditsReachTheRun, Held,
           Copies, OnlyAccepted, HandsAreSound, InHand, QueueHoldsSaved, LatestGotSaved,
           MaybeMessage, queueVars, historyVars
<1>1. ASSUME NEW m \in Messages, Enqueue(m) PROVE Account'
  <2>1. age'[m] > 0 /\ \A n \in Messages \ {m} : age'[n] = age[n]
    BY <1>1, AcceptedIsFinite DEF Enqueue
  <2> QED
    BY <1>1, <2>1 DEF Enqueue
<1>2. ASSUME NEW m \in Messages, EditQueued(m) PROVE Account'
  BY <1>2 DEF EditQueued
<1>3. ASSUME NEW m \in Messages, DeleteQueued(m) PROVE Account'
  BY <1>3 DEF DeleteQueued
<1>4. ASSUME NEW m \in Messages, SteerQueued(m) PROVE Account'
  BY <1>4 DEF SteerQueued
<1>5. ASSUME NEW d \in Dispatchers, BeginQueueDispatch(d) PROVE Account'
  <2>1. /\ dispatch'[d].at = "leased" /\ dispatch'[d].msg = dispatch[d].msg
        /\ dispatch'[d].text = dispatch[d].text
        /\ \A e \in Dispatchers \ {d} : dispatch'[e] = dispatch[e]
    BY <1>5, AtFacts DEF BeginQueueDispatch, Places
  <2> QED
    BY <1>5, <2>1 DEF BeginQueueDispatch
<1>6. ASSUME NEW d \in Dispatchers, TakeHead(d) PROVE Account'
  <2>1. CASE UNCHANGED queued /\ dispatch' = At(d, "leaving")
    <3>1. /\ dispatch'[d].at = "leaving"
          /\ \A e \in Dispatchers \ {d} : dispatch'[e] = dispatch[e]
      BY <2>1, AtFacts DEF Places
    <3> QED
      BY <1>6, <2>1, <3>1 DEF TakeHead
  <2>2. ASSUME NEW m \in Heads, queued' = queued \ {m},
               dispatch' = [dispatch EXCEPT ![d] =
                 [at |-> "taken", msg |-> m, mode |-> mode[m], text |-> payload[m]]]
        PROVE  Account'
    <3>1. /\ dispatch'[d].at = "taken" /\ dispatch'[d].msg = m
          /\ dispatch'[d].text = payload[m]
          /\ \A e \in Dispatchers \ {d} : dispatch'[e] = dispatch[e]
      BY <2>2
    <3>2. m \in queued /\ m \in Messages
      BY DEF Heads
    <3> QED
      BY <1>6, <2>2, <3>1, <3>2 DEF TakeHead
  <2> QED
    BY <1>6, <2>1, <2>2 DEF TakeHead
<1>7. ASSUME NEW d \in Dispatchers, StartTakenMessage(d) PROVE Account'
  <2>1. /\ dispatch'[d].at = "running" /\ dispatch'[d].msg = dispatch[d].msg
        /\ dispatch'[d].text = dispatch[d].text
        /\ \A e \in Dispatchers \ {d} : dispatch'[e] = dispatch[e]
    BY <1>7, AtFacts DEF StartTakenMessage, Places
  <2>2. \A e \in Dispatchers \ {d} : dispatch[e].at = "idle"
    BY <1>7 DEF StartTakenMessage, Exclusion, OneDispatchAtATime
  <2> QED
    BY <1>7, <2>1, <2>2 DEF StartTakenMessage
<1>8. ASSUME NEW d \in Dispatchers, RefuseTakenMessage(d) PROVE Account'
  <2>1. /\ dispatch'[d].at = "returning" /\ dispatch'[d].msg = dispatch[d].msg
        /\ dispatch'[d].text = dispatch[d].text
        /\ \A e \in Dispatchers \ {d} : dispatch'[e] = dispatch[e]
    BY <1>8, AtFacts DEF RefuseTakenMessage, Places
  <2> QED
    BY <1>8, <2>1 DEF RefuseTakenMessage, StartFails
<1>9. ASSUME NEW d \in Dispatchers, RestoreUnlessStarted(d) PROVE Account'
  <2>1. /\ dispatch'[d].at = "leaving" /\ dispatch'[d].msg = dispatch[d].msg
        /\ dispatch'[d].text = dispatch[d].text
        /\ \A e \in Dispatchers \ {d} : dispatch'[e] = dispatch[e]
    BY <1>9, AtFacts DEF RestoreUnlessStarted, Places
  <2>2. \A e \in Dispatchers \ {d} : dispatch[e].at = "idle"
    BY <1>9 DEF RestoreUnlessStarted, Exclusion, OneDispatchAtATime
  <2>3. CASE latest = dispatch[d].msg
    <3>1. UNCHANGED <<queued, stale, delivered, erased, lost, typed, sent, age>>
      BY <1>9, <2>3 DEF RestoreUnlessStarted
    <3>2. latest \in delivered /\ sent[latest] = typed[latest]
      BY <1>9, <2>3, NoMessageAssumption DEF RestoreUnlessStarted
    <3> QED
      BY <2>1, <2>2, <2>3, <3>1, <3>2
  <2>4. CASE latest # dispatch[d].msg
    <3>1. /\ queued' = queued \cup {dispatch[d].msg}
          /\ stale' = stale \cup (delivered \cap {dispatch[d].msg})
          /\ UNCHANGED <<delivered, erased, lost, typed, sent, age>>
      BY <1>9, <2>4 DEF RestoreUnlessStarted
    <3> QED
      BY <2>1, <2>2, <3>1
  <2> QED
    BY <2>3, <2>4
<1>10. ASSUME NEW d \in Dispatchers, ReleaseLease(d) PROVE Account'
  BY <1>10, RecordFacts DEF ReleaseLease
<1>11. CASE StartPrompt
  BY <1>11 DEF StartPrompt, StartFails
<1>12. CASE RetryTask
  BY <1>12 DEF RetryTask, StartFails
<1>13. CASE RegisterResume
  BY <1>13 DEF RegisterResume
<1>14. CASE ContinueResumed
  BY <1>14 DEF ContinueResumed
<1>15. CASE AbandonResume
  <2>1. \A d \in Dispatchers :
          /\ dispatch[d].at = "running" => dispatch'[d].at = "returning"
          /\ dispatch[d].at # "running" => dispatch'[d].at = dispatch[d].at
          /\ dispatch'[d].msg = dispatch[d].msg /\ dispatch'[d].text = dispatch[d].text
    BY <1>15, AtFacts DEF AbandonResume, RunReturns, Places, Exclusion, DispatchWaitsForItsRun
  <2> QED
    BY <1>15, <2>1 DEF AbandonResume
<1>16. CASE StopRun
  BY <1>16 DEF StopRun
<1>17. CASE CancelTask
  BY <1>17 DEF CancelTask
<1>18. CASE CompleteRun
  BY <1>18 DEF CompleteRun
<1>19. CASE FinishStoppedRun
  <2>1. \A d \in Dispatchers :
          /\ dispatch[d].at = "running" => dispatch'[d].at = "returning"
          /\ dispatch[d].at # "running" => dispatch'[d].at = dispatch[d].at
          /\ dispatch'[d].msg = dispatch[d].msg /\ dispatch'[d].text = dispatch[d].text
    BY <1>19, AtFacts DEF FinishStoppedRun, RunReturns, Places, Exclusion, DispatchWaitsForItsRun
  <2> QED
    BY <1>19, <2>1 DEF FinishStoppedRun
<1>20. CASE WaitForPermission
  BY <1>20 DEF WaitForPermission, Park
<1>21. CASE AwaitPlanConfirmation
  BY <1>21 DEF AwaitPlanConfirmation, Park
<1>22. CASE FailRun
  <2>1. \A d \in Dispatchers :
          /\ dispatch[d].at = "running" => dispatch'[d].at = "returning"
          /\ dispatch[d].at # "running" => dispatch'[d].at = dispatch[d].at
          /\ dispatch'[d].msg = dispatch[d].msg /\ dispatch'[d].text = dispatch[d].text
    BY <1>22, AtFacts DEF FailRun, RunReturns, Places, Exclusion, DispatchWaitsForItsRun
  <2> QED
    BY <1>22, <2>1 DEF FailRun
<1>23. CASE ApplySteers
  BY <1>23 DEF ApplySteers
<1>24. CASE EvictSuspended
  BY <1>24 DEF EvictSuspended
<1>25. CASE PublishDeletion
  BY <1>25 DEF PublishDeletion
<1>26. CASE ClearSessionRuntime
  BY <1>26 DEF ClearSessionRuntime
<1>27. CASE Crash
  <2>1. /\ UNCHANGED <<queued, age, delivered, stale, erased, typed, sent>>
        /\ lost \subseteq lost'
        /\ \A d \in Dispatchers : dispatch'[d].at = "idle"
    BY <1>27, RecordFacts DEF Crash
  <2>2. \A m \in Messages : Held(m) /\ m \notin lost' => m = latest
    BY <1>27 DEF Crash, OnItsWay
  <2>3. latest # NoMessage => latest \in delivered /\ sent[latest] = typed[latest]
    OBVIOUS
  <2>4. Accounted'
    BY <2>1, <2>2, <2>3, NoMessageAssumption
  <2>5. DeliveredAtMostOnce'
    BY <2>1
  <2>6. EditsReachTheRun'
    BY <2>1, <2>2, <2>3, NoMessageAssumption
  <2> QED
    BY <2>4, <2>5, <2>6
<1>28. CASE UNCHANGED vars
  BY <1>28 DEF vars
<1> QED
  BY <1>1, <1>2, <1>3, <1>4, <1>5, <1>6, <1>7, <1>8, <1>9, <1>10, <1>11,
     <1>12, <1>13, <1>14, <1>15, <1>16, <1>17, <1>18, <1>19, <1>20, <1>21,
     <1>22, <1>23, <1>24, <1>25, <1>26, <1>27, <1>28 DEF Next

-----------------------------------------------------------------------------
\* A session begins with an empty queue.
LEMMA QueueInit == Init => QueueInv
<1> SUFFICES ASSUME Init PROVE QueueInv
  OBVIOUS
<1> USE DEF Init
<1>1. status \in Statuses /\ status.queue = NoMessage
  BY StatusFacts DEF MaybeMessage
<1>2. \A d \in Dispatchers : dispatch[d] \in Hands /\ dispatch[d].at = "idle"
  BY RecordFacts
<1>3. dispatch \in [Dispatchers -> Hands]
  BY <1>2
<1>4. TypeOK
  <2>1. 0 \in Revisions
    BY BoundsAssumption DEF Revisions
  <2>2. /\ mode \in [Messages -> {"queue", "steer"}] /\ payload \in [Messages -> Revisions]
        /\ age \in [Messages -> Nat]
        /\ typed \in [Messages -> Revisions] /\ sent \in [Messages -> Revisions]
    BY <2>1
  <2>3. run \in Runs /\ suspended \in Suspensions /\ latest \in MaybeMessage
    BY RecordFacts DEF MaybeMessage
  <2> QED
    BY <1>1, <1>3, <2>2, <2>3 DEF TypeOK
<1>5. Exclusion
  BY <1>2, RecordFacts, OwnersAssumption
  DEF Exclusion, OneDispatchAtATime, DispatchWaitsForItsRun, DeletedSessionIsQuiet
<1>6. IdsAgree
  BY <1>1, RecordFacts DEF IdsAgree
<1>7. Copies
  BY <1>2 DEF Copies, OnlyAccepted, HandsAreSound, InHand, QueueHoldsSaved,
              LatestGotSaved
<1>8. Account
  BY DEF Account, Accounted, DeliveredAtMostOnce, EditsReachTheRun
<1> QED
  BY <1>4, <1>5, <1>6, <1>7, <1>8 DEF QueueInv

\* No step takes the invariant away.
LEMMA QueueStep == QueueInv /\ [Next]_vars => QueueInv'
  BY TypeStep, ExclusionStep, IdsStep, CopiesStep, AccountStep DEF QueueInv, Copies

\* QueueInv is an invariant of SessionQueue, whatever its constants.
THEOREM QueueInvariant == Spec => []QueueInv
  BY QueueInit, QueueStep, PTL DEF Spec

\* No accepted message disappears between the queue, a dispatch, the runs and
\* the user's deletions, but for one that a crash takes from a dispatch.
THEOREM EveryMessageIsAlwaysAccountedFor == Spec => []Accounted
<1>1. QueueInv => Accounted
  BY DEF QueueInv, Account
<1> QED
  BY <1>1, QueueInvariant, PTL

\* By its own run or as a steer, a message reaches a run once and in the text
\* that was saved last; the exception is the one put back by the restore check.
THEOREM AlwaysDeliveredOnceAsSaved == Spec => []DeliveredOnceAsSaved
<1>1. QueueInv => DeliveredOnceAsSaved
  BY DEF QueueInv, Account, DeliveredOnceAsSaved
<1> QED
  BY <1>1, QueueInvariant, PTL

\* The key registry keeps dispatches apart, and a dispatch's run is its own.
THEOREM DispatchIsAlwaysExclusive == Spec => []DispatchIsExclusive
<1>1. QueueInv => DispatchIsExclusive
  BY DEF QueueInv, Exclusion, DispatchIsExclusive
<1> QED
  BY <1>1, QueueInvariant, PTL

\* Nothing of a session outlives its published deletion.
THEOREM DeletedSessionIsAlwaysQuiet == Spec => []DeletedSessionIsQuiet
<1>1. QueueInv => DeletedSessionIsQuiet
  BY DEF QueueInv, Exclusion
<1> QED
  BY <1>1, QueueInvariant, PTL

\* The text a run has received of a message is never replaced by a second
\* delivery, unless the restore check had put the message back.
THEOREM ReceivedTextIsFinal ==
  Spec => [][\A m \in delivered \ stale : sent'[m] = sent[m]]_vars
<1> DEFINE Final == \A m \in delivered \ stale : sent'[m] = sent[m]
<1>1. ASSUME QueueInv, [Next]_vars PROVE [Final]_vars
  <2> SUFFICES ASSUME Next, NEW m \in delivered \ stale PROVE sent'[m] = sent[m]
    BY <1>1
  <2> USE <1>1 DEF QueueInv, TypeOK, queueVars, historyVars
  <2>1. m \in Messages /\ m \notin queued
    BY DEF Account, DeliveredAtMostOnce
  <2>2. ASSUME NEW d \in Dispatchers, StartTakenMessage(d) PROVE sent'[m] = sent[m]
    BY <2>1, <2>2 DEF StartTakenMessage, Account, DeliveredAtMostOnce
  <2>3. CASE ApplySteers
    BY <2>1, <2>3 DEF ApplySteers
  <2>4. ASSUME ~ApplySteers, \A d \in Dispatchers : ~StartTakenMessage(d)
        PROVE  UNCHANGED sent
    BY <2>4 DEF Next, Enqueue, EditQueued, DeleteQueued, SteerQueued,
       BeginQueueDispatch, TakeHead, RefuseTakenMessage, RestoreUnlessStarted,
       ReleaseLease, StartPrompt, RetryTask, RegisterResume, ContinueResumed,
       AbandonResume, StopRun, CancelTask, CompleteRun, FinishStoppedRun,
       WaitForPermission, AwaitPlanConfirmation, Park, FailRun, EvictSuspended,
       PublishDeletion, ClearSessionRuntime, Crash
  <2> QED
    BY <2>2, <2>3, <2>4
<1> QED
  BY <1>1, QueueInvariant, PTL DEF Spec

-----------------------------------------------------------------------------
(***************************************************************************)
(* The promise of the queue.                                               *)
(***************************************************************************)

\* What was deleted, or lost in a crash, is nowhere else.
GoneForGood ==
  \A m \in erased \cup lost :
    /\ age[m] > 0
    /\ m \notin queued
    /\ \A d \in Dispatchers :
         dispatch[d].at \in {"taken", "running", "returning"} => dispatch[d].msg # m

\* No step brings a deleted or a lost message back.
LEMMA GoneStep == QueueInv /\ GoneForGood /\ [Next]_vars => GoneForGood'
<1> SUFFICES ASSUME QueueInv, GoneForGood, [Next]_vars PROVE GoneForGood'
  OBVIOUS
<1>1. /\ TypeOK /\ OnlyAccepted /\ HandsAreSound /\ OneDispatchAtATime
      /\ dispatch \in [Dispatchers -> Hands] /\ age \in [Messages -> Nat]
  BY DEF QueueInv, TypeOK, Copies, Exclusion
<1> USE DEF queueVars, historyVars
<1>2. ASSUME NEW m \in Messages, Enqueue(m) PROVE GoneForGood'
  <2>1. Cardinality({n \in Messages : age[n] > 0}) + 1 > 0
    BY AcceptedIsFinite
  <2> QED
    BY <1>1, <1>2, <2>1 DEF Enqueue, GoneForGood
<1>3. ASSUME NEW m \in Messages, DeleteQueued(m) PROVE GoneForGood'
  BY <1>1, <1>3 DEF DeleteQueued, GoneForGood, OnlyAccepted, HandsAreSound, InHand
<1>4. ASSUME NEW m \in Messages, EditQueued(m) \/ SteerQueued(m) PROVE GoneForGood'
  BY <1>4 DEF EditQueued, SteerQueued, GoneForGood
<1>5. ASSUME NEW d \in Dispatchers,
             BeginQueueDispatch(d) \/ RefuseTakenMessage(d) \/ StartTakenMessage(d)
      PROVE  GoneForGood'
  <2>1. dispatch' \in {At(d, "leased"), At(d, "returning"), At(d, "running")}
        /\ UNCHANGED <<queued, age, erased, lost>>
        /\ (dispatch[d].at = "taken" \/ dispatch' = At(d, "leased"))
    BY <1>5 DEF BeginQueueDispatch, RefuseTakenMessage, StartTakenMessage
  <2> QED
    BY <1>1, <2>1, AtFacts DEF GoneForGood, Places
<1>6. ASSUME NEW d \in Dispatchers, TakeHead(d) PROVE GoneForGood'
  <2>1. CASE dispatch' = At(d, "leaving") /\ UNCHANGED queued
    BY <1>1, <1>6, <2>1, AtFacts DEF TakeHead, GoneForGood, Places
  <2>2. ASSUME NEW m \in Heads, queued' = queued \ {m},
               dispatch' = [dispatch EXCEPT ![d] =
                  [at |-> "taken", msg |-> m, mode |-> mode[m], text |-> payload[m]]]
        PROVE  GoneForGood'
    <3>1. m \in queued
      BY <2>2 DEF Heads
    <3> QED
      BY <1>1, <1>6, <2>2, <3>1 DEF TakeHead, GoneForGood
  <2> QED
    BY <1>6, <2>1, <2>2 DEF TakeHead
<1>7. ASSUME NEW d \in Dispatchers, RestoreUnlessStarted(d) PROVE GoneForGood'
  <2>1. /\ dispatch' = At(d, "leaving") /\ dispatch[d].at = "returning"
        /\ queued' \in {queued, queued \cup {dispatch[d].msg}}
        /\ UNCHANGED <<age, erased, lost>>
    BY <1>7 DEF RestoreUnlessStarted
  <2>2. \A m \in erased \cup lost : m \notin queued'
    BY <2>1 DEF GoneForGood
  <2> QED
    BY <1>1, <2>1, <2>2, AtFacts DEF GoneForGood, Places
<1>8. ASSUME NEW d \in Dispatchers, ReleaseLease(d) PROVE GoneForGood'
  BY <1>1, <1>8 DEF ReleaseLease, GoneForGood, Idle
<1>9. CASE AbandonResume \/ FinishStoppedRun \/ FailRun
  <2>1. /\ UNCHANGED <<queued, age, erased, lost>>
        /\ \/ dispatch' = dispatch
           \/ run.owner \in Dispatchers /\ dispatch' = At(run.owner, "returning")
    BY <1>9 DEF AbandonResume, FinishStoppedRun, FailRun, RunReturns
  <2>2. \A d \in Dispatchers : run.owner = d => dispatch[d].at = "running"
    BY DEF QueueInv, Exclusion, DispatchWaitsForItsRun
  <2> QED
    BY <1>1, <2>1, <2>2, AtFacts DEF GoneForGood, Places
<1>10. CASE ApplySteers
  BY <1>10 DEF ApplySteers, GoneForGood
<1>11. CASE Crash
  BY <1>1, <1>11 DEF Crash, GoneForGood, OnItsWay, HandsAreSound, InHand, Idle
<1>12. CASE \/ StartPrompt \/ RetryTask \/ RegisterResume \/ ContinueResumed
            \/ StopRun \/ CancelTask \/ CompleteRun
            \/ WaitForPermission \/ AwaitPlanConfirmation
            \/ EvictSuspended \/ PublishDeletion \/ ClearSessionRuntime
            \/ UNCHANGED vars
  <2>1. UNCHANGED <<queued, age, erased, lost, dispatch>>
    BY <1>12 DEF StartPrompt, RetryTask, RegisterResume, ContinueResumed, StopRun,
       CancelTask, CompleteRun, WaitForPermission, AwaitPlanConfirmation, Park,
       EvictSuspended, PublishDeletion, ClearSessionRuntime, vars
  <2> QED
    BY <2>1 DEF GoneForGood
<1> QED
  BY <1>2, <1>3, <1>4, <1>5, <1>6, <1>7, <1>8, <1>9, <1>10, <1>11, <1>12 DEF Next

-----------------------------------------------------------------------------
\* Where a message is, as far as the invariant tells.
LEMMA PlaceFacts ==
  ASSUME QueueInv, GoneForGood, NEW m \in Messages
  PROVE  /\ age[m] = 0 <=> Place(m) = "new"
         /\ m \in queued <=> Place(m) = "queued"
         /\ OnItsWay(m) <=> Place(m) = "held"
         /\ latest = m /\ ~OnItsWay(m) /\ m \notin erased \cup lost
              => Place(m) = "received"
<1>1. age[m] \in Nat
  BY DEF QueueInv, TypeOK
<1>2. m \in queued => age[m] > 0
  BY DEF QueueInv, Copies, OnlyAccepted
<1>3. OnItsWay(m) => age[m] > 0 /\ m \notin queued
  BY DEF OnItsWay, QueueInv, Copies, HandsAreSound, InHand
<1>4. latest = m => m \in delivered /\ m \notin queued /\ age[m] > 0
  BY NoMessageAssumption
  DEF QueueInv, Copies, LatestGotSaved, QueueHoldsSaved, OnlyAccepted
<1> QED
  BY <1>1, <1>2, <1>3, <1>4 DEF Place

\* A message stays where it is when nothing happens to it.
LEMMA SamePlace ==
  ASSUME NEW m \in Messages, age'[m] = age[m], m \in queued' <=> m \in queued,
         m \in erased' \cup lost' <=> m \in erased \cup lost,
         m \in delivered' <=> m \in delivered,
         OnItsWay(m)' <=> OnItsWay(m)
  PROVE  Place(m)' = Place(m)
  BY DEF Place

\* A dispatcher that does not carry m does not bring it on its way.
LEMMA SameWay ==
  ASSUME NEW m \in Messages, latest' = m <=> latest = m,
         \A d \in Dispatchers :
            dispatch'[d].msg = m /\ dispatch'[d].at \in {"taken", "returning"}
              <=> dispatch[d].msg = m /\ dispatch[d].at \in {"taken", "returning"},
         \A d \in Dispatchers : dispatch'[d].msg = m /\ dispatch[d].msg = m
              => (dispatch'[d].at = "taken" <=> dispatch[d].at = "taken")
  PROVE  OnItsWay(m)' <=> OnItsWay(m)
  BY DEF OnItsWay

\* When no message moves the promise stutters.
LEMMA NoneMoves ==
  ASSUME \A m \in Messages : Place(m)' = Place(m), UNCHANGED <<typed, sent>>,
         session' = "open" <=> session = "open"
  PROVE  UNCHANGED Delivery!deliveryVars
  BY DEF Delivery!deliveryVars

\* When one moves, the promise sees it move.
LEMMA OneMoves ==
  ASSUME NEW m \in Messages, NEW to, Place(m)' = to,
         \A n \in Messages \ {m} : Place(n)' = Place(n), UNCHANGED <<typed, sent, session>>
  PROVE  Delivery!Move(m, to)
  BY DEF Delivery!Move

\* Whatever the promise does while the session is open is one of its steps.
LEMMA OpenMove ==
  ASSUME QueueInv, GoneForGood, session = "open", NEW m \in Messages
  PROVE  /\ age[m] = 0 /\ Delivery!Move(m, "queued") => Delivery!DeliveryNext
         /\ m \in queued /\ Delivery!Move(m, "gone") => Delivery!DeliveryNext
         /\ OnItsWay(m) /\ Delivery!Move(m, "queued") => Delivery!DeliveryNext
         /\ OnItsWay(m) /\ Delivery!Move(m, "gone") => Delivery!DeliveryNext
         /\ /\ m \in queued \/ Place(m) = "received"
            /\ \A n \in Messages : ~OnItsWay(n)
            /\ Delivery!Move(m, "held")
            => Delivery!DeliveryNext
<1>1. \A n \in Messages : /\ age[n] = 0 <=> Place(n) = "new"
                          /\ n \in queued <=> Place(n) = "queued"
                          /\ OnItsWay(n) <=> Place(n) = "held"
  BY PlaceFacts
<1>2. \A n \in Messages : [k \in Messages |-> Place(k)][n] = Place(n)
  OBVIOUS
<1>3. age[m] = 0 /\ Delivery!Move(m, "queued") => Delivery!DeliveryNext
  BY <1>1, <1>2 DEF Delivery!DeliveryNext, Delivery!In, Delivery!Accept
<1>4. m \in queued /\ Delivery!Move(m, "gone") => Delivery!DeliveryNext
  BY <1>1, <1>2 DEF Delivery!DeliveryNext, Delivery!In, Delivery!Erase
<1>5. OnItsWay(m) /\ Delivery!Move(m, "queued") => Delivery!DeliveryNext
  BY <1>1, <1>2 DEF Delivery!DeliveryNext, Delivery!In, Delivery!GiveBack
<1>6. OnItsWay(m) /\ Delivery!Move(m, "gone") => Delivery!DeliveryNext
  BY <1>1, <1>2 DEF Delivery!DeliveryNext, Delivery!In, Delivery!Lose
<1>7. ASSUME m \in queued \/ Place(m) = "received", \A n \in Messages : ~OnItsWay(n),
             Delivery!Move(m, "held")
      PROVE  Delivery!DeliveryNext
  <2>1. Delivery!In("held") = {}
    BY <1>1, <1>2, <1>7 DEF Delivery!In
  <2>2. CASE m \in queued
    <3>1. m \in Delivery!In("queued")
      BY <1>1, <1>2, <2>2 DEF Delivery!In
    <3> QED
      BY <1>7, <2>1, <3>1 DEF Delivery!DeliveryNext, Delivery!Take
  <2>3. CASE Place(m) = "received"
    <3>1. m \in Delivery!In("received")
      BY <1>2, <2>3 DEF Delivery!In
    <3> QED
      BY <1>7, <2>1, <3>1 DEF Delivery!DeliveryNext, Delivery!Reclaim
  <2> QED
    BY <1>7, <2>2, <2>3
<1> QED
  BY <1>3, <1>4, <1>5, <1>6, <1>7

\* While dispatches and the latest run start stay, so does what is on its way.
LEMMA WayStays ==
  ASSUME UNCHANGED <<dispatch, latest>>
  PROVE  \A m \in Messages : OnItsWay(m)' <=> OnItsWay(m)
  BY DEF OnItsWay

\* The queue commands accept, edit and delete.
LEMMA CommandsDeliver ==
  ASSUME QueueInv, GoneForGood, NEW m \in Messages,
         Enqueue(m) \/ EditQueued(m) \/ DeleteQueued(m) \/ SteerQueued(m)
  PROVE  [Delivery!DeliveryNext]_(Delivery!deliveryVars)
<1>1. /\ age \in [Messages -> Nat] /\ typed \in [Messages -> Revisions]
      /\ payload \in [Messages -> Revisions]
  BY DEF QueueInv, TypeOK
<1>2. /\ session = "open" /\ UNCHANGED session
      /\ \A n \in Messages : OnItsWay(n)' <=> OnItsWay(n)
  BY WayStays DEF Enqueue, EditQueued, DeleteQueued, SteerQueued
<1>3. CASE Enqueue(m)
  <2>1. age'[m] > 0 /\ m \in queued' /\ age[m] = 0
    BY <1>1, <1>3, AcceptedIsFinite DEF Enqueue
  <2>2. Place(m)' = "queued"
    BY <2>1 DEF Place
  <2>3. \A n \in Messages \ {m} : Place(n)' = Place(n)
    BY <1>1, <1>2, <1>3, SamePlace DEF Enqueue, historyVars
  <2>4. Delivery!Move(m, "queued")
    BY <1>2, <1>3, <2>2, <2>3, OneMoves DEF Enqueue, historyVars
  <2> QED
    BY <1>2, <2>1, <2>4, OpenMove
<1>4. CASE EditQueued(m)
  <2>1. \A n \in Messages : Place(n)' = Place(n)
    BY <1>2, <1>4, SamePlace DEF EditQueued
  <2>2. typed' = [typed EXCEPT ![m] = @ + 1]
    BY <1>1, <1>4 DEF EditQueued, QueueInv, Copies, QueueHoldsSaved
  <2>3. Delivery!Edit(m)
    BY <1>2, <1>4, <2>1, <2>2 DEF Delivery!Edit, EditQueued
  <2>4. m \in Delivery!In("queued")
    BY <1>4, PlaceFacts DEF Delivery!In, EditQueued
  <2> QED
    BY <1>2, <2>3, <2>4 DEF Delivery!DeliveryNext
<1>5. CASE DeleteQueued(m)
  <2>1. m \in queued /\ m \notin queued' /\ m \in erased'
    BY <1>5 DEF DeleteQueued
  <2>2. age'[m] > 0 /\ ~OnItsWay(m)
    BY <1>5, <2>1 DEF DeleteQueued, QueueInv, Copies, OnlyAccepted, OnItsWay,
                      HandsAreSound, InHand
  <2>3. Place(m)' = "gone"
    BY <1>1, <1>2, <1>5, <2>1, <2>2 DEF Place, DeleteQueued
  <2>4. \A n \in Messages \ {m} : Place(n)' = Place(n)
    BY <1>2, <1>5, SamePlace DEF DeleteQueued
  <2>5. Delivery!Move(m, "gone")
    BY <1>2, <1>5, <2>3, <2>4, OneMoves DEF DeleteQueued
  <2> QED
    BY <1>2, <2>1, <2>5, OpenMove
<1>6. CASE SteerQueued(m)
  <2>1. \A n \in Messages : Place(n)' = Place(n)
    BY <1>2, <1>6, SamePlace DEF SteerQueued, historyVars
  <2> QED
    BY <1>2, <1>6, <2>1, NoneMoves DEF SteerQueued, historyVars
<1> QED
  BY <1>3, <1>4, <1>5, <1>6

\* One dispatch at a time has something to do.
LEMMA OnlyDispatch ==
  ASSUME QueueInv, NEW d \in Dispatchers, dispatch[d].at # "idle"
  PROVE  /\ session = "open"
         /\ \A e \in Dispatchers \ {d} : dispatch[e].at = "idle"
         /\ \A m \in Messages : OnItsWay(m) =>
              /\ dispatch[d].msg = m
              /\ \/ dispatch[d].at = "taken"
                 \/ dispatch[d].at = "returning" /\ latest # m
<1>1. \A e \in Dispatchers \ {d} : dispatch[e].at = "idle"
  BY DEF QueueInv, Exclusion, OneDispatchAtATime
<1>2. session = "open"
  BY DEF QueueInv, Exclusion, DeletedSessionIsQuiet
<1> QED
  BY <1>1, <1>2 DEF OnItsWay

\* The dispatches after one of them goes on to its next step.
LEMMA AtStep ==
  ASSUME dispatch \in [Dispatchers -> Hands], NEW d \in Dispatchers, NEW pc \in Places,
         dispatch' = At(d, pc)
  PROVE  /\ dispatch'[d].at = pc /\ dispatch'[d].msg = dispatch[d].msg
         /\ \A e \in Dispatchers \ {d} : dispatch'[e] = dispatch[e]
  BY AtFacts

\* While it neither takes a message nor returns with one, nothing of it is on its
\* way.
LEMMA NotHolding ==
  ASSUME NEW d \in Dispatchers, \A e \in Dispatchers \ {d} : dispatch[e].at = "idle",
         \A e \in Dispatchers \ {d} : dispatch'[e] = dispatch[e],
         dispatch'[d].at \notin {"taken", "returning"}
  PROVE  \A m \in Messages : ~OnItsWay(m)'
  BY DEF OnItsWay

\* A dispatch takes a message, starts it or gives it back.
LEMMA DispatchDelivers ==
  ASSUME QueueInv, GoneForGood, NEW d \in Dispatchers,
         \/ BeginQueueDispatch(d) \/ TakeHead(d)
         \/ StartTakenMessage(d) \/ RefuseTakenMessage(d)
         \/ RestoreUnlessStarted(d) \/ ReleaseLease(d)
  PROVE  [Delivery!DeliveryNext]_(Delivery!deliveryVars)
<1>1. /\ dispatch \in [Dispatchers -> Hands] /\ queued \subseteq Messages
      /\ age \in [Messages -> Nat] /\ HandsAreSound
      /\ erased \subseteq Messages /\ lost \subseteq Messages
      /\ typed \in [Messages -> Revisions] /\ sent \in [Messages -> Revisions]
  BY DEF QueueInv, TypeOK, Copies
<1>2. CASE BeginQueueDispatch(d)
  <2>1. dispatch[d].at = "idle" /\ dispatch' = At(d, "leased") /\ UNCHANGED latest
    BY <1>2 DEF BeginQueueDispatch
  <2>2. \A m \in Messages : OnItsWay(m)' <=> OnItsWay(m)
    <3>1. /\ dispatch'[d].at = "leased"
          /\ \A e \in Dispatchers \ {d} : dispatch'[e] = dispatch[e]
      BY <1>1, <2>1, AtStep DEF Places
    <3> QED
      BY <2>1, <3>1 DEF OnItsWay
  <2>3. \A m \in Messages : Place(m)' = Place(m)
    BY <1>2, <2>2, SamePlace DEF BeginQueueDispatch, queueVars, historyVars
  <2> QED
    BY <1>2, <2>3, NoneMoves DEF BeginQueueDispatch, historyVars
<1>3. CASE TakeHead(d)
  <2>1. dispatch[d].at = "leased" /\ UNCHANGED <<session, latest, age, historyVars>>
    BY <1>3 DEF TakeHead
  <2>2. \A m \in Messages : ~OnItsWay(m)
    BY <2>1, OnlyDispatch
  <2>3. CASE dispatch' = At(d, "leaving") /\ UNCHANGED queued
    <3>1. \A m \in Messages : OnItsWay(m)' <=> OnItsWay(m)
      <4>1. /\ dispatch'[d].at = "leaving"
            /\ \A e \in Dispatchers \ {d} : dispatch'[e] = dispatch[e]
        BY <1>1, <2>3, AtStep DEF Places
      <4> QED
        BY <2>1, <4>1 DEF OnItsWay
    <3>2. \A m \in Messages : Place(m)' = Place(m)
      BY <2>1, <2>3, <3>1, SamePlace DEF historyVars
    <3> QED
      BY <2>1, <3>2, NoneMoves DEF historyVars
  <2>4. ASSUME NEW m \in Heads, queued' = queued \ {m},
               dispatch' = [dispatch EXCEPT ![d] =
                  [at |-> "taken", msg |-> m, mode |-> mode[m], text |-> payload[m]]]
        PROVE  Delivery!DeliveryNext
    <3>1. m \in queued /\ m \in Messages /\ age[m] > 0
      BY <1>1, <2>4 DEF Heads, QueueInv, Copies, OnlyAccepted
    <3>2. OnItsWay(m)'
      BY <1>1, <2>4 DEF OnItsWay
    <3>3. Place(m)' = "held"
      BY <1>1, <2>1, <2>4, <3>1, <3>2 DEF Place
    <3>4. \A n \in Messages \ {m} : ~OnItsWay(n)'
      BY <1>1, <2>1, <2>2, <2>4 DEF OnItsWay
    <3>5. \A n \in Messages \ {m} : Place(n)' = Place(n)
      BY <2>1, <2>2, <2>4, <3>4, SamePlace DEF historyVars
    <3>6. Delivery!Move(m, "held")
      BY <2>1, <3>1, <3>3, <3>5, OneMoves DEF historyVars
    <3> QED
      BY <2>1, <2>2, <3>1, <3>6, OpenMove, OnlyDispatch
  <2> QED
    BY <1>3, <2>3, <2>4 DEF TakeHead
<1>4. CASE StartTakenMessage(d)
  <2>0. PICK m \in MaybeMessage : m = dispatch[d].msg
    BY <1>1 DEF Hands
  <2>1. /\ dispatch[d].at = "taken" /\ dispatch' = At(d, "running") /\ latest' = m
        /\ delivered' = delivered \cup {m}
        /\ sent' = [sent EXCEPT ![m] = dispatch[d].text]
        /\ UNCHANGED <<session, queued, age, erased, lost, typed>>
    BY <1>4, <2>0 DEF StartTakenMessage, queueVars
  <2>2. m \in Messages /\ age[m] > 0 /\ m \notin queued /\ dispatch[d].text = typed[m]
    BY <1>1, <2>0, <2>1 DEF HandsAreSound, InHand
  <2>3. m \notin erased \cup lost
    BY <2>0, <2>1 DEF GoneForGood
  <2>4. OnItsWay(m)
    BY <2>0, <2>1 DEF OnItsWay
  <2>5. /\ session = "open"
        /\ \A e \in Dispatchers \ {d} : dispatch[e].at = "idle"
        /\ \A n \in Messages \ {m} : ~OnItsWay(n)
    BY <2>0, <2>1, OnlyDispatch
  <2>6. \A n \in Messages : ~OnItsWay(n)'
    <3>1. /\ dispatch'[d].at = "running"
          /\ \A e \in Dispatchers \ {d} : dispatch'[e] = dispatch[e]
      BY <1>1, <2>1, AtStep DEF Places
    <3> QED
      BY <2>5, <3>1, NotHolding
  <2>7. Place(m)' = "received"
    BY <1>1, <2>1, <2>2, <2>3, <2>6 DEF Place
  <2>8. \A n \in Messages \ {m} : Place(n)' = Place(n)
    BY <2>1, <2>5, <2>6, SamePlace
  <2>9. Delivery!Start(m)
    BY <1>1, <2>1, <2>2, <2>7, <2>8 DEF Delivery!Start, Delivery!Receive
  <2>10. m \in Delivery!In("held")
    BY <2>2, <2>4, PlaceFacts DEF Delivery!In
  <2> QED
    BY <2>5, <2>9, <2>10 DEF Delivery!DeliveryNext
<1>5. CASE RefuseTakenMessage(d)
  <2>0. PICK m \in MaybeMessage : m = dispatch[d].msg
    BY <1>1 DEF Hands
  <2>1. /\ dispatch[d].at = "taken" /\ dispatch' = At(d, "returning")
        /\ UNCHANGED <<session, latest, queueVars, historyVars>>
    BY <1>5 DEF RefuseTakenMessage, StartFails
  <2>2. latest # m
    BY <1>1, <2>0, <2>1 DEF HandsAreSound, InHand
  <2>3. \A n \in Messages : OnItsWay(n)' <=> OnItsWay(n)
    <3>1. /\ dispatch'[d].at = "returning" /\ dispatch'[d].msg = m
          /\ \A e \in Dispatchers \ {d} : dispatch'[e] = dispatch[e]
      BY <1>1, <2>0, <2>1, AtStep DEF Places
    <3> QED
      BY <2>0, <2>1, <2>2, <3>1 DEF OnItsWay
  <2>4. \A n \in Messages : Place(n)' = Place(n)
    BY <2>1, <2>3, SamePlace DEF queueVars, historyVars
  <2> QED
    BY <2>1, <2>4, NoneMoves DEF historyVars
<1>6. CASE RestoreUnlessStarted(d)
  <2>0. PICK m \in MaybeMessage : m = dispatch[d].msg
    BY <1>1 DEF Hands
  <2>1. /\ dispatch[d].at = "returning" /\ dispatch' = At(d, "leaving")
        /\ UNCHANGED <<session, latest, age, delivered, erased, lost, typed, sent>>
    BY <1>6 DEF RestoreUnlessStarted
  <2>2. m \in Messages /\ age[m] > 0 /\ m \notin queued
    BY <1>1, <2>0, <2>1 DEF HandsAreSound, InHand
  <2>3. /\ session = "open"
        /\ \A e \in Dispatchers \ {d} : dispatch[e].at = "idle"
        /\ \A n \in Messages : OnItsWay(n) => m = n /\ latest # n
    BY <2>0, <2>1, OnlyDispatch
  <2>4. \A n \in Messages : ~OnItsWay(n)'
    <3>1. /\ dispatch'[d].at = "leaving"
          /\ \A e \in Dispatchers \ {d} : dispatch'[e] = dispatch[e]
      BY <1>1, <2>1, AtStep DEF Places
    <3> QED
      BY <2>3, <3>1, NotHolding
  <2>5. CASE latest = m
    <3>1. UNCHANGED queued
      BY <1>6, <2>0, <2>5 DEF RestoreUnlessStarted
    <3>2. \A n \in Messages : Place(n)' = Place(n)
      BY <2>1, <2>3, <2>4, <2>5, <3>1, SamePlace
    <3> QED
      BY <2>1, <3>2, NoneMoves
  <2>6. CASE latest # m
    <3>1. queued' = queued \cup {m} /\ OnItsWay(m)
      BY <1>6, <2>0, <2>1, <2>6 DEF RestoreUnlessStarted, OnItsWay
    <3>2. Place(m)' = "queued"
      BY <1>1, <2>1, <2>2, <3>1 DEF Place
    <3>3. \A n \in Messages \ {m} : Place(n)' = Place(n)
      BY <2>1, <2>3, <2>4, <3>1, SamePlace
    <3>4. Delivery!Move(m, "queued")
      BY <2>1, <2>2, <3>2, <3>3, OneMoves
    <3> QED
      BY <2>2, <2>3, <3>1, <3>4, OpenMove
  <2> QED
    BY <2>5, <2>6
<1>7. CASE ReleaseLease(d)
  <2>1. dispatch[d].at = "leaving" /\ dispatch' = [dispatch EXCEPT ![d] = Idle]
        /\ UNCHANGED latest
    BY <1>7 DEF ReleaseLease
  <2>2. \A m \in Messages : OnItsWay(m)' <=> OnItsWay(m)
    BY <1>1, <2>1, RecordFacts DEF OnItsWay
  <2>3. \A m \in Messages : Place(m)' = Place(m)
    BY <1>7, <2>2, SamePlace DEF ReleaseLease, queueVars, historyVars
  <2> QED
    BY <1>7, <2>3, NoneMoves DEF ReleaseLease, historyVars
<1> QED
  BY <1>2, <1>3, <1>4, <1>5, <1>6, <1>7

\* A start by a command leaves the messages alone, but for one: while a dispatch
\* is about to check whether its message's run has started, the new start takes
\* the place of that run's, and the check will find nothing.
LEMMA StartsDeliver ==
  ASSUME QueueInv, GoneForGood, StartPrompt \/ RetryTask
  PROVE  [Delivery!DeliveryNext]_(Delivery!deliveryVars)
<1>1. /\ latest' \in {latest, NoMessage} /\ session = "open"
      /\ UNCHANGED <<session, queueVars, dispatch, historyVars>>
  BY DEF StartPrompt, RetryTask, StartFails, QueueInv, IdsAgree
<1>2. \A m \in Messages : OnItsWay(m) => OnItsWay(m)'
  BY <1>1, NoMessageAssumption DEF OnItsWay
<1>3. CASE \A m \in Messages : OnItsWay(m)' => OnItsWay(m)
  <2>1. \A m \in Messages : Place(m)' = Place(m)
    BY <1>1, <1>2, <1>3, SamePlace DEF queueVars, historyVars
  <2> QED
    BY <1>1, <2>1, NoneMoves DEF historyVars
<1>4. ASSUME NEW m \in Messages, OnItsWay(m)', ~OnItsWay(m) PROVE Delivery!DeliveryNext
  <2>1. PICK d \in Dispatchers :
          dispatch[d].msg = m /\ dispatch[d].at = "returning" /\ latest = m
    BY <1>1, <1>4 DEF OnItsWay
  <2>2. \A n \in Messages : ~OnItsWay(n)
    BY <2>1, OnlyDispatch
  <2>3. m \notin queued /\ age[m] > 0 /\ m \notin erased \cup lost
    BY <2>1 DEF QueueInv, Copies, HandsAreSound, InHand, GoneForGood
  <2>4. Place(m) = "received"
    BY <2>1, <2>2, <2>3, PlaceFacts
  <2>5. age[m] \in Nat
    BY DEF QueueInv, TypeOK
  <2>6. Place(m)' = "held"
    BY <1>1, <1>4, <2>3, <2>5 DEF Place, queueVars
  <2>7. \A n \in Messages \ {m} : ~OnItsWay(n)'
    BY <1>1, <2>1, OnlyDispatch DEF OnItsWay
  <2>8. \A n \in Messages \ {m} : Place(n)' = Place(n)
    BY <1>1, <2>2, <2>7, SamePlace DEF queueVars, historyVars
  <2>9. Delivery!Move(m, "held")
    BY <1>1, <2>6, <2>8, OneMoves DEF historyVars
  <2> QED
    BY <1>1, <2>2, <2>4, <2>9, OpenMove
<1> QED
  BY <1>3, <1>4

\* The steer batch of a running agent gives it the waiting ones of its messages.
LEMMA SteersDeliver ==
  ASSUME QueueInv, GoneForGood, ApplySteers
  PROVE  [Delivery!DeliveryNext]_(Delivery!deliveryVars)
<1>1. PICK some \in SUBSET Messages : some = run.pending \cap queued
  BY DEF QueueInv, TypeOK
<1>2. /\ delivered' = delivered \cup some
      /\ sent' = [m \in Messages |-> IF m \in some THEN payload[m] ELSE sent[m]]
      /\ queued' = queued \ some
      /\ UNCHANGED <<session, age, latest, dispatch, erased, lost, typed>>
  BY <1>1 DEF ApplySteers
<1>3. \A m \in Messages : OnItsWay(m)' <=> OnItsWay(m)
  BY <1>2, WayStays
<1>4. session = "open"
  BY DEF ApplySteers, Looping, QueueInv, Exclusion, DeletedSessionIsQuiet
<1>5. \A m \in Messages \ some : Place(m)' = Place(m)
  BY <1>2, <1>3, SamePlace
<1>6. ASSUME NEW m \in some PROVE Place(m)' = "received" /\ Place(m) = "queued"
  <2>1. m \in Messages /\ m \in queued /\ age[m] \in Nat /\ age[m] > 0
    BY <1>1 DEF QueueInv, TypeOK, Copies, OnlyAccepted
  <2>2. ~OnItsWay(m) /\ m \notin erased \cup lost
    BY <2>1 DEF OnItsWay, QueueInv, Copies, HandsAreSound, InHand, GoneForGood
  <2>3. Place(m) = "queued"
    BY <2>1, PlaceFacts
  <2> QED
    BY <1>2, <1>3, <2>1, <2>2, <2>3 DEF Place
<1>7. sent \in [Messages -> Revisions] /\ \A m \in some : payload[m] = typed[m]
  BY <1>1 DEF QueueInv, TypeOK, Copies, QueueHoldsSaved
<1>8. CASE some = {}
  <2>1. sent' = sent
    BY <1>2, <1>7, <1>8
  <2> QED
    BY <1>2, <1>5, <1>8, <2>1, NoneMoves
<1>9. CASE some # {}
  <2>1. some \in SUBSET Delivery!In("queued")
    BY <1>6 DEF Delivery!In
  <2>2. \A m \in Messages : Place(m)' = IF m \in some THEN "received" ELSE Place(m)
    BY <1>5, <1>6
  <2>3. Delivery!Receive(some)
    BY <1>2, <1>7, <2>2 DEF Delivery!Receive
  <2> QED
    BY <1>4, <1>9, <2>1, <2>3 DEF Delivery!DeliveryNext, Delivery!Steer
<1> QED
  BY <1>8, <1>9

\* A crash loses the message on its way, if there is one.
LEMMA CrashDelivers ==
  ASSUME QueueInv, GoneForGood, Crash
  PROVE  [Delivery!DeliveryNext]_(Delivery!deliveryVars)
<1>1. /\ lost' = lost \cup {m \in Messages : OnItsWay(m)}
      /\ dispatch' = [d \in Dispatchers |-> Idle]
      /\ session' = "open" <=> session = "open"
      /\ UNCHANGED <<queued, age, latest, delivered, erased, typed, sent>>
  BY DEF Crash, queueVars
<1>2. \A m \in Messages : ~OnItsWay(m)'
  BY <1>1, RecordFacts DEF OnItsWay
<1>3. CASE \A m \in Messages : ~OnItsWay(m)
  <2>1. lost' = lost
    BY <1>1, <1>3
  <2>2. \A m \in Messages : Place(m)' = Place(m)
    BY <1>1, <1>2, <1>3, <2>1, SamePlace
  <2> QED
    BY <1>1, <2>2, NoneMoves
<1>4. ASSUME NEW m \in Messages, OnItsWay(m) PROVE Delivery!DeliveryNext
  <2>1. PICK d \in Dispatchers : dispatch[d].msg = m /\ dispatch[d].at \in {"taken", "returning"}
    BY <1>4 DEF OnItsWay
  <2>2. session = "open" /\ \A n \in Messages \ {m} : ~OnItsWay(n)
    BY <2>1, OnlyDispatch
  <2>3. session' = session
    BY <1>1, <2>2
  <2>4. age[m] \in Nat /\ age[m] > 0 /\ m \notin queued
    BY <2>1 DEF QueueInv, TypeOK, Copies, HandsAreSound, InHand
  <2>5. Place(m)' = "gone"
    BY <1>1, <1>2, <1>4, <2>4 DEF Place
  <2>6. \A n \in Messages \ {m} : Place(n)' = Place(n)
    BY <1>1, <1>2, <2>2, SamePlace
  <2>7. Delivery!Move(m, "gone")
    BY <1>1, <2>3, <2>5, <2>6, OneMoves
  <2> QED
    BY <1>4, <2>2, <2>7, OpenMove
<1> QED
  BY <1>3, <1>4

\* A session is deleted when no message waits.
LEMMA DeletionDelivers ==
  ASSUME QueueInv, GoneForGood, PublishDeletion
  PROVE  Delivery!DeliveryNext
<1>1. /\ session = "open" /\ session' # "open" /\ queued = {} /\ ~lease
      /\ UNCHANGED <<queueVars, latest, dispatch, historyVars>>
  BY DEF PublishDeletion
<1>2. \A m \in Messages : ~OnItsWay(m)
  BY <1>1 DEF OnItsWay, QueueInv, Exclusion, OneDispatchAtATime
<1>3. \A m \in Messages : OnItsWay(m)' <=> OnItsWay(m)
  BY <1>1, WayStays
<1>4. \A m \in Messages : Place(m)' = Place(m)
  BY <1>1, <1>3, SamePlace DEF queueVars, historyVars
<1>5. Delivery!In("queued") = {} /\ Delivery!In("held") = {}
  BY <1>1, <1>2, PlaceFacts DEF Delivery!In
<1>6. Delivery!Close
  BY <1>1, <1>4, <1>5 DEF Delivery!Close, historyVars
<1> QED
  BY <1>1, <1>6 DEF Delivery!DeliveryNext

\* Everything else leaves each message where it is: a run that returns to its
\* dispatch is the latest, so that its message has been received.
LEMMA OthersDeliver ==
  ASSUME QueueInv, GoneForGood,
         \/ AbandonResume \/ FinishStoppedRun \/ FailRun
         \/ RegisterResume \/ ContinueResumed \/ StopRun \/ CancelTask \/ CompleteRun
         \/ WaitForPermission \/ AwaitPlanConfirmation
         \/ EvictSuspended \/ ClearSessionRuntime \/ UNCHANGED vars
  PROVE  UNCHANGED Delivery!deliveryVars
<1>1. /\ UNCHANGED <<queueVars, latest, historyVars>>
      /\ session' = "open" <=> session = "open"
      /\ \/ dispatch' = dispatch
         \/ run.owner \in Dispatchers /\ dispatch' = At(run.owner, "returning")
  BY DEF AbandonResume, FinishStoppedRun, FailRun, RunReturns, RegisterResume,
     ContinueResumed, StopRun, CancelTask, CompleteRun, WaitForPermission,
     AwaitPlanConfirmation, Park, EvictSuspended, ClearSessionRuntime, vars
<1>2. ASSUME NEW d \in Dispatchers, d = run.owner, dispatch' = At(d, "returning")
      PROVE  \A m \in Messages : OnItsWay(m)' <=> OnItsWay(m)
  <2>1. dispatch[d].at = "running" /\ dispatch \in [Dispatchers -> Hands]
    BY <1>2 DEF QueueInv, TypeOK, Exclusion, DispatchWaitsForItsRun
  <2>2. latest = dispatch[d].msg
    BY <2>1 DEF QueueInv, Copies, HandsAreSound, InHand
  <2>3. /\ dispatch'[d].at = "returning" /\ dispatch'[d].msg = dispatch[d].msg
        /\ \A e \in Dispatchers \ {d} : dispatch'[e] = dispatch[e]
    BY <1>2, <2>1, AtStep DEF Places
  <2> QED
    BY <1>1, <2>1, <2>2, <2>3 DEF OnItsWay
<1>3. \A m \in Messages : OnItsWay(m)' <=> OnItsWay(m)
  BY <1>1, <1>2, WayStays
<1>4. \A m \in Messages : Place(m)' = Place(m)
  BY <1>1, <1>3, SamePlace DEF queueVars, historyVars
<1> QED
  BY <1>1, <1>4, NoneMoves DEF historyVars

\* The session keeps the promise that QueuePromise makes to the user, whatever
\* commands, dispatches, runs, steers, deletions and crashes do, and however
\* many messages and dispatchers there are: every step of the code is one step
\* of the promise, or none.
THEOREM KeepsDeliveryPromise == Spec => ImplementsDelivery
<1>1. Init => Delivery!DeliveryInit
  <2> SUFFICES ASSUME Init PROVE Delivery!DeliveryInit
    OBVIOUS
  <2>1. \A m \in Messages : Place(m) = "new"
    BY DEF Init, Place
  <2> QED
    BY <2>1 DEF Init, Delivery!DeliveryInit
<1>2. Init => GoneForGood
  BY DEF Init, GoneForGood
<1>3. QueueInv /\ GoneForGood /\ [Next]_vars
        => [Delivery!DeliveryNext]_(Delivery!deliveryVars)
  BY CommandsDeliver, DispatchDelivers, StartsDeliver, SteersDeliver, CrashDelivers,
     DeletionDelivers, OthersDeliver DEF Next
<1> QED
  BY <1>1, <1>2, <1>3, GoneStep, QueueInvariant, PTL
     DEF Spec, ImplementsDelivery, Delivery!DeliverySpec
================================================================================
