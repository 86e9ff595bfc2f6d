----------------------------- MODULE CommandSession -----------------------------
(***************************************************************************)
(* DockerCommandSession (sandbox/commands.py): the container that the      *)
(* commands of one run share.  It is created and replaced as the network   *)
(* policy of a phase demands, gets what has changed on the host before     *)
(* every command, and is removed with its images when the session closes.  *)
(*                                                                         *)
(* Docker itself is external: it holds a container and temporary images,   *)
(* and each of its operations may fail, in which case it has no effect.    *)
(***************************************************************************)
EXTENDS Naturals, FiniteSets

CONSTANTS
  Files,        \* paths of the workspace
  Contents,     \* what a file on the host may contain
  Configs,      \* settings and the mode that is requested, see ConfigType
  MaxEdits,     \* bound on edits of the host's files
  MaxCommands   \* bound on commands

Absent == "absent"   \* no such file
Output == "output"   \* content that a command has written
Untouched == "untouched"

ConfigType ==
  [ requested : {"unset", "none", "bridge"},  \* mode given to the session
    global : {"none", "bridge"},              \* SANDBOX_NETWORK_MODE
    setup : BOOLEAN,                          \* network allowed during setup
    tests : BOOLEAN,                          \* network allowed during tests
    hosts : BOOLEAN ]                         \* SANDBOX_ALLOWED_HOSTS is not empty

SessionAssumption ==
  /\ Files # {} /\ {Absent, Output} \cap Contents = {}
  /\ Configs \subseteq ConfigType
  /\ MaxEdits \in Nat /\ MaxCommands \in Nat

VARIABLES
  config,
  pc,
  phase,       \* phase of the command being executed
  closed,
  held,        \* self.container is not None
  mode,        \* self.mode
  connected,   \* self.client is not None
  image,       \* files in self.image
  images,      \* self.images: number of snapshots to remove
  previous,    \* digests of the last synchronisation
  hashed,      \* digests of the current one
  host,        \* the workspace
  docker,      \* the container, or NoContainer
  kept,        \* snapshots that Docker keeps
  raised,      \* close has raised an exception
  edits, commands,
  written,     \* what commands have made of a file since it was copied last
  raced,       \* files edited between their hashing and their upload
  broken       \* a command has timed out, failed to be executed or close was called

selfVars == <<closed, held, mode, connected, image, images, previous, hashed>>
boundVars == <<edits, commands>>
historyVars == <<written, raced, broken>>
vars == <<config, pc, phase, selfVars, host, docker, kept, raised, boundVars,
          historyVars>>

Phases == {"setup", "test"}

NoFiles == [f \in Files |-> Absent]

NoContainer == [mode |-> "no container"]

ContainerType == [mode : {"none", "bridge"}, files : [Files -> Contents \cup {Absent, Output}]]

TypeOK ==
  /\ config \in Configs
  /\ pc \in {"idle", "ensure", "commit", "drop", "create", "remove",
             "upload", "run", "over"}
  /\ phase \in Phases
  /\ closed \in BOOLEAN /\ held \in BOOLEAN /\ connected \in BOOLEAN
  /\ mode \in {"unset", "none", "bridge"}
  /\ image \in [Files -> Contents \cup {Absent, Output}]
  /\ images \in 0..MaxCommands
  /\ previous \in [Files -> Contents \cup {Absent}]
  /\ hashed \in [Files -> Contents \cup {Absent}]
  /\ host \in [Files -> Contents \cup {Absent}]
  /\ docker \in ContainerType \cup {NoContainer}
  /\ kept \in 0..MaxCommands
  /\ raised \in BOOLEAN
  /\ edits \in 0..MaxEdits /\ commands \in 0..MaxCommands
  /\ written \in [Files -> {Untouched, Absent, Output}] /\ raced \subseteq Files /\ broken \in BOOLEAN

Init ==
  /\ config \in Configs
  /\ pc = "idle" /\ phase = "setup"
  /\ closed = FALSE /\ held = FALSE /\ mode = "unset" /\ connected = FALSE
  /\ image = NoFiles /\ images = 0
  /\ previous = NoFiles /\ hashed = NoFiles
  /\ host \in [Files -> Contents]
  /\ docker = NoContainer /\ kept = 0 /\ raised = FALSE
  /\ edits = 0 /\ commands = 0
  /\ written = [f \in Files |-> Untouched] /\ raced = {} /\ broken = FALSE

-----------------------------------------------------------------------------
(* resolve_network_policy.                                                 *)

Wanted == IF config.requested = "unset" THEN config.global ELSE config.requested

Enabled(p) ==
  /\ IF p = "setup" THEN config.setup ELSE config.tests
  /\ Wanted = "bridge" \/ (p = "setup" /\ config.requested = "unset")

Refused(p) == Enabled(p) /\ config.hosts

Effective(p) == IF Enabled(p) THEN "bridge" ELSE "none"

-----------------------------------------------------------------------------
(* execute.                                                                *)

Frame == UNCHANGED <<config, phase, host, raised, edits>>

(* The exception handler of execute.                                       *)
Break ==
  /\ pc' = "idle" /\ closed' = TRUE /\ broken' = TRUE
  /\ UNCHANGED <<commands, written, raced>>

Kept(next) == pc' = next /\ UNCHANGED <<closed, broken, commands, written, raced>>

Request ==
  /\ pc = "idle" /\ commands < MaxCommands
  /\ \E p \in Phases :
       /\ phase' = p
       /\ IF Refused(p) \/ closed
          THEN pc' = "idle" /\ closed' = TRUE /\ broken' = TRUE
          ELSE pc' = "ensure" /\ UNCHANGED <<closed, broken>>
  /\ commands' = commands + 1
  /\ UNCHANGED <<config, held, mode, connected, image, images, previous, hashed,
                 host, docker, kept, raised, edits, written, raced>>

Fits == held /\ mode = Effective(phase)

(* Connecting may fail before or after the client is there.                *)
Ensure ==
  /\ pc = "ensure"
  /\ \/ /\ connected' = TRUE
        /\ Kept(IF Fits THEN "remove" ELSE IF held THEN "commit" ELSE "create")
     \/ /\ ~connected /\ connected' \in BOOLEAN
        /\ Break
  /\ Frame /\ UNCHANGED <<held, mode, image, images, previous, hashed, docker, kept>>

(* Mutant: the snapshot is not noted for removal.                          *)
CommitUnnoted ==
  /\ pc = "commit"
  /\ \/ /\ image' = docker.files /\ kept' = kept + 1 /\ images' = images
        /\ Kept("drop")
     \/ Break /\ UNCHANGED <<image, images, kept>>
  /\ Frame /\ UNCHANGED <<held, mode, connected, previous, hashed, docker>>

(* Stopping may fail, and so may taking the snapshot.                      *)
Commit ==
  /\ pc = "commit"
  /\ \/ /\ image' = docker.files /\ images' = images + 1 /\ kept' = kept + 1
        /\ Kept("drop")
     \/ Break /\ UNCHANGED <<image, images, kept>>
  /\ Frame /\ UNCHANGED <<held, mode, connected, previous, hashed, docker>>

Drop ==
  /\ pc = "drop"
  /\ \/ /\ docker' = NoContainer /\ held' = FALSE
        /\ Kept("create")
     \/ Break /\ UNCHANGED <<docker, held>>
  /\ Frame /\ UNCHANGED <<mode, connected, image, images, previous, hashed, kept>>

(* A container that was created and does not start is held all the same.   *)
Create ==
  /\ pc = "create"
  /\ \/ /\ docker' = [mode |-> Effective(phase), files |-> image]
        /\ held' = TRUE
        /\ \/ mode' = Effective(phase) /\ Kept("remove")
           \/ UNCHANGED mode /\ Break
     \/ Break /\ UNCHANGED <<docker, held, mode>>
  /\ Frame /\ UNCHANGED <<connected, image, images, previous, hashed, kept>>

-----------------------------------------------------------------------------
(* _synchronize: the files are hashed, what has gone is removed, and what  *)
(* has another digest than last time is put into an archive.               *)

Copied(files) ==
  [f \in Files |-> IF f \in files THEN Untouched ELSE written[f]]

Gone == {f \in Files : previous[f] # Absent /\ host[f] = Absent}

Remove ==
  /\ pc = "remove"
  /\ hashed' = host
  /\ \/ /\ docker' = [docker EXCEPT !.files =
             [f \in Files |-> IF f \in Gone THEN Absent ELSE @[f]]]
        /\ pc' = "upload"
        /\ written' = Copied(Gone) /\ raced' = raced \ Gone
        /\ UNCHANGED <<closed, broken, commands>>
     \/ Break /\ UNCHANGED docker
  /\ Frame /\ UNCHANGED <<held, mode, connected, image, images, previous, kept>>

Changed == {f \in Files : hashed[f] # Absent /\ previous[f] # hashed[f]}

(* What is archived is read again.                                         *)
Upload ==
  /\ pc = "upload"
  /\ \/ /\ \A f \in Changed : host[f] # Absent
        /\ docker' = [docker EXCEPT !.files =
             [f \in Files |-> IF f \in Changed THEN host[f] ELSE @[f]]]
        /\ previous' = hashed
        /\ pc' = "run"
        /\ written' = Copied(Changed)
        /\ raced' = (raced \ Changed) \cup {f \in Changed : host[f] # hashed[f]}
        /\ UNCHANGED <<closed, broken, commands>>
     \/ Break /\ UNCHANGED <<docker, previous>>
  /\ Frame /\ UNCHANGED <<held, mode, connected, image, images, hashed, kept>>

-----------------------------------------------------------------------------

(* A timed-out container is killed, never reused for another command.      *)
TimesOut == closed' = TRUE /\ broken' = TRUE

(* The command may write and delete files of the container.  It ends, or   *)
(* it exceeds its time and is killed.  (An exception that is not Docker's  *)
(* own leaves execute altogether: the session stays as after an end.)      *)
Run ==
  /\ pc = "run"
  /\ \E files \in SUBSET Files, to \in {Absent, Output} :
       /\ docker' = [docker EXCEPT !.files = [f \in Files |->
            IF f \in files THEN to ELSE @[f]]]
       /\ written' = [f \in Files |-> IF f \in files THEN to ELSE written[f]]
  /\ TimesOut \/ UNCHANGED <<closed, broken>>
  /\ pc' = "idle"
  /\ Frame
  /\ UNCHANGED <<held, mode, connected, image, images, previous, hashed, kept,
                 commands, raced>>

(* The container and every snapshot are tried, whatever fails.             *)
Close ==
  /\ pc = "idle"
  /\ closed' = TRUE /\ broken' = TRUE
  /\ \/ held /\ docker' = NoContainer /\ held' = FALSE
     \/ UNCHANGED <<docker, held>>
  /\ \E left \in 0..images :
       /\ kept' = IF connected THEN kept - (images - left) ELSE kept
       /\ raised' = (held' \/ (connected /\ left # 0))
  /\ images' = IF connected THEN 0 ELSE images
  /\ connected' = FALSE
  /\ pc' = "over"
  /\ UNCHANGED <<config, phase, mode, image, previous, hashed, host, boundVars,
                 written, raced>>

(* The agent, a client or restore_candidate, also while a command runs.    *)
EditHost ==
  /\ pc # "over" /\ edits < MaxEdits
  /\ edits' = edits + 1
  /\ \E f \in Files, c \in Contents \cup {Absent} :
       c # host[f] /\ host' = [host EXCEPT ![f] = c]
  /\ UNCHANGED <<config, pc, phase, selfVars, docker, kept, raised, commands,
                 historyVars>>

Terminated == pc = "over" /\ UNCHANGED vars

Next ==
  \/ Request \/ Ensure \/ Commit \/ Drop \/ Create \/ Remove \/ Upload \/ Run
  \/ Close \/ EditHost \/ Terminated

Spec == Init /\ [][Next]_vars

-----------------------------------------------------------------------------
(* Properties.                                                             *)

(* Whatever step of Docker has failed, a session that closes without an    *)
(* exception has left neither a container nor a snapshot behind (close;    *)
(* "Temporary images and containers are removed when the session closes",  *)
(* docs/sandbox.md).                                                       *)
NothingLeaks ==
  pc = "over" /\ ~raised => docker = NoContainer /\ kept = 0

(* A command has the network only if its own phase may have it and nobody  *)
(* has asked for less, whatever phase the container was made for (execute, *)
(* _ensure_container).                                                     *)
NetworkIsPermitted ==
  pc = "run" /\ docker.mode = "bridge" =>
    /\ config.requested # "none" /\ ~config.hosts
    /\ phase = "setup" => config.setup
    /\ phase = "test" => config.tests /\ "bridge" \in {config.requested, config.global}

(* When a command starts, every file that no command has written has the   *)
(* content that was hashed for it, also in a container that replaces       *)
(* another one (_synchronize copies differences only).                     *)
Synchronised ==
  pc = "run" =>
    \A f \in Files : written[f] = Untouched /\ f \notin raced
                        => docker.files[f] = hashed[f]

(* What a command has written or deleted is there for the next ones, also  *)
(* behind a change of the network, until the host changes that file        *)
(* ("Installed dependencies survive", docs/sandbox.md).                    *)
OutputsSurvive ==
  pc = "run" =>
    \A f \in Files : written[f] # Untouched => docker.files[f] = written[f]

(* No command is run in a session in which one has timed out or could not  *)
(* be set up, or that has been closed (execute).                           *)
NeverReused == pc = "run" => ~broken

(* A session that closes without an exception leaves neither a container   *)
(* nor a snapshot behind, a command has the network only if its own phase  *)
(* may have it, a session that has failed runs nothing more, and a command *)
(* sees the files of the host and what earlier commands have made of them, *)
(* whichever step of Docker fails (DockerCommandSession).                  *)
SessionIsClean ==
  TypeOK /\ NothingLeaks /\ NetworkIsPermitted /\ NeverReused /\ Synchronised
  /\ OutputsSurvive

-----------------------------------------------------------------------------
(* Statements of the documentation.                                        *)

(* "Host edits are copied into Docker" (docs/sandbox.md): a command that   *)
(* starts without edits since the hashing sees every file of the host that *)
(* no command has written.                                                 *)
HostEditsAreCopied ==
  pc = "run" /\ host = hashed =>
    \A f \in Files : written[f] = Untouched => docker.files[f] = host[f]

=============================================================================
