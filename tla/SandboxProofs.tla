----------------------------- MODULE SandboxProofs -----------------------------
(***************************************************************************)
(* Proofs about CommandSession for any workspace, any settings and any     *)
(* number of commands and edits: nothing is left behind by a session that  *)
(* closes without an exception, a command has no network but its own, sees *)
(* the files of the host and what commands have made of them, and runs in  *)
(* no session that has failed.  And about SandboxRun and FlakinessCheck,   *)
(* for any number of commands and repetitions: a verdict rests on whole    *)
(* repetitions that were run.  And about TestFailureAnalysis, for any      *)
(* number of readers, rows and outputs: analyses that overlap agree, hide  *)
(* what is hidden, and repeat an event at most once for each of them.      *)
(***************************************************************************)
EXTENDS CommandSession, FlakinessCheck, TestFailureAnalysis, FiniteSetTheorems, SequenceTheorems,
        TLAPS

(***************************************************************************)
(* The container session.                                                  *)
(***************************************************************************)

(* Locations of execute, and those at which there is a container.          *)
Busy == {"ensure", "commit", "drop", "create", "remove", "upload", "run"}

Holding == {"commit", "drop", "remove", "upload", "run"}

(* What the session holds is what Docker has, until it closes.             *)
HoldsContainer == held = TRUE <=> docker \in ContainerType

(* Every snapshot is noted, at most one per command, by a client.          *)
SnapshotsNoted ==
  /\ pc # "over" => kept = images
  /\ pc # "over" /\ connected = FALSE => images = 0
  /\ pc \in Busy \ {"ensure"} => connected = TRUE
  /\ images <= commands
  /\ pc \in {"ensure", "commit"} => images < commands

(* A command is only taken up in a session that has not failed.            *)
OpenWhileBusy ==
  /\ closed = broken
  /\ pc \in Busy => closed = FALSE /\ ~Refused(phase)
  /\ pc = "over" => closed = TRUE

(* Where the container is, and for which network it was made.              *)
ContainerInPlace ==
  /\ pc \in Holding => held = TRUE
  /\ pc = "create" => held = FALSE
  /\ pc = "drop" => image = docker.files
  /\ closed = FALSE /\ held = TRUE => docker.mode = mode
  /\ pc \in {"remove", "upload", "run"} => docker.mode = Effective(phase)

(* The files of the container, or of the one that is made next.            *)
Present == IF held = TRUE THEN docker.files ELSE image

(* What a file is that no command has written: as it was copied last, or   *)
(* gone if _synchronize has just removed it.                               *)
Copy(f) ==
  IF pc = "upload" /\ hashed[f] = Absent THEN Absent ELSE previous[f]

FilesFollow ==
  /\ closed = FALSE =>
       \A f \in Files :
         /\ written[f] # Untouched => Present[f] = written[f]
         /\ written[f] = Untouched /\ f \notin raced => Present[f] = Copy(f)
  /\ pc = "run" => previous = hashed

SessionInv ==
  /\ TypeOK
  /\ HoldsContainer
  /\ SnapshotsNoted
  /\ OpenWhileBusy
  /\ ContainerInPlace
  /\ FilesFollow
  /\ NothingLeaks

-----------------------------------------------------------------------------
(* Helpers.                                                                *)

LEMMA EffectiveTyped ==
  ASSUME NEW p
  PROVE  Effective(p) \in {"none", "bridge"}
  BY DEF Effective

LEMMA NoContainerApart == NoContainer \notin ContainerType
  BY DEF NoContainer, ContainerType

LEMMA ContainerTyped ==
  ASSUME TypeOK, HoldsContainer, held = TRUE
  PROVE  /\ docker \in ContainerType
         /\ docker.mode \in {"none", "bridge"}
         /\ docker.files \in [Files -> Contents \cup {Absent, Output}]
  BY DEF HoldsContainer, ContainerType

(* Writing files of the container that is held.                            *)
LEMMA FilesWritten ==
  ASSUME TypeOK, HoldsContainer, held = TRUE,
         NEW files \in [Files -> Contents \cup {Absent, Output}],
         docker' = [docker EXCEPT !.files = files]
  PROVE  /\ docker' \in ContainerType
         /\ docker'.mode = docker.mode
         /\ docker'.files = files
  BY ContainerTyped DEF ContainerType

(* A step that breaks off leaves a session that takes up nothing more; what*)
(* it has done to the container and its snapshots is accounted for.        *)
LEMMA BrokenOff ==
  ASSUME SessionInv, TypeOK', HoldsContainer', SnapshotsNoted', Break
  PROVE  SessionInv'
  <1>1. pc' = "idle" /\ closed' = TRUE /\ broken' = TRUE
    BY DEF Break
  <1>2. OpenWhileBusy'
    BY <1>1 DEF OpenWhileBusy, Busy
  <1>3. ContainerInPlace'
    BY <1>1 DEF ContainerInPlace, Holding
  <1>4. FilesFollow'
    BY <1>1 DEF FilesFollow
  <1>5. NothingLeaks'
    BY <1>1 DEF NothingLeaks
  <1> QED
    BY <1>2, <1>3, <1>4, <1>5 DEF SessionInv

-----------------------------------------------------------------------------
(* One lemma per action.                                                   *)

LEMMA SessionInit ==
  ASSUME SessionAssumption, Init
  PROVE  SessionInv
  <1>1. /\ config \in Configs
        /\ image \in [Files -> Contents \cup {Absent, Output}]
        /\ previous \in [Files -> Contents \cup {Absent}]
        /\ hashed \in [Files -> Contents \cup {Absent}]
        /\ host \in [Files -> Contents \cup {Absent}]
        /\ written \in [Files -> {Untouched, Absent, Output}]
    BY DEF Init, NoFiles
  <1>2. closed \in BOOLEAN /\ held \in BOOLEAN /\ connected \in BOOLEAN
        /\ raised \in BOOLEAN /\ broken \in BOOLEAN
    BY Zenon DEF Init
  <1>3. TypeOK
    BY <1>1, <1>2 DEF SessionAssumption, Init, TypeOK, Phases
  <1>4. HoldsContainer
    BY NoContainerApart DEF Init, HoldsContainer
  <1>5. FilesFollow
    BY DEF Init, FilesFollow, Present, Copy, NoFiles
  <1>6. SnapshotsNoted
    BY DEF Init, SnapshotsNoted, Busy
  <1>7. OpenWhileBusy
    BY DEF Init, OpenWhileBusy, Busy
  <1>8. ContainerInPlace
    BY DEF Init, ContainerInPlace, Holding
  <1> QED
    BY <1>3, <1>4, <1>5, <1>6, <1>7, <1>8 DEF Init, SessionInv, NothingLeaks

LEMMA RequestKeeps ==
  ASSUME SessionAssumption, SessionInv, Request
  PROVE  SessionInv'
  <1>1. PICK p \in Phases :
          /\ phase' = p
          /\ IF Refused(p) \/ closed
             THEN pc' = "idle" /\ closed' = TRUE /\ broken' = TRUE
             ELSE pc' = "ensure" /\ UNCHANGED <<closed, broken>>
    BY Zenon DEF Request
  <1>2. /\ pc = "idle" /\ commands < MaxCommands /\ commands' = commands + 1
        /\ UNCHANGED <<config, held, mode, connected, image, images, previous, hashed,
                       host, docker, kept, raised, edits, written, raced>>
    BY DEF Request
  <1>3. \/ pc' = "idle" /\ closed' = TRUE /\ broken' = TRUE
        \/ /\ pc' = "ensure" /\ ~Refused(p) /\ closed = FALSE
           /\ UNCHANGED <<closed, broken>>
    <2>1. closed \in BOOLEAN
      BY DEF SessionInv, TypeOK
    <2> QED
      BY <1>1, <2>1, Zenon
  <1>4. TypeOK'
    <2>1. commands' \in 0..MaxCommands
      BY <1>2 DEF SessionAssumption, SessionInv, TypeOK
    <2>2. closed' \in BOOLEAN /\ broken' \in BOOLEAN
      BY <1>3, Zenon DEF SessionInv, TypeOK
    <2> QED
      BY <1>1, <1>2, <1>3, <2>1, <2>2 DEF SessionInv, TypeOK
  <1>5. HoldsContainer'
    BY <1>2 DEF SessionInv, HoldsContainer
  <1>6. SnapshotsNoted'
    BY <1>2, <1>3 DEF SessionInv, TypeOK, SnapshotsNoted, Busy
  <1>7. OpenWhileBusy'
    <2>1. pc' = "ensure" => ~Refused(phase)'
      BY <1>1, <1>2, <1>3 DEF Refused, Enabled, Wanted
    <2> QED
      BY <1>3, <2>1 DEF SessionInv, OpenWhileBusy, Busy
  <1>8. ContainerInPlace'
    BY <1>2, <1>3 DEF SessionInv, ContainerInPlace, Holding
  <1>9. FilesFollow'
    BY <1>2, <1>3 DEF SessionInv, FilesFollow, Present, Copy
  <1> QED
    BY <1>3, <1>4, <1>5, <1>6, <1>7, <1>8, <1>9 DEF SessionInv, NothingLeaks

LEMMA EnsureKeeps ==
  ASSUME SessionAssumption, SessionInv, Ensure
  PROVE  SessionInv'
  <1>1. /\ pc = "ensure" /\ connected' \in BOOLEAN
        /\ UNCHANGED <<config, phase, host, raised, edits, held, mode, image, images,
                       previous, hashed, docker, kept>>
    BY DEF Ensure, Frame
  <1>2. CASE connected = FALSE /\ Break
    <2>1. TypeOK'
      BY <1>1, <1>2 DEF SessionInv, TypeOK, Break
    <2>2. HoldsContainer' /\ SnapshotsNoted'
      BY <1>1, <1>2 DEF SessionInv, HoldsContainer, SnapshotsNoted, Break, Busy
    <2> QED
      BY <1>2, <2>1, <2>2, BrokenOff
  <1>3. CASE /\ connected' = TRUE
             /\ Kept(IF Fits THEN "remove" ELSE IF held THEN "commit" ELSE "create")
    <2>1. /\ UNCHANGED <<closed, broken, commands, written, raced>>
          /\ \/ pc' = "remove" /\ held = TRUE /\ mode = Effective(phase)
             \/ pc' = "commit" /\ held = TRUE
             \/ pc' = "create" /\ held = FALSE
      <3>1. held \in BOOLEAN
        BY DEF SessionInv, TypeOK
      <3> QED
        BY <1>3, <3>1, Zenon DEF Kept, Fits
    <2>2. closed = FALSE /\ ~Refused(phase)
      BY <1>1 DEF SessionInv, OpenWhileBusy, Busy
    <2>3. TypeOK'
      BY <1>1, <1>3, <2>1 DEF SessionInv, TypeOK
    <2>4. HoldsContainer' /\ SnapshotsNoted'
      BY <1>1, <1>3, <2>1 DEF SessionInv, HoldsContainer, SnapshotsNoted, Busy
    <2>5. OpenWhileBusy'
      <3>1. ~Refused(phase)'
        BY <1>1, <2>2 DEF Refused, Enabled, Wanted
      <3> QED
        BY <2>1, <2>2, <3>1 DEF SessionInv, OpenWhileBusy
    <2>6. ContainerInPlace'
      <3>1. Effective(phase)' = Effective(phase)
        BY <1>1 DEF Effective, Enabled, Wanted
      <3> QED
        BY <1>1, <2>1, <2>2, <3>1 DEF SessionInv, ContainerInPlace, Holding
    <2>7. FilesFollow'
      BY <1>1, <2>1 DEF SessionInv, FilesFollow, Present, Copy
    <2> QED
      BY <2>1, <2>3, <2>4, <2>5, <2>6, <2>7 DEF SessionInv, NothingLeaks
  <1> QED
    BY <1>2, <1>3, Zenon DEF Ensure, SessionInv, TypeOK

(* Within a command that goes on, whichever location comes next.           *)
LEMMA GoesOn ==
  ASSUME SessionInv, pc \in Busy, pc' \in Busy,
         UNCHANGED <<config, phase, closed, broken>>
  PROVE  OpenWhileBusy' /\ NothingLeaks' /\ closed' = FALSE
  <1>1. closed = FALSE /\ ~Refused(phase) /\ closed = broken
    BY DEF SessionInv, OpenWhileBusy
  <1>2. ~Refused(phase)'
    BY <1>1 DEF Refused, Enabled, Wanted
  <1>3. OpenWhileBusy'
    BY <1>1, <1>2, Zenon DEF OpenWhileBusy, Busy
  <1>4. NothingLeaks'
    BY DEF NothingLeaks, Busy
  <1> QED
    BY <1>1, <1>3, <1>4

LEMMA CommitKeeps ==
  ASSUME SessionAssumption, SessionInv, Commit
  PROVE  SessionInv'
  <1>1. /\ pc = "commit"
        /\ UNCHANGED <<config, phase, host, raised, edits, held, mode, connected,
                       previous, hashed, docker>>
    BY DEF Commit, Frame
  <1>2. CASE Break /\ UNCHANGED <<image, images, kept>>
    <2>1. TypeOK'
      BY <1>1, <1>2 DEF SessionInv, TypeOK, Break
    <2>2. HoldsContainer' /\ SnapshotsNoted'
      BY <1>1, <1>2 DEF SessionInv, HoldsContainer, SnapshotsNoted, Break, Busy
    <2> QED
      BY <1>2, <2>1, <2>2, BrokenOff
  <1>3. CASE /\ image' = docker.files /\ images' = images + 1 /\ kept' = kept + 1
             /\ Kept("drop")
    <2>1. pc' = "drop" /\ UNCHANGED <<closed, broken, commands, written, raced>>
      BY <1>3 DEF Kept
    <2>2. held = TRUE
      BY <1>1 DEF SessionInv, ContainerInPlace, Holding
    <2>3. docker.files \in [Files -> Contents \cup {Absent, Output}]
      BY <2>2, ContainerTyped DEF SessionInv
    <2>4. SnapshotsNoted'
      BY <1>1, <1>3, <2>1 DEF SessionInv, TypeOK, SnapshotsNoted, Busy
    <2>5. images' \in 0..MaxCommands /\ kept' \in 0..MaxCommands
      BY <1>1, <1>3, <2>1
      DEF SessionAssumption, SessionInv, TypeOK, SnapshotsNoted, Busy
    <2>6. TypeOK'
      BY <1>1, <1>3, <2>1, <2>3, <2>5 DEF SessionInv, TypeOK
    <2>7. HoldsContainer'
      BY <1>1 DEF SessionInv, HoldsContainer
    <2>8. ContainerInPlace'
      BY <1>1, <1>3, <2>1, <2>2 DEF SessionInv, ContainerInPlace, Holding
    <2>9. FilesFollow'
      BY <1>1, <2>1, <2>2 DEF SessionInv, FilesFollow, Present, Copy
    <2> QED
      BY <1>1, <2>1, <2>4, <2>6, <2>7, <2>8, <2>9, GoesOn DEF SessionInv, Busy
  <1> QED
    BY <1>2, <1>3, Zenon DEF Commit

LEMMA DropKeeps ==
  ASSUME SessionAssumption, SessionInv, Drop
  PROVE  SessionInv'
  <1>1. /\ pc = "drop"
        /\ UNCHANGED <<config, phase, host, raised, edits, mode, connected, image,
                       images, previous, hashed, kept>>
    BY DEF Drop, Frame
  <1>2. CASE Break /\ UNCHANGED <<docker, held>>
    <2>1. TypeOK'
      BY <1>1, <1>2 DEF SessionInv, TypeOK, Break
    <2>2. HoldsContainer' /\ SnapshotsNoted'
      BY <1>1, <1>2 DEF SessionInv, HoldsContainer, SnapshotsNoted, Break, Busy
    <2> QED
      BY <1>2, <2>1, <2>2, BrokenOff
  <1>3. CASE docker' = NoContainer /\ held' = FALSE /\ Kept("create")
    <2>1. pc' = "create" /\ UNCHANGED <<closed, broken, commands, written, raced>>
      BY <1>3 DEF Kept
    <2>2. held = TRUE /\ image = docker.files
      BY <1>1 DEF SessionInv, ContainerInPlace, Holding
    <2>3. TypeOK'
      BY <1>1, <1>3, <2>1 DEF SessionInv, TypeOK
    <2>4. HoldsContainer'
      BY <1>3, NoContainerApart DEF HoldsContainer
    <2>5. SnapshotsNoted'
      BY <1>1, <2>1 DEF SessionInv, SnapshotsNoted, Busy
    <2>6. ContainerInPlace'
      BY <1>3, <2>1 DEF ContainerInPlace, Holding
    <2>7. FilesFollow'
      BY <1>1, <1>3, <2>1, <2>2 DEF SessionInv, FilesFollow, Present, Copy
    <2> QED
      BY <1>1, <2>1, <2>3, <2>4, <2>5, <2>6, <2>7, GoesOn DEF SessionInv, Busy
  <1> QED
    BY <1>2, <1>3, Zenon DEF Drop

LEMMA CreateKeeps ==
  ASSUME SessionAssumption, SessionInv, Create
  PROVE  SessionInv'
  <1>1. /\ pc = "create"
        /\ UNCHANGED <<config, phase, host, raised, edits, connected, image, images,
                       previous, hashed, kept>>
    BY DEF Create, Frame
  <1>2. held = FALSE
    BY <1>1 DEF SessionInv, ContainerInPlace
  <1>3. CASE Break /\ UNCHANGED <<docker, held, mode>>
    <2>1. TypeOK'
      BY <1>1, <1>3 DEF SessionInv, TypeOK, Break
    <2>2. HoldsContainer' /\ SnapshotsNoted'
      BY <1>1, <1>3 DEF SessionInv, HoldsContainer, SnapshotsNoted, Break, Busy
    <2> QED
      BY <1>3, <2>1, <2>2, BrokenOff
  <1>4. CASE /\ docker' = [mode |-> Effective(phase), files |-> image]
             /\ held' = TRUE
             /\ \/ mode' = Effective(phase) /\ Kept("remove")
                \/ UNCHANGED mode /\ Break
    <2>1. docker' \in ContainerType
      BY <1>4, EffectiveTyped DEF SessionInv, TypeOK, ContainerType
    <2>2. HoldsContainer'
      BY <1>4, <2>1 DEF HoldsContainer
    <2>3. CASE UNCHANGED mode /\ Break
      <3>1. TypeOK'
        BY <1>1, <1>4, <2>1, <2>3 DEF SessionInv, TypeOK, Break
      <3>2. SnapshotsNoted'
        BY <1>1, <2>3 DEF SessionInv, SnapshotsNoted, Break, Busy
      <3> QED
        BY <2>2, <2>3, <3>1, <3>2, BrokenOff
    <2>4. CASE mode' = Effective(phase) /\ Kept("remove")
      <3>1. pc' = "remove" /\ UNCHANGED <<closed, broken, commands, written, raced>>
        BY <2>4 DEF Kept
      <3>2. mode' \in {"unset", "none", "bridge"}
        BY <2>4, EffectiveTyped
      <3>3. TypeOK'
        BY <1>1, <1>4, <2>1, <3>1, <3>2 DEF SessionInv, TypeOK
      <3>4. SnapshotsNoted'
        BY <1>1, <3>1 DEF SessionInv, SnapshotsNoted, Busy
      <3>5. docker'.mode = Effective(phase) /\ docker'.files = image
        BY <1>4
      <3>6. ContainerInPlace'
        <4>1. Effective(phase)' = Effective(phase)
          BY <1>1 DEF Effective, Enabled, Wanted
        <4> QED
          BY <1>4, <2>4, <3>1, <3>5, <4>1 DEF ContainerInPlace, Holding
      <3>7. FilesFollow'
        BY <1>1, <1>2, <1>4, <3>1, <3>5 DEF SessionInv, FilesFollow, Present, Copy
      <3> QED
        BY <1>1, <2>2, <3>1, <3>3, <3>4, <3>6, <3>7, GoesOn DEF SessionInv, Busy
    <2> QED
      BY <1>4, <2>3, <2>4
  <1> QED
    BY <1>3, <1>4, Zenon DEF Create

(* Files that are copied count as written by no command any more.          *)
LEMMA CopiedTyped ==
  ASSUME TypeOK, NEW files
  PROVE  /\ Copied(files) \in [Files -> {Untouched, Absent, Output}]
         /\ \A f \in Files : Copied(files)[f] = IF f \in files THEN Untouched ELSE written[f]
  BY DEF TypeOK, Copied

LEMMA RemoveKeeps ==
  ASSUME SessionAssumption, SessionInv, Remove
  PROVE  SessionInv'
  <1>1. /\ pc = "remove" /\ hashed' = host
        /\ UNCHANGED <<config, phase, host, raised, edits, held, mode, connected,
                       image, images, previous, kept>>
    BY DEF Remove, Frame
  <1>2. hashed' \in [Files -> Contents \cup {Absent}]
    BY <1>1 DEF SessionInv, TypeOK
  <1>3. CASE Break /\ UNCHANGED docker
    <2>1. TypeOK'
      BY <1>1, <1>2, <1>3 DEF SessionInv, TypeOK, Break
    <2>2. HoldsContainer' /\ SnapshotsNoted'
      BY <1>1, <1>3 DEF SessionInv, HoldsContainer, SnapshotsNoted, Break, Busy
    <2> QED
      BY <1>3, <2>1, <2>2, BrokenOff
  <1>4. CASE /\ docker' = [docker EXCEPT !.files =
                  [f \in Files |-> IF f \in Gone THEN Absent ELSE @[f]]]
             /\ pc' = "upload"
             /\ written' = Copied(Gone) /\ raced' = raced \ Gone
             /\ UNCHANGED <<closed, broken, commands>>
    <2>1. TypeOK /\ HoldsContainer /\ held = TRUE
      BY <1>1 DEF SessionInv, ContainerInPlace, Holding
    <2> DEFINE files == [f \in Files |-> IF f \in Gone THEN Absent ELSE docker.files[f]]
    <2>2. files \in [Files -> Contents \cup {Absent, Output}]
      BY <2>1, ContainerTyped
    <2>3. docker' = [docker EXCEPT !.files = files]
      BY <1>4
    <2>4. \A f \in Files : files[f] = IF f \in Gone THEN Absent ELSE docker.files[f]
      OBVIOUS
    <2> HIDE DEF files
    <2>5. docker' \in ContainerType /\ docker'.mode = docker.mode /\ docker'.files = files
      BY <2>1, <2>2, <2>3, FilesWritten
    <2>6. /\ written' \in [Files -> {Untouched, Absent, Output}]
          /\ \A f \in Files : written'[f] = IF f \in Gone THEN Untouched ELSE written[f]
      BY <1>4, <2>1, CopiedTyped
    <2>7. TypeOK'
      BY <1>1, <1>2, <1>4, <2>5, <2>6 DEF SessionInv, TypeOK
    <2>8. HoldsContainer'
      BY <1>1, <2>1, <2>5 DEF HoldsContainer
    <2>9. SnapshotsNoted'
      BY <1>1, <1>4 DEF SessionInv, SnapshotsNoted, Busy
    <2>10. ContainerInPlace'
      <3>1. Effective(phase)' = Effective(phase)
        BY <1>1 DEF Effective, Enabled, Wanted
      <3> QED
        BY <1>1, <1>4, <2>5, <3>1 DEF SessionInv, ContainerInPlace, Holding
    <2>11. FilesFollow'
      <3>1. closed = FALSE
        BY <1>1 DEF SessionInv, OpenWhileBusy, Busy
      <3>2. \A f \in Files :
              /\ written[f] # Untouched => docker.files[f] = written[f]
              /\ written[f] = Untouched /\ f \notin raced => docker.files[f] = previous[f]
        BY <1>1, <2>1, <3>1 DEF SessionInv, FilesFollow, Present, Copy
      <3>3. Present' = files
        BY <1>1, <2>1, <2>5 DEF Present
      <3>4. \A f \in Files :
              Copy(f)' = IF host[f] = Absent THEN Absent ELSE previous[f]
        BY <1>1, <1>4 DEF Copy
      <3>5. ASSUME NEW f \in Files
            PROVE  /\ written'[f] # Untouched => files[f] = written'[f]
                   /\ written'[f] = Untouched /\ f \notin raced' => files[f] = Copy(f)'
        BY <1>4, <2>4, <2>6, <3>2, <3>4 DEF Gone
      <3> QED
        BY <1>4, <3>3, <3>5 DEF FilesFollow
    <2> QED
      BY <1>1, <1>4, <2>7, <2>8, <2>9, <2>10, <2>11, GoesOn DEF SessionInv, Busy
  <1> QED
    BY <1>3, <1>4, Zenon DEF Remove

LEMMA UploadKeeps ==
  ASSUME SessionAssumption, SessionInv, Upload
  PROVE  SessionInv'
  <1>1. /\ pc = "upload"
        /\ UNCHANGED <<config, phase, host, raised, edits, held, mode, connected,
                       image, images, hashed, kept>>
    BY DEF Upload, Frame
  <1>2. CASE Break /\ UNCHANGED <<docker, previous>>
    <2>1. TypeOK'
      BY <1>1, <1>2 DEF SessionInv, TypeOK, Break
    <2>2. HoldsContainer' /\ SnapshotsNoted'
      BY <1>1, <1>2 DEF SessionInv, HoldsContainer, SnapshotsNoted, Break, Busy
    <2> QED
      BY <1>2, <2>1, <2>2, BrokenOff
  <1>3. CASE /\ docker' = [docker EXCEPT !.files =
                  [f \in Files |-> IF f \in Changed THEN host[f] ELSE @[f]]]
             /\ previous' = hashed
             /\ pc' = "run"
             /\ written' = Copied(Changed)
             /\ raced' = (raced \ Changed) \cup {f \in Changed : host[f] # hashed[f]}
             /\ UNCHANGED <<closed, broken, commands>>
    <2>1. TypeOK /\ HoldsContainer /\ held = TRUE
      BY <1>1 DEF SessionInv, ContainerInPlace, Holding
    <2> DEFINE files == [f \in Files |-> IF f \in Changed THEN host[f] ELSE docker.files[f]]
    <2>2. files \in [Files -> Contents \cup {Absent, Output}]
      BY <2>1, ContainerTyped DEF TypeOK
    <2>3. docker' = [docker EXCEPT !.files = files]
      BY <1>3
    <2>4. \A f \in Files : files[f] = IF f \in Changed THEN host[f] ELSE docker.files[f]
      OBVIOUS
    <2> HIDE DEF files
    <2>5. docker' \in ContainerType /\ docker'.mode = docker.mode /\ docker'.files = files
      BY <2>1, <2>2, <2>3, FilesWritten
    <2>6. /\ written' \in [Files -> {Untouched, Absent, Output}]
          /\ \A f \in Files : written'[f] = IF f \in Changed THEN Untouched ELSE written[f]
      BY <1>3, <2>1, CopiedTyped
    <2>7. TypeOK'
      <3>1. raced' \subseteq Files
        BY <1>3, <2>1 DEF TypeOK, Changed
      <3> QED
        BY <1>1, <1>3, <2>5, <2>6, <3>1 DEF SessionInv, TypeOK
    <2>8. HoldsContainer'
      BY <1>1, <2>1, <2>5 DEF HoldsContainer
    <2>9. SnapshotsNoted'
      BY <1>1, <1>3 DEF SessionInv, SnapshotsNoted, Busy
    <2>10. ContainerInPlace'
      <3>1. Effective(phase)' = Effective(phase)
        BY <1>1 DEF Effective, Enabled, Wanted
      <3> QED
        BY <1>1, <1>3, <2>5, <3>1 DEF SessionInv, ContainerInPlace, Holding
    <2>11. FilesFollow'
      <3>1. closed = FALSE
        BY <1>1 DEF SessionInv, OpenWhileBusy, Busy
      <3>2. \A f \in Files :
              /\ written[f] # Untouched => docker.files[f] = written[f]
              /\ written[f] = Untouched /\ f \notin raced
                   => docker.files[f] = IF hashed[f] = Absent THEN Absent ELSE previous[f]
        BY <1>1, <2>1, <3>1 DEF SessionInv, FilesFollow, Present, Copy
      <3>3. Present' = files
        BY <1>1, <2>1, <2>5 DEF Present
      <3>4. \A f \in Files : Copy(f)' = hashed[f]
        BY <1>3 DEF Copy
      <3>5. ASSUME NEW f \in Files
            PROVE  /\ written'[f] # Untouched => files[f] = written'[f]
                   /\ written'[f] = Untouched /\ f \notin raced' => files[f] = hashed[f]
        <4>1. CASE f \in Changed
          BY <1>3, <2>4, <2>6, <4>1
        <4>2. CASE f \notin Changed
          <5>1. hashed[f] = Absent \/ previous[f] = hashed[f]
            BY <4>2 DEF Changed
          <5> QED
            BY <1>3, <2>4, <2>6, <3>2, <4>2, <5>1
        <4> QED
          BY <4>1, <4>2
      <3> QED
        BY <1>1, <1>3, <3>3, <3>4, <3>5 DEF FilesFollow
    <2> QED
      BY <1>1, <1>3, <2>7, <2>8, <2>9, <2>10, <2>11, GoesOn DEF SessionInv, Busy
  <1> QED
    BY <1>2, <1>3, Zenon DEF Upload

LEMMA RunKeeps ==
  ASSUME SessionAssumption, SessionInv, Run
  PROVE  SessionInv'
  <1>1. /\ pc = "run" /\ pc' = "idle"
        /\ UNCHANGED <<config, phase, host, raised, edits, held, mode, connected, image,
                       images, previous, hashed, kept, commands, raced>>
    BY DEF Run, Frame
  <1>2. \/ closed' = TRUE /\ broken' = TRUE
        \/ UNCHANGED <<closed, broken>>
    BY DEF Run, TimesOut
  <1>3. PICK changed \in SUBSET Files, to \in {Absent, Output} :
          /\ docker' = [docker EXCEPT !.files = [f \in Files |->
               IF f \in changed THEN to ELSE @[f]]]
          /\ written' = [f \in Files |-> IF f \in changed THEN to ELSE written[f]]
    BY Zenon DEF Run
  <1>4. TypeOK /\ HoldsContainer /\ held = TRUE /\ closed = FALSE /\ closed = broken
    BY <1>1 DEF SessionInv, ContainerInPlace, OpenWhileBusy, Holding, Busy
  <1> DEFINE files == [f \in Files |-> IF f \in changed THEN to ELSE docker.files[f]]
  <1>5. files \in [Files -> Contents \cup {Absent, Output}]
    BY <1>4, ContainerTyped
  <1>6. docker' = [docker EXCEPT !.files = files]
    BY <1>3
  <1>7. \A f \in Files : files[f] = IF f \in changed THEN to ELSE docker.files[f]
    OBVIOUS
  <1> HIDE DEF files
  <1>8. docker' \in ContainerType /\ docker'.mode = docker.mode /\ docker'.files = files
    BY <1>4, <1>5, <1>6, FilesWritten
  <1>9. TypeOK'
    <2>1. written' \in [Files -> {Untouched, Absent, Output}]
      BY <1>3, <1>4 DEF TypeOK
    <2>2. closed' \in BOOLEAN /\ broken' \in BOOLEAN
      BY <1>2, <1>4, Zenon DEF TypeOK
    <2> QED
      BY <1>1, <1>4, <1>8, <2>1, <2>2 DEF TypeOK
  <1>10. HoldsContainer'
    BY <1>1, <1>4, <1>8 DEF HoldsContainer
  <1>11. SnapshotsNoted'
    BY <1>1 DEF SessionInv, SnapshotsNoted, Busy
  <1>12. OpenWhileBusy'
    BY <1>1, <1>2, <1>4 DEF OpenWhileBusy, Busy
  <1>13. ContainerInPlace'
    BY <1>1, <1>4, <1>8 DEF SessionInv, ContainerInPlace, Holding
  <1>14. FilesFollow'
    <2>1. \A f \in Files :
            /\ written[f] # Untouched => docker.files[f] = written[f]
            /\ written[f] = Untouched /\ f \notin raced => docker.files[f] = previous[f]
      BY <1>1, <1>4 DEF SessionInv, FilesFollow, Present, Copy
    <2>2. Present' = files
      BY <1>1, <1>4, <1>8 DEF Present
    <2>3. \A f \in Files : Copy(f)' = previous[f]
      BY <1>1 DEF Copy
    <2>4. ASSUME NEW f \in Files
          PROVE  /\ written'[f] # Untouched => files[f] = written'[f]
                 /\ written'[f] = Untouched /\ f \notin raced' => files[f] = previous[f]
      <3>1. to # Untouched
        BY DEF Untouched, Absent, Output
      <3> QED
        BY <1>1, <1>3, <1>7, <2>1, <3>1
    <2> QED
      BY <1>1, <2>2, <2>3, <2>4 DEF FilesFollow
  <1>15. NothingLeaks'
    BY <1>1 DEF NothingLeaks
  <1> QED
    BY <1>9, <1>10, <1>11, <1>12, <1>13, <1>14, <1>15 DEF SessionInv

LEMMA CloseKeeps ==
  ASSUME SessionAssumption, SessionInv, Close
  PROVE  SessionInv'
  <1>1. /\ pc = "idle" /\ pc' = "over"
        /\ closed' = TRUE /\ broken' = TRUE /\ connected' = FALSE
        /\ images' = IF connected THEN 0 ELSE images
        /\ UNCHANGED <<config, phase, mode, image, previous, hashed, host, edits,
                       commands, written, raced>>
    BY DEF Close, boundVars
  <1>2. \/ held /\ docker' = NoContainer /\ held' = FALSE
        \/ UNCHANGED <<docker, held>>
    BY DEF Close
  <1>3. PICK left \in 0..images :
          /\ kept' = IF connected THEN kept - (images - left) ELSE kept
          /\ raised' = (held' \/ (connected /\ left # 0))
    BY Zenon DEF Close
  <1>4. /\ TypeOK /\ HoldsContainer /\ kept = images
        /\ connected = FALSE => images = 0
    BY <1>1 DEF SessionInv, SnapshotsNoted
  <1>5. images \in Nat /\ left \in Nat /\ left <= images
    BY <1>4 DEF TypeOK, SessionAssumption
  <1>6. \/ connected = TRUE /\ kept' = left
        \/ connected = FALSE /\ kept' = 0
    <2>1. CASE connected = TRUE
      <3>1. kept' = images - (images - left)
        BY <1>3, <1>4, <2>1, Zenon
      <3> QED
        BY <1>5, <2>1, <3>1
    <2>2. CASE connected = FALSE
      <3>1. kept' = kept
        BY <1>3, <2>2, Zenon
      <3> QED
        BY <1>4, <2>2, <3>1
    <2>3. connected \in BOOLEAN
      BY <1>4 DEF TypeOK
    <2> QED
      BY <2>1, <2>2, <2>3
  <1>7. HoldsContainer' /\ docker' \in ContainerType \cup {NoContainer}
    <2>1. CASE UNCHANGED <<docker, held>>
      BY <1>4, <2>1 DEF HoldsContainer, TypeOK
    <2>2. CASE docker' = NoContainer /\ held' = FALSE
      BY <2>2, NoContainerApart DEF HoldsContainer
    <2> QED
      BY <1>2, <2>1, <2>2, Zenon
  <1>8. TypeOK'
    <2>1. kept' \in 0..MaxCommands /\ images' \in 0..MaxCommands
      BY <1>1, <1>4, <1>5, <1>6 DEF TypeOK, SessionAssumption
    <2>2. held' \in BOOLEAN
      BY <1>2, <1>4, Zenon DEF TypeOK
    <2>3. raised' \in BOOLEAN
      BY <1>3, <1>4, <2>2, Zenon DEF TypeOK
    <2> QED
      BY <1>1, <1>4, <1>7, <2>1, <2>2, <2>3 DEF TypeOK
  <1>9. SnapshotsNoted'
    <2>1. images' <= commands
      <3>1. images <= commands /\ commands \in Nat
        BY <1>4 DEF SessionInv, SnapshotsNoted, TypeOK, SessionAssumption
      <3> QED
        BY <1>1, <3>1
    <2> QED
      BY <1>1, <2>1 DEF SnapshotsNoted, Busy
  <1>10. OpenWhileBusy' /\ ContainerInPlace' /\ FilesFollow'
    BY <1>1 DEF OpenWhileBusy, ContainerInPlace, FilesFollow, Busy, Holding
  <1>11. NothingLeaks'
    <2> SUFFICES ASSUME ~raised' PROVE docker' = NoContainer /\ kept' = 0
      BY DEF NothingLeaks
    <2>1. ~held' /\ ~(connected /\ left # 0)
      BY <1>3, Zenon
    <2>2. held' = FALSE /\ (connected = FALSE \/ left = 0)
      <3>1. held' \in BOOLEAN /\ connected \in BOOLEAN
        BY <1>4, <1>8 DEF TypeOK
      <3> QED
        BY <2>1, <3>1, Zenon
    <2>3. docker' = NoContainer
      BY <1>7, <2>2 DEF HoldsContainer
    <2>4. kept' = 0
      BY <1>4, <1>5, <1>6, <2>2
    <2> QED
      BY <2>3, <2>4
  <1> QED
    BY <1>7, <1>8, <1>9, <1>10, <1>11 DEF SessionInv

LEMMA EditHostKeeps ==
  ASSUME SessionAssumption, SessionInv, EditHost
  PROVE  SessionInv'
  <1>1. /\ edits < MaxEdits /\ edits' = edits + 1
        /\ UNCHANGED <<config, pc, phase, closed, held, mode, connected, image, images,
                       previous, hashed, docker, kept, raised, commands, written, raced,
                       broken>>
    BY DEF EditHost, selfVars, historyVars
  <1>2. host' \in [Files -> Contents \cup {Absent}]
    <2>1. PICK f \in Files, c \in Contents \cup {Absent} :
            host' = [host EXCEPT ![f] = c]
      BY DEF EditHost
    <2> QED
      BY <2>1 DEF SessionInv, TypeOK
  <1>3. edits' \in 0..MaxEdits
    BY <1>1 DEF SessionInv, TypeOK, SessionAssumption
  <1>4. TypeOK'
    BY <1>1, <1>2, <1>3 DEF SessionInv, TypeOK
  <1>5. HoldsContainer' /\ SnapshotsNoted' /\ NothingLeaks'
    BY <1>1 DEF SessionInv, HoldsContainer, SnapshotsNoted, NothingLeaks
  <1>6. OpenWhileBusy'
    <2>1. Refused(phase)' <=> Refused(phase)
      BY <1>1 DEF Refused, Enabled, Wanted
    <2> QED
      BY <1>1, <2>1 DEF SessionInv, OpenWhileBusy
  <1>7. ContainerInPlace'
    <2>1. Effective(phase)' = Effective(phase)
      BY <1>1 DEF Effective, Enabled, Wanted
    <2> QED
      BY <1>1, <2>1 DEF SessionInv, ContainerInPlace
  <1>8. FilesFollow'
    BY <1>1 DEF SessionInv, FilesFollow, Present, Copy
  <1> QED
    BY <1>4, <1>5, <1>6, <1>7, <1>8 DEF SessionInv

LEMMA StutterKeeps ==
  ASSUME SessionInv, UNCHANGED vars
  PROVE  SessionInv'
  <1>1. UNCHANGED <<config, pc, phase, closed, held, mode, connected, image, images,
                    previous, hashed, host, docker, kept, raised, edits, commands,
                    written, raced, broken>>
    BY DEF vars, selfVars, boundVars, historyVars
  <1>2. TypeOK' /\ HoldsContainer' /\ SnapshotsNoted' /\ NothingLeaks'
    BY <1>1 DEF SessionInv, TypeOK, HoldsContainer, SnapshotsNoted, NothingLeaks
  <1>3. OpenWhileBusy' /\ ContainerInPlace'
    <2>1. (Refused(phase)' <=> Refused(phase)) /\ Effective(phase)' = Effective(phase)
      BY <1>1 DEF Refused, Effective, Enabled, Wanted
    <2> QED
      BY <1>1, <2>1 DEF SessionInv, OpenWhileBusy, ContainerInPlace
  <1>4. FilesFollow'
    BY <1>1 DEF SessionInv, FilesFollow, Present, Copy
  <1> QED
    BY <1>2, <1>3, <1>4 DEF SessionInv

LEMMA SessionStep ==
  ASSUME SessionAssumption, SessionInv, [Next]_vars
  PROVE  SessionInv'
  BY RequestKeeps, EnsureKeeps, CommitKeeps, DropKeeps, CreateKeeps, RemoveKeeps,
     UploadKeeps, RunKeeps, CloseKeeps, EditHostKeeps, StutterKeeps, Zenon
  DEF Next, Terminated

-----------------------------------------------------------------------------
(* Theorems.                                                               *)

(* The inductive invariant: what the session holds is what Docker has, all *)
(* snapshots are noted, a busy session has not failed, and a file is what  *)
(* a command has made of it or what was copied last, also on the way from  *)
(* one container to the next (DockerCommandSession of sandbox/commands.py).*)
THEOREM SessionInductive ==
  ASSUME SessionAssumption
  PROVE  Spec => []SessionInv
  <1>1. Init => SessionInv
    BY SessionInit
  <1>2. SessionInv /\ [Next]_vars => SessionInv'
    BY SessionStep
  <1> QED
    BY <1>1, <1>2, PTL DEF Spec

LEMMA InvImpliesPermitted == SessionInv => NetworkIsPermitted
  <1> SUFFICES ASSUME SessionInv, pc = "run", docker.mode = "bridge"
               PROVE  /\ config.requested # "none" /\ ~config.hosts
                      /\ phase = "setup" => config.setup
                      /\ phase = "test" =>
                           config.tests /\ "bridge" \in {config.requested, config.global}
    BY DEF NetworkIsPermitted
  <1>1. docker.mode = Effective(phase) /\ ~Refused(phase)
    BY DEF SessionInv, ContainerInPlace, OpenWhileBusy, Busy
  <1>2. Enabled(phase)
    BY <1>1 DEF Effective
  <1>3. ~config.hosts
    BY <1>1, <1>2, Zenon DEF Refused
  <1>4. phase = "setup" => config.setup
    BY <1>2, Zenon DEF Enabled
  <1>5. phase = "test" => config.tests
    <2>1. phase = "test" => phase # "setup"
      OBVIOUS
    <2> QED
      BY <1>2, <2>1, Zenon DEF Enabled
  <1>6. Wanted = "bridge" \/ (phase = "setup" /\ config.requested = "unset")
    BY <1>2, Zenon DEF Enabled
  <1> QED
    BY <1>3, <1>4, <1>5, <1>6 DEF Wanted

LEMMA InvImpliesFiles == SessionInv => Synchronised /\ OutputsSurvive
  <1> SUFFICES ASSUME SessionInv, pc = "run"
               PROVE  \A f \in Files :
                        /\ written[f] # Untouched => docker.files[f] = written[f]
                        /\ written[f] = Untouched /\ f \notin raced
                             => docker.files[f] = hashed[f]
    BY DEF Synchronised, OutputsSurvive
  <1>1. closed = FALSE /\ held = TRUE
    BY DEF SessionInv, OpenWhileBusy, ContainerInPlace, Busy, Holding
  <1> QED
    BY <1>1 DEF SessionInv, FilesFollow, Present, Copy

LEMMA InvImpliesFresh == SessionInv => NeverReused
  <1>1. SessionInv /\ pc = "run" => broken = FALSE
    BY DEF SessionInv, OpenWhileBusy, Busy
  <1> QED
    BY <1>1 DEF NeverReused

(* For any workspace and settings and any number of commands, whichever    *)
(* step of Docker fails: a session that closes without an exception leaves *)
(* nothing behind, no command has a network its phase may not have, none   *)
(* runs after a failure, and each sees the files of the host and what      *)
(* commands have made of them (DockerCommandSession).                      *)
THEOREM SessionsAreClean ==
  ASSUME SessionAssumption
  PROVE  Spec => []SessionIsClean
  <1>1. SessionInv => SessionIsClean
    BY InvImpliesPermitted, InvImpliesFiles, InvImpliesFresh
    DEF SessionInv, SessionIsClean
  <1> QED
    BY <1>1, SessionInductive, PTL

(***************************************************************************)
(* The sandbox run and the flakiness check.                                *)
(***************************************************************************)

(* Locations of run at which there is no response yet.                     *)
Unanswered == {"create", "clone", "checkout", "setup", "test", "respond"}

(* The tests of repetition r have the numbers after (r - 1) * commands.    *)
Within(i, r) == (r - 1) * request.commands < i /\ i <= r * request.commands

RepetitionsFollow ==
  \A i \in DOMAIN tests :
    /\ tests[i].repetition <= request.repetitions
    /\ Within(i, tests[i].repetition)

(* The loops come to the test after the last one.                          *)
LoopsAgree ==
  /\ stage \in {"create", "clone", "checkout", "setup"} =>
       tests = <<>> /\ next = [repetition |-> 1, command |-> 1]
  /\ stage = "test" =>
       /\ next.command <= request.commands
       /\ next.repetition <= request.repetitions + 1
       /\ next.repetition > request.repetitions => next.command = 1
       /\ Len(tests) + 1 = (next.repetition - 1) * request.commands + next.command

(* The loops end when all tests have run, or after one that has not passed.*)
EndsWhole ==
  \/ Len(tests) = request.repetitions * request.commands
  \/ tests # <<>> /\ tests[Len(tests)].result # "passed"

SetupPassed == \A i \in DOMAIN setups : setups[i] = "passed"
SetupComplete == SetupPassed /\ Len(setups) = request.setup

(* What a response rests on.                                               *)
ResponseFits ==
  /\ stage \in {"create", "clone", "checkout", "setup"} => SetupPassed
  /\ stage \in {"test", "respond"} => SetupComplete
  /\ stage = "respond" => EndsWhole
  /\ response \in {"passed", "tests_failed"} =>
       /\ EndsWhole /\ SetupComplete
       /\ "error" \notin TestResults
       /\ response = "passed" => TestResults \subseteq {"passed"}

(* A run is answered or has raised an exception, not both.                 *)
ResponseWhenDue ==
  /\ stage \in Unanswered => response = "none" /\ escaped = FALSE
  /\ stage \in {"close", "over"} => (escaped = TRUE <=> response = "none")
  /\ stage = "cleanup" => escaped = FALSE /\ response # "none"

LeftBehind ==
  /\ stage \in {"clone", "checkout", "setup", "test", "respond", "close", "cleanup"} =>
       workspace = "present"
  /\ leaking = TRUE => escaped = TRUE \/ cleanup = TRUE
  /\ stage \in Unanswered \cup {"close"} => leaking = FALSE
  /\ LeftoversAreReported

(* What is recorded is what the run that has ended shows.                  *)
CheckFits ==
  check # NoCheck =>
    /\ stage = "over" /\ escaped = FALSE
    /\ check = [status |-> Status, groups |-> Groups, outcomes |-> Outcomes]

RunInv ==
  /\ RunTypeOK /\ RepetitionsFollow /\ LoopsAgree /\ ResponseFits
  /\ ResponseWhenDue /\ LeftBehind

CheckInv == RunInv /\ CheckTypeOK /\ CheckFits

-----------------------------------------------------------------------------
(* Arithmetic of repetitions.                                              *)

LEMMA DivisionBounds ==
  ASSUME NEW a \in Nat, NEW n \in Nat \ {0}
  PROVE  /\ a \div n \in Nat
         /\ (a \div n) * n <= a
         /\ a < (a \div n) * n + n
  OBVIOUS

LEMMA TimesMonotone ==
  ASSUME NEW n \in Nat, NEW a \in Nat, NEW b \in Nat, a <= b
  PROVE  a * n <= b * n
  OBVIOUS

LEMMA TimesNext ==
  ASSUME NEW n \in Nat, NEW r \in Nat \ {0}
  PROVE  (r - 1) * n \in Nat /\ r * n = (r - 1) * n + n
  <1>1. (r - 1) \in Nat
    OBVIOUS
  <1> QED
    BY <1>1

LEMMA TimesClosed ==
  ASSUME NEW a \in Nat, NEW b \in Nat
  PROVE  a * b \in Nat
  OBVIOUS

(* The r-th group begins before t exactly if it is one of the first k.     *)
LEMMA GroupBounds ==
  ASSUME NEW n \in Nat \ {0}, NEW t \in Nat, NEW k \in Nat, NEW r \in Nat \ {0},
         k * n <= t + n - 1, t + n - 1 < k * n + n
  PROVE  r <= k <=> (r - 1) * n < t
  <1> DEFINE p == (r - 1) * n
             q == k * n
  <1>1. n \in Nat /\ r - 1 \in Nat /\ r \in Nat
    OBVIOUS
  <1>2. p \in Nat /\ r * n = p + n
    BY <1>1, TimesNext
  <1>3. q \in Nat
    BY <1>1, TimesClosed
  <1>4. r <= k => r * n <= q
    BY <1>1, TimesMonotone
  <1>5. k <= r - 1 => q <= p
    BY <1>1, TimesMonotone
  <1>6. q <= t + n - 1 /\ t + n - 1 < q + n
    OBVIOUS
  <1>7. r <= k => p + n <= q
    BY <1>2, <1>4
  <1> HIDE DEF p, q
  <1>8. r <= k => p < t
    BY <1>1, <1>2, <1>3, <1>6, <1>7
  <1>9. k < r => ~(p < t)
    BY <1>1, <1>2, <1>3, <1>5, <1>6
  <1>10. r <= k \/ k < r
    BY <1>1
  <1>11. r <= k <=> p < t
    BY <1>8, <1>9, <1>10
  <1> QED
    BY <1>11 DEF p

LEMMA RequestTyped ==
  ASSUME SandboxRunAssumption, RunTypeOK
  PROVE  /\ request.commands \in Nat \ {0} /\ request.repetitions \in Nat \ {0}
         /\ request.setup \in Nat /\ request.stop \in BOOLEAN
  BY DEF SandboxRunAssumption, RunTypeOK, RequestType

(* A test is in one repetition only.                                       *)
LEMMA OneRepetition ==
  ASSUME SandboxRunAssumption, RunTypeOK, NEW i \in Nat,
         NEW r \in Nat \ {0}, NEW s \in Nat \ {0}, Within(i, r), Within(i, s)
  PROVE  r = s
  <1> DEFINE n == request.commands
  <1>1. n \in Nat \ {0}
    BY RequestTyped
  <1>2. ASSUME NEW x \in Nat \ {0}, NEW y \in Nat \ {0}, Within(i, x), Within(i, y), x < y
        PROVE  FALSE
    <2>1. x * n <= (y - 1) * n
      BY <1>1, <1>2, TimesMonotone
    <2>2. i <= x * n /\ (y - 1) * n < i
      BY <1>2 DEF Within
    <2>3. x * n \in Nat /\ (y - 1) * n \in Nat
      BY <1>1
    <2> QED
      BY <2>1, <2>2, <2>3
  <1> QED
    BY <1>2

-----------------------------------------------------------------------------
(* Initial states and steps that leave the results alone.                  *)

LEMMA CheckInitFits ==
  ASSUME SandboxRunAssumption, CheckInit
  PROVE  CheckInv
  <1> USE DEF CheckInit, RunInit
  <1>1. RunTypeOK
    <2>1. setups \in Seq(ResultType) /\ tests \in Seq([result : ResultType, repetition : Nat \ {0}])
      OBVIOUS
    <2>2. next \in [repetition : Nat \ {0}, command : Nat \ {0}]
      OBVIOUS
    <2> QED
      BY <2>1, <2>2 DEF RunTypeOK
  <1>2. CheckTypeOK
    BY <1>1 DEF CheckTypeOK
  <1>3. RepetitionsFollow /\ LoopsAgree
    BY DEF RepetitionsFollow, LoopsAgree
  <1>4. ResponseFits /\ ResponseWhenDue
    BY DEF ResponseFits, ResponseWhenDue, SetupPassed
  <1>5. LeftBehind /\ CheckFits
    BY DEF LeftBehind, LeftoversAreReported, CheckFits
  <1> QED
    BY <1>1, <1>2, <1>3, <1>4, <1>5 DEF CheckInv, RunInv

(* What steps do not touch that only go from one place to another.         *)
LEMMA ResultsStay ==
  ASSUME UNCHANGED <<request, setups, tests>>
  PROVE  /\ RepetitionsFollow' = RepetitionsFollow /\ EndsWhole' = EndsWhole
         /\ SetupPassed' = SetupPassed /\ SetupComplete' = SetupComplete
         /\ TestResults' = TestResults
  BY DEF RepetitionsFollow, Within, EndsWhole, SetupPassed, SetupComplete, TestResults

LEMMA CreateWorkspaceKeeps ==
  ASSUME RunInv, CreateWorkspace
  PROVE  RunInv'
  <1> USE DEF RunInv, CreateWorkspace, Proceed, Raise, given
  <1>1. RunTypeOK'
    BY DEF RunTypeOK
  <1>2. RepetitionsFollow' /\ LoopsAgree'
    BY ResultsStay DEF LoopsAgree
  <1>3. ResponseFits' /\ ResponseWhenDue'
    BY ResultsStay DEF ResponseFits, ResponseWhenDue, Unanswered
  <1>4. LeftBehind'
    BY DEF LeftBehind, LeftoversAreReported, Unanswered, RunTypeOK
  <1> QED
    BY <1>1, <1>2, <1>3, <1>4

LEMMA CloneKeeps ==
  ASSUME RunInv, Clone
  PROVE  RunInv'
  <1> USE DEF RunInv, Clone, Proceed, Respond, given
  <1>1. RunTypeOK'
    BY DEF RunTypeOK, Statuses
  <1>2. RepetitionsFollow' /\ LoopsAgree'
    BY ResultsStay DEF LoopsAgree
  <1>3. ResponseFits' /\ ResponseWhenDue'
    BY ResultsStay DEF ResponseFits, ResponseWhenDue, Unanswered
  <1>4. LeftBehind'
    BY DEF LeftBehind, LeftoversAreReported, Unanswered, RunTypeOK
  <1> QED
    BY <1>1, <1>2, <1>3, <1>4

LEMMA CheckoutKeeps ==
  ASSUME RunInv, Checkout
  PROVE  RunInv'
  <1> USE DEF RunInv, Checkout, Proceed, Respond, given
  <1>1. RunTypeOK'
    BY DEF RunTypeOK, Statuses
  <1>2. RepetitionsFollow' /\ LoopsAgree'
    BY ResultsStay DEF LoopsAgree
  <1>3. ResponseFits' /\ ResponseWhenDue'
    BY ResultsStay DEF ResponseFits, ResponseWhenDue, Unanswered
  <1>4. LeftBehind'
    BY DEF LeftBehind, LeftoversAreReported, Unanswered, RunTypeOK
  <1> QED
    BY <1>1, <1>2, <1>3, <1>4

LEMMA SetupKeeps ==
  ASSUME RunInv, Setup
  PROVE  RunInv'
  <1> USE DEF RunInv
  <1>1. /\ stage = "setup"
        /\ UNCHANGED <<request, retain, next, tests, leaking, workspace, cleanup>>
        /\ setups' = setups \/ (\E result \in ResultType : setups' = Append(setups, result))
        /\ session' \in {"closed", session}
    BY DEF Setup, given, Escape, Raise, After, Results, ResultType
  <1>2. \/ stage' = "setup" /\ UNCHANGED <<response, retained, escaped>>
           /\ \E result \in ResultType : setups' = Append(setups, result) /\ result = "passed"
        \/ stage' = "close" /\ response' \in {"sandbox_error", "setup_failed"}
           /\ retained' = retain /\ escaped' = escaped
        \/ stage' = "close" /\ escaped' = TRUE /\ UNCHANGED <<response, retained>>
    BY DEF Setup, Escape, Raise, Proceed, Respond, Results, ResultType
  <1>3. RunTypeOK'
    <2>1. setups \in Seq(ResultType)
      BY DEF RunTypeOK
    <2>2. setups' \in Seq(ResultType)
      BY <1>1, <2>1
    <2>3. /\ stage' \in {"setup", "close"}
          /\ response' \in {response, "sandbox_error", "setup_failed"}
          /\ retained' \in {retained, retain} /\ escaped' \in {escaped, TRUE}
      BY <1>2
    <2> QED
      BY <1>1, <2>2, <2>3 DEF RunTypeOK, Statuses
  <1>4. RepetitionsFollow' /\ LoopsAgree'
    BY <1>1, <1>2 DEF LoopsAgree, RepetitionsFollow, Within
  <1>5. ResponseFits' /\ ResponseWhenDue'
    <2>1. stage' = "setup" => SetupPassed'
      <3> SUFFICES ASSUME stage' = "setup"
                   PROVE  SetupPassed'
        OBVIOUS
      <3>1. PICK result \in ResultType : setups' = Append(setups, result) /\ result = "passed"
        BY <1>2
      <3>2. setups \in Seq(ResultType) /\ SetupPassed
        BY <1>1 DEF RunTypeOK, ResponseFits
      <3> QED
        BY <3>1, <3>2 DEF SetupPassed
    <2>2. response = "none" /\ escaped = FALSE
      BY <1>1 DEF ResponseWhenDue, Unanswered
    <2> QED
      BY <1>1, <1>2, <2>1, <2>2 DEF ResponseFits, ResponseWhenDue, Unanswered
  <1>6. LeftBehind'
    BY <1>1, <1>2 DEF LeftBehind, LeftoversAreReported, Unanswered
  <1> QED
    BY <1>3, <1>4, <1>5, <1>6

LEMMA SetupDoneKeeps ==
  ASSUME SandboxRunAssumption, RunInv, SetupDone
  PROVE  RunInv'
  <1> USE DEF RunInv, SetupDone, Proceed, given
  <1>1. RunTypeOK'
    BY DEF RunTypeOK
  <1>2. RepetitionsFollow' /\ LoopsAgree'
    <2>1. /\ tests = <<>> /\ next.repetition = 1 /\ next.command = 1
          /\ request.commands \in Nat \ {0} /\ request.repetitions \in Nat \ {0}
      BY RequestTyped DEF LoopsAgree
    <2>2. /\ next.command <= request.commands
          /\ next.repetition <= request.repetitions + 1
          /\ next.repetition > request.repetitions => next.command = 1
          /\ Len(tests) + 1 = (next.repetition - 1) * request.commands + next.command
      BY <2>1
    <2> QED
      BY <2>2, ResultsStay DEF LoopsAgree
  <1>3. ResponseFits' /\ ResponseWhenDue'
    BY ResultsStay DEF ResponseFits, ResponseWhenDue, Unanswered, SetupComplete
  <1>4. LeftBehind'
    BY DEF LeftBehind, LeftoversAreReported, Unanswered, RunTypeOK
  <1> QED
    BY <1>1, <1>2, <1>3, <1>4

-----------------------------------------------------------------------------
(* Tests.                                                                  *)

(* What a test that returns a result does.                                 *)
LEMMA TestTells ==
  ASSUME RunTypeOK, Test
  PROVE  /\ stage = "test" /\ next.repetition <= request.repetitions
         /\ UNCHANGED <<request, retain, setups, leaking, workspace, cleanup, response, retained>>
         /\ session' \in {"closed", session}
         /\ \/ stage' = "close" /\ escaped' = TRUE /\ UNCHANGED <<tests, next>>
            \/ \E result \in ResultType :
                 /\ tests' = Append(tests, [result |-> result, repetition |-> next.repetition])
                 /\ escaped' = escaped
                 /\ \/ stage' = "respond" /\ next' = next /\ result # "passed"
                    \/ /\ stage' = "test" /\ next.command < request.commands
                       /\ next' = [next EXCEPT !.command = @ + 1]
                    \/ /\ stage' = "test" /\ ~(next.command < request.commands)
                       /\ next' = [repetition |-> next.repetition + 1, command |-> 1]
  <1>1. CASE \E result \in Results :
               /\ tests' = Append(tests, [result |-> result, repetition |-> next.repetition])
               /\ After(result) /\ MoveOn(result)
    <2>1. PICK result \in Results :
            /\ tests' = Append(tests, [result |-> result, repetition |-> next.repetition])
            /\ After(result) /\ MoveOn(result)
      BY <1>1
    <2>2. result \in ResultType
      BY DEF Results, ResultType
    <2>3. session' \in {"closed", session}
      BY <2>1 DEF After
    <2>4. /\ UNCHANGED <<response, retained, escaped>>
          /\ \/ stage' = "respond" /\ next' = next /\ result # "passed"
             \/ /\ stage' = "test" /\ next.command < request.commands
                /\ next' = [next EXCEPT !.command = @ + 1]
             \/ /\ stage' = "test" /\ ~(next.command < request.commands)
                /\ next' = [repetition |-> next.repetition + 1, command |-> 1]
      BY <2>1 DEF MoveOn, Proceed
    <2> QED
      BY <2>1, <2>2, <2>3, <2>4 DEF Test, given
  <1>2. CASE Escape /\ UNCHANGED <<tests, next, session>>
    BY <1>2 DEF Test, Escape, Raise, given
  <1> QED
    BY <1>1, <1>2 DEF Test

(* The test that the loops have come to is the next of its repetition.     *)
LEMMA TestAppends ==
  ASSUME SandboxRunAssumption, RunInv, stage = "test", next.repetition <= request.repetitions,
         NEW result \in ResultType, UNCHANGED request,
         tests' = Append(tests, [result |-> result, repetition |-> next.repetition])
  PROVE  /\ tests' \in Seq([result : ResultType, repetition : Nat \ {0}])
         /\ Len(tests') = Len(tests) + 1 /\ tests'[Len(tests')].result = result
         /\ RepetitionsFollow'
  <1> DEFINE n == request.commands
             new == [result |-> result, repetition |-> next.repetition]
  <1>1. /\ n \in Nat \ {0} /\ next.repetition \in Nat \ {0} /\ next.command \in Nat \ {0}
        /\ tests \in Seq([result : ResultType, repetition : Nat \ {0}])
    BY RequestTyped DEF RunInv, RunTypeOK
  <1>2. next.command <= n /\ Len(tests) + 1 = (next.repetition - 1) * n + next.command
    BY DEF RunInv, LoopsAgree
  <1>3. (next.repetition - 1) * n \in Nat /\ next.repetition * n = (next.repetition - 1) * n + n
    BY <1>1, TimesNext
  <1>4. Within(Len(tests) + 1, next.repetition)
    BY <1>1, <1>2, <1>3 DEF Within
  <1>5. new \in [result : ResultType, repetition : Nat \ {0}]
    BY <1>1
  <1>6. tests' = Append(tests, new)
    OBVIOUS
  <1>7. new.result = result /\ new.repetition = next.repetition
    OBVIOUS
  <1> HIDE DEF new
  <1>8. /\ tests' \in Seq([result : ResultType, repetition : Nat \ {0}])
        /\ Len(tests') = Len(tests) + 1 /\ tests'[Len(tests')] = new
        /\ \A i \in 1..Len(tests) : tests'[i] = tests[i]
        /\ DOMAIN tests' = 1..(Len(tests) + 1) /\ DOMAIN tests = 1..Len(tests)
        /\ Len(tests) \in Nat
    BY <1>1, <1>5, <1>6
  <1>9. ASSUME NEW i \in DOMAIN tests'
        PROVE  tests'[i].repetition <= request.repetitions /\ Within(i, tests'[i].repetition)
    <2>1. CASE i \in DOMAIN tests
      BY <2>1, <1>8 DEF RunInv, RepetitionsFollow
    <2>2. CASE i = Len(tests) + 1
      BY <2>2, <1>4, <1>7, <1>8
    <2> QED
      BY <2>1, <2>2, <1>8
  <1> QED
    BY <1>7, <1>8, <1>9 DEF RepetitionsFollow, Within

LEMMA TestKeeps ==
  ASSUME SandboxRunAssumption, RunInv, Test
  PROVE  RunInv'
  <1>0. RunTypeOK
    BY DEF RunInv
  <1>1. CASE stage' = "close" /\ escaped' = TRUE /\ UNCHANGED <<tests, next>>
    <2>1. /\ stage = "test"
          /\ UNCHANGED <<request, retain, setups, leaking, workspace, cleanup, response, retained>>
          /\ session' \in {"closed", session}
      BY <1>0, TestTells
    <2>2. RunTypeOK'
      BY <1>0, <1>1, <2>1 DEF RunTypeOK
    <2>3. RepetitionsFollow' /\ LoopsAgree'
      BY <1>1, <2>1, ResultsStay DEF LoopsAgree, RunInv
    <2>4. ResponseFits' /\ ResponseWhenDue'
      BY <1>1, <2>1 DEF ResponseFits, ResponseWhenDue, Unanswered, RunInv
    <2>5. LeftBehind'
      BY <1>1, <2>1 DEF LeftBehind, LeftoversAreReported, Unanswered, RunInv
    <2> QED
      BY <2>2, <2>3, <2>4, <2>5 DEF RunInv
  <1>2. ASSUME NEW result \in ResultType,
               tests' = Append(tests, [result |-> result, repetition |-> next.repetition]),
               escaped' = escaped,
               \/ stage' = "respond" /\ next' = next /\ result # "passed"
               \/ /\ stage' = "test" /\ next.command < request.commands
                  /\ next' = [next EXCEPT !.command = @ + 1]
               \/ /\ stage' = "test" /\ ~(next.command < request.commands)
                  /\ next' = [repetition |-> next.repetition + 1, command |-> 1]
        PROVE  RunInv'
    <2>1. /\ stage = "test" /\ next.repetition <= request.repetitions
          /\ UNCHANGED <<request, retain, setups, leaking, workspace, cleanup, response, retained>>
          /\ session' \in {"closed", session}
      BY <1>0, TestTells
    <2>2. /\ tests' \in Seq([result : ResultType, repetition : Nat \ {0}])
          /\ Len(tests') = Len(tests) + 1 /\ tests'[Len(tests')].result = result
          /\ RepetitionsFollow'
      BY <1>2, <2>1, TestAppends
    <2>3. /\ next \in [repetition : Nat \ {0}, command : Nat \ {0}]
          /\ request.commands \in Nat \ {0} /\ Len(tests) \in Nat
      BY <1>0, RequestTyped DEF RunTypeOK
    <2>4. next' \in [repetition : Nat \ {0}, command : Nat \ {0}]
      BY <1>2, <2>3
    <2>5. RunTypeOK'
      BY <1>0, <1>2, <2>1, <2>2, <2>4 DEF RunTypeOK
    <2>6. LoopsAgree'
      <3> SUFFICES ASSUME stage' = "test"
                   PROVE  /\ next'.command <= request.commands
                          /\ next'.repetition <= request.repetitions + 1
                          /\ next'.repetition > request.repetitions => next'.command = 1
                          /\ Len(tests') + 1
                               = (next'.repetition - 1) * request.commands + next'.command
        BY <1>2, <2>1 DEF LoopsAgree
      <3>1. /\ next.command <= request.commands
            /\ Len(tests) + 1 = (next.repetition - 1) * request.commands + next.command
            /\ request.repetitions \in Nat
        BY <1>0, <2>1, RequestTyped DEF RunInv, LoopsAgree
      <3>2. /\ (next.repetition - 1) * request.commands \in Nat
            /\ next.repetition * request.commands
                 = (next.repetition - 1) * request.commands + request.commands
            /\ next.repetition \in Nat \ {0} /\ next.command \in Nat \ {0}
        BY <2>3, TimesNext
      <3>3. CASE next.command < request.commands
        <4>1. next'.command = next.command + 1 /\ next'.repetition = next.repetition
          BY <1>2, <2>3, <3>3
        <4>2. (next'.repetition - 1) * request.commands = (next.repetition - 1) * request.commands
          BY <4>1
        <4>3. Len(tests') + 1 = (next'.repetition - 1) * request.commands + next'.command
          BY <4>1, <4>2, <2>2, <2>3, <3>1, <3>2
        <4>4. /\ next'.command <= request.commands
              /\ next'.repetition <= request.repetitions + 1
              /\ ~(next'.repetition > request.repetitions)
          BY <4>1, <2>1, <2>3, <3>1, <3>2, <3>3
        <4> QED
          BY <4>3, <4>4
      <3>4. CASE ~(next.command < request.commands)
        <4>1. next'.command = 1 /\ next'.repetition = next.repetition + 1
          BY <1>2, <2>3, <3>4
        <4>2. next.command = request.commands
          BY <2>3, <3>1, <3>4
        <4>3. next'.repetition - 1 = next.repetition
          BY <4>1, <2>3
        <4>4. (next'.repetition - 1) * request.commands = next.repetition * request.commands
          BY <4>3
        <4>5. Len(tests') + 1 = (next'.repetition - 1) * request.commands + next'.command
          <5>1. PICK was \in Nat : was = (next.repetition - 1) * request.commands
            BY <3>2
          <5>2. PICK now : now = (next'.repetition - 1) * request.commands
            OBVIOUS
          <5>3. /\ now = was + request.commands
                /\ Len(tests) + 1 = was + next.command
            BY <3>1, <3>2, <4>4, <5>1, <5>2
          <5>4. Len(tests') + 1 = now + next'.command
            BY <2>2, <2>3, <4>1, <4>2, <5>1, <5>3
          <5> QED
            BY <5>2, <5>4
        <4>6. /\ next'.command <= request.commands
              /\ next'.repetition <= request.repetitions + 1
              /\ next'.command = 1
          BY <2>1, <2>3, <3>1, <3>2, <4>1, <4>2
        <4> QED
          BY <4>5, <4>6
      <3> QED
        BY <3>3, <3>4
    <2>7. ResponseFits' /\ ResponseWhenDue'
      <3>1. stage' = "respond" => EndsWhole'
        BY <1>2, <2>2, <2>3 DEF EndsWhole
      <3>2. SetupComplete'
        BY <2>1 DEF RunInv, ResponseFits, SetupComplete, SetupPassed
      <3> QED
        BY <1>2, <2>1, <3>1, <3>2 DEF ResponseFits, ResponseWhenDue, Unanswered, RunInv
    <2>8. LeftBehind'
      BY <1>2, <2>1 DEF LeftBehind, LeftoversAreReported, Unanswered, RunInv
    <2> QED
      BY <2>2, <2>5, <2>6, <2>7, <2>8 DEF RunInv
  <1> QED
    BY <1>0, <1>1, <1>2, TestTells

LEMMA TestsDoneKeeps ==
  ASSUME SandboxRunAssumption, RunInv, TestsDone
  PROVE  RunInv'
  <1> USE DEF RunInv, TestsDone, Proceed, given
  <1>1. RunTypeOK'
    BY DEF RunTypeOK
  <1>2. RepetitionsFollow' /\ LoopsAgree'
    BY ResultsStay DEF LoopsAgree
  <1>3. EndsWhole
    <2>1. /\ request.repetitions \in Nat \ {0} /\ request.commands \in Nat \ {0}
          /\ next.repetition \in Nat \ {0} /\ Len(tests) \in Nat
      BY RequestTyped DEF RunTypeOK
    <2>2. next.repetition - 1 = request.repetitions /\ next.command = 1
      BY <2>1 DEF LoopsAgree
    <2>3. Len(tests) + 1 = request.repetitions * request.commands + 1
      BY <2>2 DEF LoopsAgree
    <2>4. request.repetitions * request.commands \in Nat
      BY <2>1
    <2> QED
      BY <2>1, <2>3, <2>4 DEF EndsWhole
  <1>4. ResponseFits' /\ ResponseWhenDue'
    BY <1>3, ResultsStay DEF ResponseFits, ResponseWhenDue, Unanswered
  <1>5. LeftBehind'
    BY DEF LeftBehind, LeftoversAreReported, Unanswered, RunTypeOK
  <1> QED
    BY <1>1, <1>2, <1>4, <1>5

LEMMA TestsRespondKeeps ==
  ASSUME RunInv, TestsRespond
  PROVE  RunInv'
  <1>1. /\ stage = "respond" /\ stage' = "close"
        /\ response' = Verdict /\ retained' = retain
        /\ UNCHANGED <<request, retain, setups, next, tests, session, leaking, workspace,
                       cleanup, escaped>>
    BY DEF TestsRespond, Respond, given
  <1>2. /\ Verdict \in {"sandbox_error", "passed", "tests_failed"}
        /\ Verdict # "sandbox_error" => "error" \notin TestResults
        /\ Verdict = "passed" => TestResults \subseteq {"passed"}
    BY DEF Verdict
  <1>3. RunTypeOK'
    BY <1>1, <1>2 DEF RunInv, RunTypeOK, Statuses
  <1>4. RepetitionsFollow' /\ LoopsAgree'
    BY <1>1, ResultsStay DEF LoopsAgree, RunInv
  <1>5. ResponseFits'
    BY <1>1, <1>2, ResultsStay DEF ResponseFits, RunInv
  <1>6. ResponseWhenDue'
    BY <1>1, <1>2 DEF ResponseWhenDue, Unanswered, RunInv
  <1>7. LeftBehind'
    BY <1>1 DEF LeftBehind, LeftoversAreReported, Unanswered, RunInv
  <1> QED
    BY <1>3, <1>4, <1>5, <1>6, <1>7 DEF RunInv

LEMMA CloseSessionKeeps ==
  ASSUME RunInv, CloseSession
  PROVE  RunInv'
  <1> USE DEF RunInv, CloseSession, given
  <1>1. RunTypeOK'
    BY DEF RunTypeOK
  <1>2. RepetitionsFollow' /\ LoopsAgree'
    BY ResultsStay DEF LoopsAgree
  <1>3. ResponseFits' /\ ResponseWhenDue'
    BY ResultsStay DEF ResponseFits, ResponseWhenDue, Unanswered, RunTypeOK
  <1>4. LeftBehind'
    BY DEF LeftBehind, LeftoversAreReported, Unanswered, RunTypeOK, ResponseWhenDue
  <1> QED
    BY <1>1, <1>2, <1>3, <1>4

LEMMA CleanWorkspaceKeeps ==
  ASSUME RunInv, CleanWorkspace
  PROVE  RunInv'
  <1> USE DEF RunInv, CleanWorkspace, given
  <1>1. RunTypeOK'
    BY DEF RunTypeOK
  <1>2. RepetitionsFollow' /\ LoopsAgree'
    BY ResultsStay DEF LoopsAgree
  <1>3. ResponseFits' /\ ResponseWhenDue'
    BY ResultsStay DEF ResponseFits, ResponseWhenDue, Unanswered
  <1>4. LeftBehind'
    BY DEF LeftBehind, LeftoversAreReported, Unanswered, RunTypeOK, ResponseWhenDue
  <1> QED
    BY <1>1, <1>2, <1>3, <1>4

LEMMA RunStutters ==
  ASSUME UNCHANGED runVars
  PROVE  /\ RunInv => RunInv'
         /\ Status' = Status /\ Groups' = Groups /\ Outcomes' = Outcomes
  <1> USE DEF runVars, given
  <1>1. RunTypeOK => RunTypeOK'
    BY DEF RunTypeOK
  <1>2. RepetitionsFollow' = RepetitionsFollow /\ (LoopsAgree => LoopsAgree')
    BY ResultsStay DEF LoopsAgree
  <1>3. /\ ResponseFits => ResponseFits'
        /\ ResponseWhenDue => ResponseWhenDue'
    BY ResultsStay DEF ResponseFits, ResponseWhenDue
  <1>4. LeftBehind => LeftBehind'
    BY DEF LeftBehind, LeftoversAreReported
  <1>5. Flat' = Flat
    BY DEF Flat
  <1>6. Groups' = Groups
    BY <1>5 DEF Groups
  <1>7. Outcomes' = Outcomes
    BY <1>6 DEF Outcomes
  <1>8. Status' = Status
    BY <1>7 DEF Status, Different
  <1> QED
    BY <1>1, <1>2, <1>3, <1>4, <1>6, <1>7, <1>8 DEF RunInv

(* No step of the run follows its end.                                     *)
LEMMA RunStep ==
  ASSUME SandboxRunAssumption, RunInv, RunNext
  PROVE  RunInv' /\ stage # "over"
  <1>1. RunInv'
    BY CreateWorkspaceKeeps, CloneKeeps, CheckoutKeeps, SetupKeeps, SetupDoneKeeps,
       TestKeeps, TestsDoneKeeps, TestsRespondKeeps, CloseSessionKeeps, CleanWorkspaceKeeps
    DEF RunNext
  <1>2. stage # "over"
    BY DEF RunNext, CreateWorkspace, Clone, Checkout, Setup, SetupDone, Test, TestsDone,
           TestsRespond, CloseSession, CleanWorkspace
  <1> QED
    BY <1>1, <1>2

-----------------------------------------------------------------------------
(* The groups that the flat list is cut into.                              *)

LEMMA TestsTyped ==
  ASSUME SandboxRunAssumption, RunInv
  PROVE  /\ request.commands \in Nat \ {0} /\ request.repetitions \in Nat \ {0}
         /\ Len(tests) \in Nat /\ DOMAIN tests = 1..Len(tests)
         /\ tests \in Seq([result : ResultType, repetition : Nat \ {0}])
         /\ \A i \in DOMAIN tests : /\ tests[i].result \in ResultType
                                    /\ tests[i].repetition \in Nat \ {0}
         /\ Flat \in Seq(ResultType) /\ Len(Flat) = Len(tests)
         /\ \A i \in DOMAIN tests : Flat[i] = tests[i].result
  <1>1. /\ request.commands \in Nat \ {0} /\ request.repetitions \in Nat \ {0}
        /\ tests \in Seq([result : ResultType, repetition : Nat \ {0}])
    BY RequestTyped DEF RunInv, RunTypeOK
  <1>2. Len(tests) \in Nat /\ DOMAIN tests = 1..Len(tests)
    BY <1>1
  <1>3. \A i \in DOMAIN tests : /\ tests[i].result \in ResultType
                                /\ tests[i].repetition \in Nat \ {0}
    <2> SUFFICES ASSUME NEW i \in DOMAIN tests
                 PROVE  tests[i].result \in ResultType /\ tests[i].repetition \in Nat \ {0}
      OBVIOUS
    <2>1. \A T : tests \in Seq(T) => tests[i] \in T
      BY <1>2
    <2>2. tests[i] \in [result : ResultType, repetition : Nat \ {0}]
      BY <1>1, <2>1
    <2> QED
      BY <2>2
  <1>4. Flat \in [1..Len(tests) -> ResultType] /\ \A i \in DOMAIN tests : Flat[i] = tests[i].result
    BY <1>2, <1>3 DEF Flat
  <1>5. Flat \in Seq(ResultType) /\ Len(Flat) = Len(tests)
    BY <1>2, <1>4
  <1> QED
    BY <1>1, <1>2, <1>3, <1>4, <1>5

LEMMA TestsFitRequest ==
  ASSUME SandboxRunAssumption, RunInv
  PROVE  Len(tests) <= request.repetitions * request.commands
  <1>1. /\ request.commands \in Nat \ {0} /\ request.repetitions \in Nat \ {0}
        /\ Len(tests) \in Nat /\ DOMAIN tests = 1..Len(tests)
        /\ \A i \in DOMAIN tests : tests[i].repetition \in Nat \ {0}
    BY TestsTyped
  <1>2. request.repetitions * request.commands \in Nat
    BY <1>1
  <1>3. CASE Len(tests) = 0
    BY <1>2, <1>3
  <1>4. CASE Len(tests) # 0
    <2> DEFINE r == tests[Len(tests)].repetition
    <2>1. Len(tests) \in DOMAIN tests
      BY <1>1, <1>4
    <2>2. r \in Nat \ {0} /\ r <= request.repetitions /\ Len(tests) <= r * request.commands
      BY <1>1, <2>1 DEF RunInv, RepetitionsFollow, Within
    <2>3. r * request.commands <= request.repetitions * request.commands
      BY <1>1, <2>2, TimesMonotone
    <2>4. r * request.commands \in Nat
      BY <1>1, <2>2
    <2> QED
      BY <1>1, <1>2, <2>2, <2>3, <2>4
  <1> QED
    BY <1>3, <1>4

(* There is a group for each repetition that was begun, and only for these.*)
LEMMA GroupsCount ==
  ASSUME SandboxRunAssumption, RunInv
  PROVE  \E k \in Nat :
           /\ DOMAIN Groups = 1..k /\ k <= request.repetitions
           /\ \A r \in Nat \ {0} : r <= k <=> (r - 1) * request.commands < Len(tests)
  <1> DEFINE n == request.commands
             m == request.repetitions
             a == Len(tests) + n - 1
             k == a \div n
  <1>1. n \in Nat \ {0} /\ m \in Nat \ {0} /\ Len(tests) \in Nat /\ Len(Flat) = Len(tests)
    BY TestsTyped
  <1>2. a \in Nat
    BY <1>1
  <1>3. k \in Nat /\ k * n <= a /\ a < k * n + n
    BY <1>1, <1>2, DivisionBounds
  <1>4. m * n \in Nat /\ Len(tests) <= m * n
    BY <1>1, TestsFitRequest
  <1> HIDE DEF k
  <1>5. \A r \in Nat \ {0} : r <= k <=> (r - 1) * n < Len(tests)
    <2>1. k * n <= Len(tests) + n - 1 /\ Len(tests) + n - 1 < k * n + n
      BY <1>3
    <2> HIDE DEF n, m, a
    <2> QED
      BY <1>1, <1>3, <2>1, GroupBounds
  <1>6. k <= m
    <2>1. ASSUME m < k
          PROVE  (m + 1) * n <= k * n
      <3>1. m + 1 \in Nat /\ m + 1 <= k
        BY <1>1, <1>3, <2>1
      <3> QED
        BY <1>1, <1>3, <3>1, TimesMonotone
    <2>2. (m + 1) * n = m * n + n
      BY <1>1
    <2> QED
      BY <1>1, <1>2, <1>3, <1>4, <2>1, <2>2
  <1>7. DOMAIN Groups = 1..(IF k < m THEN k ELSE m)
    BY <1>1 DEF Groups, k
  <1>8. (IF k < m THEN k ELSE m) = k
    BY <1>1, <1>3, <1>6
  <1> QED
    BY <1>3, <1>5, <1>6, <1>7, <1>8

LEMMA PartOf ==
  ASSUME NEW S, NEW s \in Seq(S), NEW i \in Nat, NEW j \in Nat, i < j, j <= Len(s)
  PROVE  /\ SubSeq(s, i + 1, j) \in Seq(S) /\ Len(SubSeq(s, i + 1, j)) = j - i
         /\ \A k \in 1..(j - i) : SubSeq(s, i + 1, j)[k] = s[i + k]
  OBVIOUS

(* The r-th group is the part of the list between two multiples.           *)
LEMMA GroupTells ==
  ASSUME SandboxRunAssumption, RunInv, NEW r \in DOMAIN Groups
  PROVE  /\ r \in Nat \ {0} /\ r <= request.repetitions
         /\ (r - 1) * request.commands < Len(tests)
         /\ Groups[r] \in Seq(ResultType) /\ Len(Groups[r]) \in Nat \ {0}
         /\ Len(Groups[r]) <= request.commands
         /\ (r - 1) * request.commands + Len(Groups[r]) <= Len(tests)
         /\ Len(Groups[r]) = request.commands
              \/ (r - 1) * request.commands + Len(Groups[r]) = Len(tests)
         /\ \A i \in 1..Len(Groups[r]) :
              Groups[r][i] = tests[(r - 1) * request.commands + i].result
  <1> DEFINE n == request.commands
             first == (r - 1) * n + 1
             last == IF r * n < Len(Flat) THEN r * n ELSE Len(Flat)
  <1>1. /\ n \in Nat \ {0} /\ request.repetitions \in Nat \ {0} /\ Len(tests) \in Nat
        /\ Len(Flat) = Len(tests) /\ Flat \in Seq(ResultType) /\ DOMAIN tests = 1..Len(tests)
        /\ \A i \in DOMAIN tests : Flat[i] = tests[i].result
    BY TestsTyped
  <1>2. r \in Nat \ {0} /\ r <= request.repetitions /\ (r - 1) * n < Len(tests)
    <2>1. PICK k \in Nat :
            /\ DOMAIN Groups = 1..k /\ k <= request.repetitions
            /\ \A s \in Nat \ {0} : s <= k <=> (s - 1) * n < Len(tests)
      BY GroupsCount
    <2>2. r \in 1..k
      BY <2>1
    <2>3. r \in Nat \ {0} /\ r <= k
      BY <2>2
    <2> QED
      BY <1>1, <2>1, <2>3
  <1>3. (r - 1) * n \in Nat /\ r * n = (r - 1) * n + n
    BY <1>1, <1>2, TimesNext
  <1>4. Groups[r] = SubSeq(Flat, first, last)
    BY DEF Groups
  <1> DEFINE start == (r - 1) * n
  <1>5. first = start + 1 /\ start \in Nat /\ start < Len(tests)
    BY <1>2, <1>3
  <1>6. /\ last \in Nat /\ last <= Len(tests) /\ start < last /\ last <= start + n
        /\ last = start + n \/ last = Len(tests)
    BY <1>1, <1>3, <1>5
  <1> HIDE DEF start, last
  <1>7. /\ SubSeq(Flat, start + 1, last) \in Seq(ResultType)
        /\ Len(SubSeq(Flat, start + 1, last)) = last - start
        /\ \A i \in 1..(last - start) : SubSeq(Flat, start + 1, last)[i] = Flat[start + i]
    <2>1. /\ Flat \in Seq(ResultType) /\ start \in Nat /\ last \in Nat
          /\ start < last /\ last <= Len(Flat)
      BY <1>1, <1>5, <1>6
    <2> QED
      BY <2>1, PartOf
  <1>8. \A i \in 1..(last - start) : Flat[start + i] = tests[start + i].result
    BY <1>1, <1>5, <1>6
  <1>9. /\ Groups[r] \in Seq(ResultType) /\ Len(Groups[r]) = last - start
        /\ \A i \in 1..(last - start) : Groups[r][i] = tests[start + i].result
    BY <1>4, <1>5, <1>7, <1>8
  <1>10. /\ last - start \in Nat \ {0} /\ last - start <= n /\ start + (last - start) <= Len(tests)
         /\ last - start = n \/ start + (last - start) = Len(tests)
    BY <1>1, <1>5, <1>6
  <1>11. start = (r - 1) * request.commands
    BY DEF start
  <1> QED
    BY <1>2, <1>9, <1>10, <1>11

(* The tests of a group are those of its repetition.                       *)
LEMMA GroupMembers ==
  ASSUME SandboxRunAssumption, RunInv, NEW r \in DOMAIN Groups, NEW j \in DOMAIN tests
  PROVE  tests[j].repetition = r
           <=> \E i \in 1..Len(Groups[r]) : j = (r - 1) * request.commands + i
  <1> DEFINE start == (r - 1) * request.commands
  <1>1. /\ request.commands \in Nat \ {0} /\ DOMAIN tests = 1..Len(tests)
        /\ Len(tests) \in Nat /\ tests[j].repetition \in Nat \ {0}
    BY TestsTyped
  <1>2. /\ r \in Nat \ {0} /\ Len(Groups[r]) \in Nat \ {0}
        /\ Len(Groups[r]) <= request.commands
        /\ Len(Groups[r]) = request.commands \/ start + Len(Groups[r]) = Len(tests)
    BY GroupTells
  <1>3. start \in Nat /\ r * request.commands = start + request.commands
    BY <1>1, <1>2, TimesNext
  <1>4. j \in Nat /\ j <= Len(tests) /\ Within(j, tests[j].repetition)
    BY <1>1 DEF RunInv, RepetitionsFollow
  <1>5. Within(j, r) <=> (start < j /\ j <= start + request.commands)
    BY <1>3 DEF Within
  <1>6. Within(j, r) <=> tests[j].repetition = r
    <2>1. RunTypeOK
      BY DEF RunInv
    <2> QED
      BY <1>1, <1>2, <1>4, <2>1, OneRepetition
  <1> HIDE DEF start
  <1>7. (start < j /\ j <= start + request.commands) <=> j - start \in 1..Len(Groups[r])
    <2> DEFINE n == request.commands
               l == Len(Groups[r])
               all == Len(tests)
    <2>1. /\ n \in Nat /\ l \in Nat /\ l <= n /\ all \in Nat /\ j \in Nat /\ start \in Nat
          /\ l = n \/ start + l = all
          /\ j <= all
      BY <1>1, <1>2, <1>3, <1>4
    <2> HIDE DEF n, l, all
    <2>2. (start < j /\ j <= start + n) <=> j - start \in 1..l
      BY <2>1
    <2> QED
      BY <2>2 DEF n, l
  <1>8. j - start \in 1..Len(Groups[r]) <=> \E i \in 1..Len(Groups[r]) : j = start + i
    BY <1>2, <1>3, <1>4
  <1> QED
    BY <1>5, <1>6, <1>7, <1>8 DEF start

LEMMA GroupShows ==
  ASSUME SandboxRunAssumption, RunInv, NEW r \in DOMAIN Groups
  PROVE  {Groups[r][i] : i \in DOMAIN Groups[r]} = ResultsOf(r)
  <1> DEFINE start == (r - 1) * request.commands
  <1>1. /\ request.commands \in Nat \ {0} /\ DOMAIN tests = 1..Len(tests) /\ Len(tests) \in Nat
    BY TestsTyped
  <1>2. /\ r \in Nat \ {0} /\ Len(Groups[r]) \in Nat \ {0} /\ DOMAIN Groups[r] = 1..Len(Groups[r])
        /\ start + Len(Groups[r]) <= Len(tests)
        /\ \A i \in 1..Len(Groups[r]) : Groups[r][i] = tests[start + i].result
    BY GroupTells
  <1>3. start \in Nat
    BY <1>1, <1>2, TimesNext
  <1>4. \A j \in DOMAIN tests :
          tests[j].repetition = r <=> \E i \in 1..Len(Groups[r]) : j = start + i
    BY GroupMembers
  <1> HIDE DEF start
  <1>5. \A i \in 1..Len(Groups[r]) : start + i \in DOMAIN tests
    BY <1>1, <1>2, <1>3
  <1>6. ASSUME NEW i \in 1..Len(Groups[r])
        PROVE  Groups[r][i] \in ResultsOf(r)
    BY <1>2, <1>4, <1>5 DEF ResultsOf
  <1>7. ASSUME NEW x \in ResultsOf(r)
        PROVE  \E i \in 1..Len(Groups[r]) : x = Groups[r][i]
    <2>1. PICK j \in DOMAIN tests : tests[j].repetition = r /\ x = tests[j].result
      BY DEF ResultsOf
    <2> QED
      BY <1>2, <1>4, <2>1
  <1> QED
    BY <1>2, <1>6, <1>7

LEMMA GroupsAreRepetitions ==
  ASSUME SandboxRunAssumption, RunInv
  PROVE  Len(Groups) = Cardinality({tests[i].repetition : i \in DOMAIN tests})
  <1>1. /\ request.commands \in Nat \ {0} /\ DOMAIN tests = 1..Len(tests) /\ Len(tests) \in Nat
        /\ \A i \in DOMAIN tests : tests[i].repetition \in Nat \ {0}
    BY TestsTyped
  <1>2. PICK k \in Nat :
          /\ DOMAIN Groups = 1..k
          /\ \A r \in Nat \ {0} : r <= k <=> (r - 1) * request.commands < Len(tests)
    BY GroupsCount
  <1>3. ASSUME NEW i \in DOMAIN tests
        PROVE  tests[i].repetition \in 1..k
    <2> DEFINE r == tests[i].repetition
    <2>1. r \in Nat \ {0} /\ i \in Nat /\ i <= Len(tests)
      BY <1>1
    <2>2. (r - 1) * request.commands < i /\ (r - 1) * request.commands \in Nat
      BY <1>1, <2>1, TimesNext DEF RunInv, RepetitionsFollow, Within
    <2>3. (r - 1) * request.commands < Len(tests)
      BY <1>1, <2>1, <2>2
    <2> QED
      BY <1>2, <2>1, <2>3
  <1>4. ASSUME NEW r \in 1..k
        PROVE  \E i \in DOMAIN tests : tests[i].repetition = r
    <2>1. r \in DOMAIN Groups
      BY <1>2
    <2>2. Len(Groups[r]) \in Nat \ {0} /\ (r - 1) * request.commands + Len(Groups[r]) <= Len(tests)
          /\ r \in Nat \ {0}
      BY <2>1, GroupTells
    <2>3. (r - 1) * request.commands \in Nat
      BY <1>1, <2>2, TimesNext
    <2>4. (r - 1) * request.commands + 1 \in DOMAIN tests
      BY <1>1, <2>2, <2>3
    <2>5. 1 \in 1..Len(Groups[r])
      BY <2>2
    <2> QED
      BY <2>1, <2>4, <2>5, GroupMembers
  <1>5. {tests[i].repetition : i \in DOMAIN tests} = 1..k
    BY <1>3, <1>4
  <1>6. Cardinality(1..k) = k
    <2>1. 1 \in Int /\ k \in Int
      OBVIOUS
    <2> QED
      BY <2>1, FS_Interval
  <1>7. Len(Groups) = k
    <2>1. DOMAIN Groups = 1..k /\ k \in Nat
      BY <1>2
    <2> QED
      BY <2>1
  <1> QED
    BY <1>5, <1>6, <1>7

(* Groups and outcomes are sequences.                                      *)
LEMMA GroupsTyped ==
  ASSUME SandboxRunAssumption, RunInv
  PROVE  /\ Groups \in Seq(Seq(ResultType)) /\ Outcomes \in Seq(BOOLEAN)
         /\ DOMAIN Outcomes = DOMAIN Groups /\ Len(Outcomes) = Len(Groups)
  <1>1. PICK k \in Nat : DOMAIN Groups = 1..k
    BY GroupsCount
  <1>2. \A r \in DOMAIN Groups : Groups[r] \in Seq(ResultType)
    BY GroupTells
  <1>3. Groups = [r \in 1..k |-> Groups[r]]
    <2>1. Groups = [r \in DOMAIN Groups |-> Groups[r]]
      BY DEF Groups
    <2> QED
      BY <1>1, <2>1
  <1>4. Groups \in [1..k -> Seq(ResultType)]
    BY <1>1, <1>2, <1>3
  <1>5. Outcomes \in [1..k -> BOOLEAN]
    BY <1>1 DEF Outcomes
  <1>6. Groups \in Seq(Seq(ResultType)) /\ Len(Groups) = k
    BY <1>4
  <1>7. Outcomes \in Seq(BOOLEAN) /\ Len(Outcomes) = k
    BY <1>5
  <1> QED
    BY <1>1, <1>5, <1>6, <1>7

-----------------------------------------------------------------------------
(* The invariant of the check.                                             *)

LEMMA StatusTells ==
  /\ Status \in CheckStatuses
  /\ Status \in {"flaky", "stable"} =>
       response \notin {"setup_failed", "clone_failed", "checkout_failed", "sandbox_error"}
  /\ Status = "flaky" => \E r, s \in DOMAIN Outcomes : Outcomes[r] # Outcomes[s]
  /\ Status = "stable" =>
       /\ \A r, s \in DOMAIN Outcomes : Outcomes[r] = Outcomes[s]
       /\ ~(Len(Outcomes) < request.repetitions)
  <1>1. /\ Status \in CheckStatuses
        /\ Status \in {"flaky", "stable"} =>
             response \notin {"setup_failed", "clone_failed", "checkout_failed", "sandbox_error"}
        /\ Status = "flaky" => Different(Outcomes)
        /\ Status = "stable" => ~Different(Outcomes) /\ ~(Len(Outcomes) < request.repetitions)
    BY DEF Status, CheckStatuses
  <1> QED
    BY <1>1, Zenon DEF Different

LEMMA RecordKeeps ==
  ASSUME SandboxRunAssumption, CheckInv, Record
  PROVE  CheckInv'
  <1>1. RunInv /\ stage = "over" /\ escaped = FALSE /\ UNCHANGED runVars
    BY DEF CheckInv, Record, RunInv, RunTypeOK
  <1>2. /\ check' = [status |-> Status, groups |-> Groups, outcomes |-> Outcomes]
        /\ Status' = Status /\ Groups' = Groups /\ Outcomes' = Outcomes /\ RunInv'
    BY <1>1, RunStutters DEF Record
  <1>3. CheckFits'
    BY <1>1, <1>2 DEF CheckFits, runVars
  <1>4. CheckTypeOK'
    <2>1. /\ Groups \in Seq(Seq(ResultType)) /\ Outcomes \in Seq(BOOLEAN)
          /\ Status \in CheckStatuses
      BY <1>1, GroupsTyped, StatusTells
    <2>2. /\ check'.status \in CheckStatuses /\ check'.groups \in Seq(Seq(ResultType))
          /\ check'.outcomes \in Seq(BOOLEAN)
      BY <1>2, <2>1
    <2> QED
      BY <1>2, <2>2 DEF CheckTypeOK, RunInv
  <1> QED
    BY <1>2, <1>3, <1>4 DEF CheckInv

LEMMA CheckStep ==
  ASSUME SandboxRunAssumption, CheckInv, [CheckNext]_checkVars
  PROVE  CheckInv'
  <1>1. CASE RunNext /\ UNCHANGED check
    <2>1. RunInv' /\ stage # "over"
      BY <1>1, RunStep DEF CheckInv
    <2>2. check' = NoCheck
      BY <1>1, <2>1 DEF CheckInv, CheckFits
    <2> QED
      BY <2>1, <2>2 DEF CheckInv, CheckFits, CheckTypeOK, RunInv
  <1>2. CASE Record
    BY <1>2, RecordKeeps
  <1>3. CASE UNCHANGED checkVars
    <2>1. UNCHANGED runVars /\ check' = check
      BY <1>3 DEF checkVars
    <2>2. /\ RunInv' /\ Status' = Status /\ Groups' = Groups /\ Outcomes' = Outcomes
          /\ stage' = stage /\ escaped' = escaped
      BY <2>1, RunStutters DEF CheckInv, runVars
    <2> QED
      BY <2>1, <2>2 DEF CheckInv, CheckFits, CheckTypeOK, RunInv
  <1> QED
    BY <1>1, <1>2, <1>3 DEF CheckNext, CheckEnded

(* The inductive invariant of a flakiness check: where the loops of run    *)
(* are, what a response rests on, what is left behind, and that the record *)
(* is what the ended run shows (run of sandbox/runner.py, run of           *)
(* flakiness/service.py).                                                  *)
THEOREM CheckInductive ==
  ASSUME SandboxRunAssumption
  PROVE  CheckSpec => []CheckInv
  <1>1. CheckInit => CheckInv
    BY CheckInitFits
  <1>2. CheckInv /\ [CheckNext]_checkVars => CheckInv'
    BY CheckStep
  <1> QED
    BY <1>1, <1>2, PTL DEF CheckSpec

-----------------------------------------------------------------------------
(* What follows from it.                                                   *)

(* A repetition whose group has passed has passed with all its commands.   *)
LEMMA GroupPassed ==
  ASSUME SandboxRunAssumption, RunInv, NEW r \in DOMAIN Groups, Outcomes[r]
  PROVE  /\ Cardinality({i \in DOMAIN tests :
              tests[i].repetition = r /\ tests[i].result = "passed"}) = request.commands
         /\ \A i \in DOMAIN tests : tests[i].repetition = r => tests[i].result = "passed"
  <1> DEFINE start == (r - 1) * request.commands
             passed == {i \in DOMAIN tests :
                          tests[i].repetition = r /\ tests[i].result = "passed"}
  <1>1. /\ request.commands \in Nat \ {0} /\ DOMAIN tests = 1..Len(tests) /\ Len(tests) \in Nat
    BY TestsTyped
  <1>2. /\ r \in Nat \ {0} /\ start + Len(Groups[r]) <= Len(tests)
        /\ DOMAIN Groups[r] = 1..Len(Groups[r])
        /\ \A i \in 1..Len(Groups[r]) : Groups[r][i] = tests[start + i].result
    BY GroupTells
  <1>3. start \in Nat
    BY <1>1, <1>2, TimesNext
  <1>4. Len(Groups[r]) = request.commands /\ \A i \in DOMAIN Groups[r] : Groups[r][i] = "passed"
    BY DEF Outcomes
  <1>5. \A j \in DOMAIN tests :
          tests[j].repetition = r <=> \E i \in 1..Len(Groups[r]) : j = start + i
    BY GroupMembers
  <1> HIDE DEF start
  <1>6. \A i \in 1..request.commands :
          start + i \in DOMAIN tests /\ tests[start + i].result = "passed"
    BY <1>1, <1>2, <1>3, <1>4
  <1>7. passed = (start + 1)..(start + request.commands)
    <2>1. ASSUME NEW j \in passed
          PROVE  j \in (start + 1)..(start + request.commands)
      BY <1>1, <1>3, <1>4, <1>5
    <2>2. ASSUME NEW j \in (start + 1)..(start + request.commands)
          PROVE  j \in passed
      <3>1. j - start \in 1..request.commands /\ j = start + (j - start)
        BY <1>1, <1>3
      <3> QED
        BY <1>4, <1>5, <1>6, <3>1
    <2> QED
      BY <2>1, <2>2
  <1>8. Cardinality((start + 1)..(start + request.commands)) = request.commands
    <2>1. start + 1 \in Int /\ start + request.commands \in Int
      BY <1>1, <1>3
    <2>2. /\ ~(start + 1 > start + request.commands)
          /\ (start + request.commands) - (start + 1) + 1 = request.commands
      BY <1>1, <1>3
    <2> QED
      BY <2>1, <2>2, FS_Interval
  <1>9. \A i \in DOMAIN tests : tests[i].repetition = r => tests[i].result = "passed"
    BY <1>4, <1>5, <1>6
  <1> QED
    BY <1>7, <1>8, <1>9

(* In a run that has ended, a group that has not passed shows a test that  *)
(* has not: only the last one is cut short, by that test.                  *)
LEMMA GroupFailed ==
  ASSUME SandboxRunAssumption, RunInv, EndsWhole, NEW r \in DOMAIN Groups, ~Outcomes[r]
  PROVE  \E i \in DOMAIN tests : tests[i].repetition = r /\ tests[i].result # "passed"
  <1> DEFINE start == (r - 1) * request.commands
  <1>1. /\ request.commands \in Nat \ {0} /\ request.repetitions \in Nat \ {0}
        /\ DOMAIN tests = 1..Len(tests) /\ Len(tests) \in Nat
    BY TestsTyped
  <1>2. /\ r \in Nat \ {0} /\ r <= request.repetitions
        /\ Len(Groups[r]) \in Nat \ {0} /\ Len(Groups[r]) <= request.commands
        /\ start + Len(Groups[r]) <= Len(tests)
        /\ Len(Groups[r]) = request.commands \/ start + Len(Groups[r]) = Len(tests)
        /\ DOMAIN Groups[r] = 1..Len(Groups[r])
        /\ \A i \in 1..Len(Groups[r]) : Groups[r][i] = tests[start + i].result
    BY GroupTells
  <1>3. start \in Nat /\ r * request.commands = start + request.commands
    BY <1>1, <1>2, TimesNext
  <1>4. \A i \in 1..Len(Groups[r]) : start + i \in DOMAIN tests
    <2>1. PICK from \in Nat : from = start
      BY <1>3
    <2>2. \A i \in 1..Len(Groups[r]) : from + i \in 1..Len(tests)
      BY <1>1, <1>2, <2>1
    <2> QED
      BY <1>1, <2>1, <2>2
  <1>5. \A i \in 1..Len(Groups[r]) : tests[start + i].repetition = r
    BY <1>4, GroupMembers
  <1>6. Len(Groups[r]) # request.commands \/ \E i \in DOMAIN Groups[r] : Groups[r][i] # "passed"
    BY DEF Outcomes
  <1>7. CASE \E i \in DOMAIN Groups[r] : Groups[r][i] # "passed"
    BY <1>2, <1>4, <1>5, <1>7
  <1>8. CASE Len(Groups[r]) # request.commands
    <2>1. start + Len(Groups[r]) = Len(tests) /\ Len(tests) < r * request.commands
      BY <1>1, <1>2, <1>3, <1>8
    <2>2. r * request.commands <= request.repetitions * request.commands
      BY <1>1, <1>2, TimesMonotone
    <2>3. request.repetitions * request.commands \in Nat /\ r * request.commands \in Nat
      BY <1>1, <1>2
    <2>4. Len(tests) # request.repetitions * request.commands
      BY <1>1, <2>1, <2>2, <2>3
    <2>5. tests[Len(tests)].result # "passed"
      BY <2>4 DEF EndsWhole
    <2>6. Len(Groups[r]) \in 1..Len(Groups[r])
      BY <1>2
    <2> QED
      BY <1>4, <1>5, <2>1, <2>5, <2>6
  <1> QED
    BY <1>6, <1>7, <1>8

LEMMA InvImpliesComplete ==
  ASSUME SandboxRunAssumption, RunInv
  PROVE  PassedIsComplete
  <1> SUFFICES ASSUME response = "passed"
               PROVE  /\ SetupComplete
                      /\ \A r \in 1..request.repetitions :
                           Cardinality({i \in DOMAIN tests :
                             tests[i].repetition = r /\ tests[i].result = "passed"})
                               = request.commands
    BY DEF PassedIsComplete, SetupComplete, SetupPassed
  <1>1. SetupComplete /\ EndsWhole /\ TestResults \subseteq {"passed"}
    BY DEF RunInv, ResponseFits
  <1>2. /\ request.commands \in Nat \ {0} /\ request.repetitions \in Nat \ {0}
        /\ DOMAIN tests = 1..Len(tests) /\ Len(tests) \in Nat
    BY TestsTyped
  <1>3. \A i \in DOMAIN tests : tests[i].result = "passed"
    BY <1>1 DEF TestResults
  <1>4. Len(tests) = request.repetitions * request.commands
    <2>1. Len(tests) \in DOMAIN tests \/ tests = <<>>
      <3>1. tests # <<>> => Len(tests) # 0
        BY TestsTyped
      <3> QED
        BY <1>2, <3>1
    <2> QED
      BY <1>1, <1>3, <2>1 DEF EndsWhole
  <1>5. ASSUME NEW r \in 1..request.repetitions
        PROVE  r \in DOMAIN Groups /\ Outcomes[r]
    <2>1. r \in Nat \ {0} /\ r <= request.repetitions
      BY <1>2
    <2>2. r * request.commands <= Len(tests)
      BY <1>2, <1>4, <2>1, TimesMonotone
    <2>3. (r - 1) * request.commands \in Nat
          /\ r * request.commands = (r - 1) * request.commands + request.commands
      BY <1>2, <2>1, TimesNext
    <2>4. r \in DOMAIN Groups
      <3>1. (r - 1) * request.commands < Len(tests)
        BY <1>2, <2>2, <2>3
      <3>2. PICK k \in Nat :
              /\ DOMAIN Groups = 1..k
              /\ \A s \in Nat \ {0} : s <= k <=> (s - 1) * request.commands < Len(tests)
        BY GroupsCount
      <3> QED
        BY <2>1, <3>1, <3>2
    <2>5. Outcomes[r]
      <3>1. ~Outcomes[r] => \E i \in DOMAIN tests : tests[i].result # "passed"
        BY <1>1, <2>4, GroupFailed
      <3> QED
        BY <1>3, <3>1
    <2> QED
      BY <2>4, <2>5
  <1>6. ASSUME NEW r \in 1..request.repetitions
        PROVE  Cardinality({i \in DOMAIN tests :
                 tests[i].repetition = r /\ tests[i].result = "passed"}) = request.commands
    BY <1>5, GroupPassed
  <1> QED
    BY <1>1, <1>6

LEMMA InvImpliesSlices ==
  ASSUME SandboxRunAssumption, CheckInv
  PROVE  SlicesAreRepetitions
  <1> SUFFICES ASSUME check # NoCheck
               PROVE  /\ Len(Groups) = Cardinality({tests[i].repetition : i \in DOMAIN tests})
                      /\ \A r \in DOMAIN Groups :
                           {Groups[r][i] : i \in DOMAIN Groups[r]} = ResultsOf(r)
    <2>1. check # NoCheck => check.groups = Groups
      BY DEF CheckInv, CheckFits
    <2> QED
      BY <2>1, Zenon DEF SlicesAreRepetitions
  <1>1. RunInv
    BY DEF CheckInv
  <1> QED
    BY <1>1, GroupsAreRepetitions, GroupShows

(* What a verdict on repetitions rests on.                                 *)
LEMMA VerdictTells ==
  ASSUME CheckInv, check.status \in {"flaky", "stable"}
  PROVE  /\ RunInv /\ EndsWhole /\ "error" \notin TestResults
         /\ check.status = Status
  <1>1. check # NoCheck
    BY DEF NoCheck
  <1>2. check.status = Status /\ stage = "over" /\ escaped = FALSE /\ RunInv
    BY <1>1 DEF CheckInv, CheckFits
  <1>3. response # "none" /\ response \in Statuses \cup {"none"}
    BY <1>2 DEF RunInv, ResponseWhenDue, RunTypeOK
  <1>4. response \in {"passed", "tests_failed"}
    BY <1>2, <1>3, StatusTells DEF Statuses
  <1> QED
    BY <1>2, <1>4 DEF RunInv, ResponseFits

LEMMA InvImpliesFlaky ==
  ASSUME SandboxRunAssumption, CheckInv
  PROVE  FlakyIsWitnessed
  <1> SUFFICES ASSUME check.status = "flaky"
               PROVE  /\ \E r \in 1..request.repetitions :
                           Cardinality({i \in DOMAIN tests :
                             tests[i].repetition = r /\ tests[i].result = "passed"})
                               = request.commands
                      /\ \E i \in DOMAIN tests : tests[i].result # "passed"
                      /\ "error" \notin TestResults
    BY DEF FlakyIsWitnessed
  <1>1. RunInv /\ EndsWhole /\ "error" \notin TestResults /\ Status = "flaky"
    BY VerdictTells
  <1>2. PICK r \in DOMAIN Outcomes, s \in DOMAIN Outcomes : Outcomes[r] # Outcomes[s]
    BY <1>1, StatusTells
  <1>3. DOMAIN Outcomes = DOMAIN Groups /\ \A q \in DOMAIN Outcomes : Outcomes[q] \in BOOLEAN
    BY <1>1, GroupsTyped
  <1>4. PICK p \in DOMAIN Groups, f \in DOMAIN Groups : Outcomes[p] /\ ~Outcomes[f]
    BY <1>2, <1>3
  <1>5. p \in 1..request.repetitions
    <2>1. p \in Nat \ {0} /\ p <= request.repetitions
      BY <1>1, GroupTells
    <2>2. request.repetitions \in Nat
      BY <1>1, TestsTyped
    <2> QED
      BY <2>1, <2>2
  <1> QED
    BY <1>1, <1>4, <1>5, GroupPassed, GroupFailed

LEMMA InvImpliesStable ==
  ASSUME SandboxRunAssumption, CheckInv
  PROVE  StableIsComplete
  <1> SUFFICES ASSUME check.status = "stable"
               PROVE  /\ \A r \in 1..request.repetitions : ResultsOf(r) # {}
                      /\ \/ TestResults = {"passed"}
                         \/ \A r \in 1..request.repetitions : ResultsOf(r) # {"passed"}
                      /\ "error" \notin TestResults
    BY DEF StableIsComplete
  <1>1. RunInv /\ EndsWhole /\ "error" \notin TestResults /\ Status = "stable"
    BY VerdictTells
  <1>2. /\ \A r, s \in DOMAIN Outcomes : Outcomes[r] = Outcomes[s]
        /\ ~(Len(Outcomes) < request.repetitions)
    BY <1>1, StatusTells
  <1>3. /\ DOMAIN Outcomes = DOMAIN Groups /\ Len(Outcomes) = Len(Groups)
        /\ Outcomes \in Seq(BOOLEAN)
    BY <1>1, GroupsTyped
  <1>4. /\ request.repetitions \in Nat \ {0} /\ DOMAIN tests = 1..Len(tests)
        /\ \A i \in DOMAIN tests : tests[i].repetition \in Nat \ {0}
    BY <1>1, TestsTyped
  <1>5. DOMAIN Groups = 1..request.repetitions
    <2>1. PICK k \in Nat : DOMAIN Groups = 1..k /\ k <= request.repetitions
      BY <1>1, GroupsCount
    <2>2. Len(Outcomes) = k
      BY <1>3, <2>1
    <2> QED
      BY <1>2, <1>4, <2>1, <2>2
  <1>6. ASSUME NEW r \in 1..request.repetitions
        PROVE  ResultsOf(r) # {}
    <2>1. Len(Groups[r]) \in Nat \ {0} /\ {Groups[r][i] : i \in DOMAIN Groups[r]} = ResultsOf(r)
          /\ DOMAIN Groups[r] = 1..Len(Groups[r])
      BY <1>1, <1>5, GroupTells, GroupShows
    <2>2. 1 \in DOMAIN Groups[r]
      BY <2>1
    <2> QED
      BY <2>1, <2>2
  <1>7. CASE Outcomes[1]
    <2>1. \A r \in DOMAIN Groups : Outcomes[r]
      <3>1. 1 \in DOMAIN Groups
        BY <1>4, <1>5
      <3> QED
        BY <1>2, <1>3, <1>7, <3>1
    <2>2. ASSUME NEW i \in DOMAIN tests
          PROVE  tests[i].result = "passed"
      <3>1. tests[i].repetition \in 1..request.repetitions
        BY <1>1, <1>4 DEF RunInv, RepetitionsFollow
      <3> QED
        BY <1>1, <1>5, <2>1, <3>1, GroupPassed
    <2>3. \E i \in DOMAIN tests : TRUE
      <3>1. 1 \in 1..request.repetitions
        BY <1>4
      <3> QED
        BY <1>6, <3>1 DEF ResultsOf
    <2> QED
      BY <1>1, <1>6, <2>2, <2>3 DEF TestResults
  <1>8. CASE ~Outcomes[1]
    <2>1. \A r \in DOMAIN Groups : ~Outcomes[r]
      <3>1. 1 \in DOMAIN Groups
        BY <1>4, <1>5
      <3> QED
        BY <1>2, <1>3, <1>8, <3>1
    <2>2. ASSUME NEW r \in 1..request.repetitions
          PROVE  ResultsOf(r) # {"passed"}
      <3>1. PICK i \in DOMAIN tests : tests[i].repetition = r /\ tests[i].result # "passed"
        BY <1>1, <1>5, <2>1, GroupFailed
      <3> QED
        BY <3>1 DEF ResultsOf
    <2> QED
      BY <1>1, <1>6, <2>2
  <1> QED
    BY <1>7, <1>8

(* However many commands and repetitions are asked for, and wherever       *)
(* commands fail, time out or end in errors: a check is flaky only if one  *)
(* whole repetition passed and another did not, stable only if all were    *)
(* begun and agree, passed only if every command of each passed; and what  *)
(* a run leaves behind is reported (run of sandbox/runner.py,              *)
(* _group_repetitions and _status of flakiness/service.py).                *)
THEOREM VerdictsWitnessed ==
  ASSUME SandboxRunAssumption
  PROVE  CheckSpec => []VerdictsAreWitnessed
  <1>1. CheckInv => VerdictsAreWitnessed
    <2>1. CheckInv => CheckTypeOK /\ LeftoversAreReported /\ RunInv
      BY DEF CheckInv, RunInv, LeftBehind
    <2> QED
      BY <2>1, InvImpliesComplete, InvImpliesSlices, InvImpliesFlaky, InvImpliesStable
      DEF VerdictsAreWitnessed
  <1> QED
    BY <1>1, CheckInductive, PTL

(***************************************************************************)
(* The analysis of failed tests.                                           *)
(***************************************************************************)

(* What is known of the phase under way.                                   *)
PhaseFits ==
  /\ results \in Seq(TestRow) /\ position \in 1..Len(Script) + 1
  /\ ran \in Nat /\ ran <= Len(results)
  /\ position <= Len(Script) => ran <= Script[position].commands
  /\ position > Len(Script) => ran = 0
  /\ \A i \in PhaseRows : results[i].phase = Script[position].phase
  /\ reads \in 0..MaxReads /\ dead \in BOOLEAN /\ abandoned \subseteq DOMAIN results

AnalysisFields ==
  {"todo", "asked", "again", "pc", "found", "payload", "hidden", "key", "out"}

Taken(a) == a.asked \ a.todo
Pending(a) == IF a.pc \in {"lookup", "store"} THEN {a.key} ELSE {}
RowsOf(a) ==
  /\ a.asked \subseteq DOMAIN results /\ a.todo \subseteq a.asked
  /\ \A i \in a.asked : Failed(i)
  /\ \A i \in Taken(a), j \in a.todo : i < j

(* What was taken is answered, for hidden rows by one aggregate.           *)
Answers(a) ==
  /\ a.out \in Seq(Nat) /\ a.hidden \in BOOLEAN /\ a.key \in Nat
  /\ Range(a.out) \cup Pending(a)
       = (Taken(a) \ Hidden) \cup (IF a.hidden THEN {Aggregate} ELSE {})
  /\ a.hidden => First(a.asked \cap Hidden) \in Taken(a) \cap Hidden
  /\ ~a.hidden => Taken(a) \cap Hidden = {}

Ordered(a) ==
  /\ \A i, j \in DOMAIN a.out : i < j => InPlace(a, a.out[i]) < InPlace(a, a.out[j])
  /\ \A i \in DOMAIN a.out : \A k \in Pending(a) : InPlace(a, a.out[i]) < InPlace(a, k)

PayloadFits(k, payload) ==
  IF k = Aggregate
  THEN /\ payload.tests = {} /\ payload.excerpts = {} /\ payload.stack = {} /\ payload.paths = {}
       /\ payload.count \in 1..Cardinality(FailedOf(Hidden))
       /\ payload.total \in payload.count..Cardinality(Hidden)
  ELSE /\ k \in DOMAIN results \ Hidden /\ Failed(k)
       /\ payload = AnalyzeVisible(results[k])

Analyzing(a) ==
  /\ DOMAIN a = AnalysisFields /\ a.pc \in {"idle", "next", "lookup", "store"}
  /\ RowsOf(a) /\ Answers(a) /\ Ordered(a)
  /\ \A k \in Pending(a) : PayloadFits(k, a.payload)
  /\ a.found = 0 \/ a.found \in DOMAIN events
  /\ a.pc = "store" /\ a.found # 0 => events[a.found].key = a.key

EventsFit ==
  /\ events \in Seq(Range(events))
  /\ \A j \in DOMAIN events : events[j].key \in Nat
                              /\ PayloadFits(events[j].key, events[j].payload)

(* Those that have seen no event with this key and are about to insert one.*)
Inserting(k) ==
  {p \in Analyzers : analysis[p].pc = "store" /\ analysis[p].key = k /\ analysis[p].found = 0}
DuplicatesBounded ==
  \A k \in Nat : Cardinality(WithKey(k)) + Cardinality(Inserting(k)) <= Cardinality(Analyzers)

ServiceFits ==
  LET a == analysis[Service]
  IN  /\ a.pc # "idle" => /\ position <= Len(Script) /\ ran = Script[position].commands
                          /\ a.asked = FailedOf(PhaseRows)
      /\ a.again => /\ a.pc # "idle" /\ a.asked # {}
                    /\ Script[position].phase = "post_patch"

FeedbackFits ==
  feedback.total # 0 =>
    /\ feedback.rows \subseteq DOMAIN results
    /\ \A i \in feedback.rows : results[i].phase = "post_patch"
    /\ feedback.total = Cardinality(feedback.rows)
    /\ feedback.failed = Cardinality(FailedOf(feedback.rows))
    /\ feedback.shown \in 1..feedback.failed

AnalysisInv ==
  /\ PhaseFits /\ EventsFit /\ DuplicatesBounded /\ ServiceFits /\ FeedbackFits
  /\ DOMAIN analysis = Analyzers /\ analysis = [p \in Analyzers |-> analysis[p]]
  /\ \A p \in Analyzers : Analyzing(analysis[p]) /\ (analysis[p].again => p = Service)

-----------------------------------------------------------------------------
(* Data.                                                                   *)

LEMMA FirstIs ==
  ASSUME NEW S, S \subseteq Nat, NEW i \in S, \A j \in S : i <= j
  PROVE  First(S) = i
  <1>1. First(S) \in S /\ \A j \in S : First(S) <= j
    BY DEF First
  <1>2. First(S) \in Nat /\ i \in Nat /\ First(S) <= i /\ i <= First(S)
    BY <1>1
  <1> QED
    BY <1>2

LEMMA SequenceOf ==
  ASSUME NEW n \in Nat, NEW s, s = [i \in 1..n |-> s[i]]
  PROVE  /\ s \in Seq(Range(s)) /\ Len(s) = n /\ DOMAIN s = 1..n
         /\ Range(s) = {s[i] : i \in 1..n}
  <1>1. DOMAIN s = 1..n
    OBVIOUS
  <1>2. Range(s) = {s[i] : i \in 1..n}
    BY <1>1 DEF Range
  <1>3. s \in Seq(Range(s))
    BY <1>1, <1>2
  <1> QED
    BY <1>1, <1>2, <1>3

LEMMA OneMore ==
  ASSUME NEW s, s \in Seq(Range(s)), NEW e
  PROVE  /\ Append(s, e) \in Seq(Range(Append(s, e))) /\ Len(s) \in Nat
         /\ Len(Append(s, e)) = Len(s) + 1 /\ DOMAIN Append(s, e) = 1..(Len(s) + 1)
         /\ DOMAIN s = 1..Len(s) /\ Append(s, e)[Len(s) + 1] = e
         /\ \A i \in 1..Len(s) : Append(s, e)[i] = s[i]
         /\ Range(Append(s, e)) = Range(s) \cup {e}
  <1>1. /\ Len(s) \in Nat /\ DOMAIN s = 1..Len(s)
        /\ s = [i \in 1..Len(s) |-> s[i]]
    OBVIOUS
  <1> DEFINE n == Len(s)
             S == Range(s) \cup {e}
  <1>2. Range(s) = {s[i] : i \in 1..n}
    BY <1>1, SequenceOf
  <1>3. s \in Seq(S)
    BY <1>1, <1>2
  <1>4. /\ Append(s, e) \in Seq(S) /\ Len(Append(s, e)) = n + 1
        /\ DOMAIN Append(s, e) = 1..(n + 1) /\ Append(s, e)[n + 1] = e
        /\ \A i \in 1..n : Append(s, e)[i] = s[i]
    BY <1>3
  <1>5. Range(Append(s, e)) = {Append(s, e)[i] : i \in 1..(n + 1)}
    BY <1>4 DEF Range
  <1>6. 1..(n + 1) = 1..n \cup {n + 1}
    BY <1>1
  <1>7. Range(Append(s, e)) = S
    BY <1>2, <1>4, <1>5, <1>6
  <1> QED
    BY <1>1, <1>4, <1>7

(* A list in ascending order is as long as what it lists has elements.     *)
LEMMA AscendingLength ==
  ASSUME NEW s \in Seq(Nat), \A i, j \in DOMAIN s : i < j => s[i] < s[j]
  PROVE  Cardinality(Range(s)) = Len(s)
  <1>1. Len(s) \in Nat /\ DOMAIN s = 1..Len(s) /\ \A i \in 1..Len(s) : s[i] \in Nat
    OBVIOUS
  <1>2. s \in [1..Len(s) -> Range(s)]
    BY <1>1 DEF Range
  <1>3. \A i, j \in 1..Len(s) : s[i] = s[j] => i = j
    BY <1>1
  <1>4. \A x \in Range(s) : \E i \in 1..Len(s) : s[i] = x
    BY <1>1 DEF Range
  <1>5. s \in Bijection(1..Len(s), Range(s))
    BY <1>2, <1>3, <1>4 DEF Bijection, Injection, Surjection, IsInjective
  <1> QED
    BY <1>1, <1>5, FS_CountingElements DEF ExistsBijection

-----------------------------------------------------------------------------
(* The analysis of one output.                                             *)

LEMMA LinesFinite ==
  ASSUME NEW output \in Seq(SUBSET Patterns), NEW patterns
  PROVE  /\ Lines(output, patterns) \subseteq DOMAIN output
         /\ Lines(output, patterns) \subseteq Nat /\ IsFiniteSet(Lines(output, patterns))
  <1>1. Len(output) \in Nat /\ DOMAIN output = 1..Len(output)
    OBVIOUS
  <1>2. IsFiniteSet(1..Len(output))
    BY <1>1, FS_Interval
  <1>3. Lines(output, patterns) \subseteq 1..Len(output)
    BY <1>1 DEF Lines
  <1> QED
    BY <1>1, <1>2, <1>3, FS_Subset

(* Lines later in S have more of S before them.                             *)
Rank(S, i) == Cardinality({j \in S : j < i})

LEMMA RankGrows ==
  ASSUME NEW S, S \subseteq Nat, IsFiniteSet(S)
  PROVE  /\ \A i \in S : Rank(S, i) \in Nat
         /\ \A i, k \in S : i < k => Rank(S, i) < Rank(S, k)
  <1> DEFINE Before(i) == {j \in S : j < i}
  <1>1. ASSUME NEW i \in S PROVE Rank(S, i) \in Nat /\ IsFiniteSet(Before(i))
    <2>1. Before(i) \subseteq S
      OBVIOUS
    <2> QED
      BY <2>1, FS_Subset, FS_CardinalityType DEF Rank
  <1>2. ASSUME NEW i \in S, NEW k \in S, i < k PROVE Rank(S, i) < Rank(S, k)
    <2>1. i \in Nat /\ k \in Nat
      OBVIOUS
    <2>a. \A j \in S : j \in Nat /\ (j < i => j < k)
      BY <1>2, <2>1
    <2>b. Before(i) \subseteq Before(k)
      BY <2>a
    <2>c. i \in Before(k)
      BY <1>2
    <2>d. i \notin Before(i)
      BY <2>1
    <2>2. Before(i) \subseteq Before(k) /\ i \in Before(k) /\ i \notin Before(i)
      BY <2>b, <2>c, <2>d
    <2>3. IsFiniteSet(Before(k)) /\ Before(i) # Before(k)
      BY <1>1, <2>2
    <2>4. /\ Rank(S, i) = Cardinality(Before(i)) /\ Rank(S, k) = Cardinality(Before(k))
          /\ Rank(S, i) \in Nat /\ Rank(S, k) \in Nat
      BY <1>1 DEF Rank
    <2> HIDE DEF Before
    <2>5. /\ Cardinality(Before(i)) <= Cardinality(Before(k))
          /\ Cardinality(Before(k)) = Cardinality(Before(i)) => Before(k) = Before(i)
      BY <2>2, <2>3, FS_Subset
    <2> QED
      BY <2>3, <2>4, <2>5
  <1> QED
    BY <1>1, <1>2

(* The rank of a line is below the limit, and no two lines have one rank.  *)
LEMMA BoundedBounds ==
  ASSUME AnalysisAssumption, NEW S, S \subseteq Nat, IsFiniteSet(S), NEW before \in Nat
  PROVE  /\ Bounded(S, before) \subseteq S /\ IsFiniteSet(Bounded(S, before))
         /\ before >= MaxItems => Bounded(S, before) = {}
         /\ before < MaxItems => Cardinality(Bounded(S, before)) <= MaxItems - before
  <1> DEFINE B == Bounded(S, before)
  <1>1. MaxItems \in Nat
    BY DEF AnalysisAssumption
  <1>2. B \subseteq S /\ \A i \in B : before + Rank(S, i) < MaxItems
    BY DEF Bounded, Rank
  <1>3. IsFiniteSet(B)
    BY <1>2, FS_Subset
  <1>4. \A i \in B : Rank(S, i) \in Nat /\ i \in Nat
    BY <1>2, RankGrows
  <1>5. \A i, k \in B : i < k => Rank(S, i) < Rank(S, k)
    BY <1>2, RankGrows
  <1> HIDE DEF B
  <1>6. CASE before >= MaxItems
    <2>1. \A i \in B : FALSE
      BY <1>1, <1>2, <1>4, <1>6
    <2> QED
      BY <1>1, <1>2, <1>3, <1>6, <2>1 DEF B
  <1>7. CASE before < MaxItems
    <2> DEFINE m == MaxItems - before
               rank == [i \in B |-> Rank(S, i)]
    <2>1. m \in Nat /\ m > 0
      BY <1>1, <1>7
    <2>2. \A i \in B : Rank(S, i) \in 0..(m - 1)
      BY <1>1, <1>2, <1>4, <1>7
    <2>3. \A i, k \in B : Rank(S, i) = Rank(S, k) => i = k
      BY <1>4, <1>5
    <2> HIDE DEF m
    <2>4. rank \in [B -> 0..(m - 1)]
      BY <2>2
    <2>5. \A i, k \in B : rank[i] = rank[k] => i = k
      BY <2>3
    <2> HIDE DEF rank
    <2>6. rank \in Injection(B, 0..(m - 1))
      BY <2>4, <2>5 DEF Injection, IsInjective
    <2>7. IsFiniteSet(0..(m - 1)) /\ Cardinality(0..(m - 1)) = m
      BY <2>1, FS_Interval
    <2>8. Cardinality(B) <= m
      BY <2>6, <2>7, FS_Injection
    <2> QED
      BY <1>1, <1>2, <1>3, <1>7, <2>8 DEF B, m
  <1> QED
    BY <1>1, <1>6, <1>7

LEMMA BoundedAlone ==
  ASSUME AnalysisAssumption, NEW S, S \subseteq Nat, IsFiniteSet(S)
  PROVE  /\ Bounded(S, 0) \subseteq S /\ IsFiniteSet(Bounded(S, 0))
         /\ Cardinality(Bounded(S, 0)) <= MaxItems
  <1>1. MaxItems \in Nat /\ 0 \in Nat /\ 0 < MaxItems /\ MaxItems - 0 = MaxItems
    BY DEF AnalysisAssumption
  <1>2. /\ Bounded(S, 0) \subseteq S /\ IsFiniteSet(Bounded(S, 0))
        /\ Cardinality(Bounded(S, 0)) <= MaxItems - 0
    BY <1>1, BoundedBounds
  <1> QED
    BY <1>1, <1>2

(* The headers of the report fill the room that the summary has left.      *)
LEMMA LikelyBounds ==
  ASSUME AnalysisAssumption, NEW output \in Seq(SUBSET Patterns)
  PROVE  Cardinality(LikelyTests(output)) <= MaxItems
  <1> DEFINE nodes == Lines(output, {"node"})
             others == Lines(output, {"header"}) \ nodes
             n == Cardinality(nodes)
             one == Bounded(nodes, 0)
             two == Bounded(others, n)
  <1>1. MaxItems \in Nat
    BY DEF AnalysisAssumption
  <1>2. nodes \subseteq Nat /\ IsFiniteSet(nodes)
    BY LinesFinite
  <1>3. others \subseteq Nat /\ IsFiniteSet(others)
    BY LinesFinite, FS_Difference
  <1>4. LikelyTests(output) = one \cup two
    BY DEF LikelyTests
  <1> HIDE DEF nodes, others
  <1>5. n \in Nat
    BY <1>2, FS_CardinalityType
  <1>6. one \subseteq nodes /\ IsFiniteSet(one) /\ Cardinality(one) <= MaxItems
    BY <1>2, BoundedAlone
  <1>7. /\ IsFiniteSet(two)
        /\ n >= MaxItems => two = {}
        /\ n < MaxItems => Cardinality(two) <= MaxItems - n
    BY <1>3, <1>5, BoundedBounds
  <1>8. Cardinality(one) <= n /\ Cardinality(one) \in Nat /\ Cardinality(two) \in Nat
    BY <1>2, <1>6, <1>7, FS_Subset, FS_CardinalityType
  <1>9. CASE n >= MaxItems
    <2>1. one \cup two = one
      BY <1>7, <1>9
    <2> QED
      BY <1>4, <1>6, <2>1
  <1>10. CASE n < MaxItems
    <2>1. Cardinality(one \cup two)
            = Cardinality(one) + Cardinality(two) - Cardinality(one \cap two)
      BY <1>6, <1>7, FS_Union
    <2>2. Cardinality(one \cap two) \in Nat
      <3>1. one \cap two \subseteq one
        OBVIOUS
      <3> QED
        BY <1>6, <3>1, FS_Subset, FS_CardinalityType
    <2>3. Cardinality(two) <= MaxItems - n
      BY <1>7, <1>10
    <2> HIDE DEF n, one, two
    <2>4. Cardinality(one \cup two) <= MaxItems
      BY <1>1, <1>5, <1>8, <2>1, <2>2, <2>3
    <2> QED
      BY <1>4, <2>4
  <1> QED
    BY <1>1, <1>5, <1>9, <1>10

(* What the analysis of a visible row shows.                               *)
LEMMA VisibleFits ==
  ASSUME AnalysisAssumption, NEW r \in TestRow
  PROVE  /\ \A i \in AnalyzeVisible(r).paths : "gold" \notin r.output[i]
         /\ \A S \in {AnalyzeVisible(r).tests, AnalyzeVisible(r).excerpts,
                      AnalyzeVisible(r).stack, AnalyzeVisible(r).paths} :
              Cardinality(S) <= MaxItems
  <1> DEFINE output == r.output
             files == Lines(output, {"file"}) \ Lines(output, {"gold"})
  <1>1. output \in Seq(SUBSET Patterns)
    BY DEF TestRow
  <1>2. /\ AnalyzeVisible(r).tests = LikelyTests(output)
        /\ AnalyzeVisible(r).excerpts = Bounded(Lines(output, {"error", "named"}), 0)
        /\ AnalyzeVisible(r).stack = Bounded(Lines(output, {"file"}), 0)
        /\ AnalyzeVisible(r).paths = Bounded(files, 0)
    BY DEF AnalyzeVisible, Matching, AffectedPaths
  <1> HIDE DEF output
  <1>3. files \subseteq Nat /\ IsFiniteSet(files)
    BY <1>1, LinesFinite, FS_Difference
  <1>4. Bounded(files, 0) \subseteq files /\ Cardinality(Bounded(files, 0)) <= MaxItems
    BY <1>3, BoundedAlone
  <1>5. \A i \in files : "gold" \notin output[i]
    BY DEF Lines
  <1>6. Cardinality(Bounded(Lines(output, {"error", "named"}), 0)) <= MaxItems
    BY <1>1, LinesFinite, BoundedAlone
  <1>7. Cardinality(Bounded(Lines(output, {"file"}), 0)) <= MaxItems
    BY <1>1, LinesFinite, BoundedAlone
  <1>8. Cardinality(LikelyTests(output)) <= MaxItems
    BY <1>1, LikelyBounds
  <1>9. \A i \in AnalyzeVisible(r).paths : "gold" \notin r.output[i]
    BY <1>2, <1>4, <1>5 DEF output
  <1> QED
    BY <1>2, <1>4, <1>6, <1>7, <1>8, <1>9

-----------------------------------------------------------------------------
(* Rows are only added, and the key of an event never changes.             *)

RowsStay ==
  /\ results' \in Seq(TestRow) /\ DOMAIN results \subseteq DOMAIN results'
  /\ \A i \in DOMAIN results : results'[i] = results[i]
EventsStay ==
  \A j \in DOMAIN events : j \in DOMAIN events' /\ events'[j].key = events[j].key

LEMMA RowsFinite ==
  ASSUME NEW S, IsFiniteSet(S), NEW T \in SUBSET S, NEW U \in SUBSET T
  PROVE  /\ IsFiniteSet(T) /\ IsFiniteSet(U)
         /\ Cardinality(T) \in Nat /\ Cardinality(U) \in Nat
         /\ Cardinality(U) <= Cardinality(T)
  <1>1. IsFiniteSet(T)
    BY FS_Subset
  <1>2. IsFiniteSet(U) /\ Cardinality(U) <= Cardinality(T)
    BY <1>1, FS_Subset
  <1> QED
    BY <1>1, <1>2, FS_CardinalityType

LEMMA HiddenFinite ==
  ASSUME results \in Seq(TestRow)
  PROVE  /\ Len(results) \in Nat /\ DOMAIN results = 1..Len(results)
         /\ \A i \in DOMAIN results : results[i] \in TestRow
         /\ Hidden \subseteq DOMAIN results /\ IsFiniteSet(Hidden)
         /\ FailedOf(Hidden) \subseteq Hidden /\ IsFiniteSet(FailedOf(Hidden))
         /\ Cardinality(Hidden) \in Nat /\ Cardinality(FailedOf(Hidden)) \in Nat
         /\ Cardinality(FailedOf(Hidden)) <= Cardinality(Hidden)
  <1>1. /\ Len(results) \in Nat /\ DOMAIN results = 1..Len(results)
        /\ \A i \in DOMAIN results : results[i] \in TestRow
    OBVIOUS
  <1>2. IsFiniteSet(DOMAIN results)
    BY <1>1, FS_Interval
  <1>3. Hidden \subseteq DOMAIN results /\ FailedOf(Hidden) \subseteq Hidden
    BY DEF Hidden, FailedOf
  <1> QED
    BY <1>1, <1>2, <1>3, RowsFinite

LEMMA HiddenStays ==
  ASSUME results \in Seq(TestRow), RowsStay
  PROVE  /\ Hidden \subseteq Hidden' /\ FailedOf(Hidden) \subseteq FailedOf(Hidden)'
         /\ \A i \in DOMAIN results : /\ Failed(i)' <=> Failed(i)
                                      /\ i \in Hidden' <=> i \in Hidden
         /\ \A S \in SUBSET DOMAIN results : S \cap Hidden' = S \cap Hidden
         /\ Cardinality(Hidden) <= Cardinality(Hidden')
         /\ Cardinality(FailedOf(Hidden)) <= Cardinality(FailedOf(Hidden)')
         /\ Cardinality(Hidden') \in Nat /\ Cardinality(FailedOf(Hidden)') \in Nat
  <1>1. \A i \in DOMAIN results : /\ Failed(i)' <=> Failed(i)
                                  /\ i \in Hidden' <=> i \in Hidden
    BY DEF RowsStay, Hidden, Failed
  <1>2. Hidden \subseteq DOMAIN results /\ FailedOf(Hidden) \subseteq Hidden
    BY DEF Hidden, FailedOf
  <1>3. Hidden \subseteq Hidden'
    BY <1>1, <1>2
  <1>4. FailedOf(Hidden) \subseteq FailedOf(Hidden)'
    BY <1>1, <1>2, <1>3 DEF FailedOf
  <1>5. IsFiniteSet(DOMAIN results')
    <2>1. Len(results') \in Nat /\ DOMAIN results' = 1..Len(results')
      BY DEF RowsStay
    <2> QED
      BY <2>1, FS_Interval
  <1>a. Hidden' \subseteq DOMAIN results' /\ FailedOf(Hidden)' \subseteq Hidden'
    BY DEF Hidden, FailedOf
  <1>6. /\ IsFiniteSet(Hidden') /\ IsFiniteSet(FailedOf(Hidden)')
        /\ Cardinality(Hidden') \in Nat /\ Cardinality(FailedOf(Hidden)') \in Nat
    BY <1>5, <1>a, RowsFinite
  <1>7. Cardinality(Hidden) <= Cardinality(Hidden')
    BY <1>3, <1>6, FS_Subset
  <1>8. Cardinality(FailedOf(Hidden)) <= Cardinality(FailedOf(Hidden)')
    BY <1>4, <1>6, FS_Subset
  <1> QED
    BY <1>1, <1>3, <1>4, <1>6, <1>7, <1>8

LEMMA PayloadStays ==
  ASSUME results \in Seq(TestRow), RowsStay, NEW k, NEW payload, PayloadFits(k, payload)
  PROVE  PayloadFits(k, payload)'
  <1> DEFINE failed == Cardinality(FailedOf(Hidden))
             rows == Cardinality(Hidden)
  <1>1. /\ failed <= failed' /\ rows <= rows'
        /\ failed \in Nat /\ failed' \in Nat /\ rows \in Nat /\ rows' \in Nat
    BY HiddenStays, HiddenFinite
  <1>2. CASE k = Aggregate
    <2>1. /\ payload.tests = {} /\ payload.excerpts = {} /\ payload.stack = {} /\ payload.paths = {}
          /\ payload.count \in 1..failed /\ payload.total \in payload.count..rows
      BY <1>2 DEF PayloadFits
    <2> HIDE DEF failed, rows
    <2>2. payload.count \in 1..failed' /\ payload.total \in payload.count..rows'
      BY <1>1, <2>1
    <2> QED
      BY <1>2, <2>1, <2>2 DEF PayloadFits, failed, rows
  <1>3. CASE k # Aggregate
    <2>1. k \in DOMAIN results \ Hidden /\ Failed(k) /\ payload = AnalyzeVisible(results[k])
      BY <1>3 DEF PayloadFits
    <2>2. k \in DOMAIN results' /\ results'[k] = results[k]
      BY <2>1 DEF RowsStay
    <2>3. k \notin Hidden' /\ Failed(k)'
      BY <2>1, HiddenStays
    <2> QED
      BY <1>3, <2>1, <2>2, <2>3 DEF PayloadFits
  <1> QED
    BY <1>2, <1>3

LEMMA AnalyzingStays ==
  ASSUME results \in Seq(TestRow), RowsStay, EventsStay, NEW a, Analyzing(a)
  PROVE  Analyzing(a)'
  <1>1. /\ DOMAIN a = AnalysisFields /\ a.pc \in {"idle", "next", "lookup", "store"}
        /\ RowsOf(a) /\ Answers(a) /\ Ordered(a)
        /\ \A k \in Pending(a) : PayloadFits(k, a.payload)
        /\ a.found = 0 \/ a.found \in DOMAIN events
        /\ a.pc = "store" /\ a.found # 0 => events[a.found].key = a.key
    BY DEF Analyzing
  <1>2. a.asked \subseteq DOMAIN results /\ Taken(a) \subseteq DOMAIN results
    BY <1>1 DEF RowsOf, Taken
  <1>3. /\ a.asked \cap Hidden' = a.asked \cap Hidden
        /\ Taken(a) \cap Hidden' = Taken(a) \cap Hidden
        /\ Taken(a) \ Hidden' = Taken(a) \ Hidden
    BY <1>2, HiddenStays
  <1>4. RowsOf(a)'
    BY <1>1, <1>2, HiddenStays DEF RowsOf, RowsStay, Taken
  <1>5. Answers(a)'
    BY <1>1, <1>3 DEF Answers, Taken, Pending
  <1>6. Ordered(a)'
    <2>1. \A l : InPlace(a, l)' = InPlace(a, l)
      BY <1>3 DEF InPlace
    <2>2. /\ \A i, j \in DOMAIN a.out : i < j => InPlace(a, a.out[i]) < InPlace(a, a.out[j])
          /\ \A i \in DOMAIN a.out : \A k \in Pending(a) : InPlace(a, a.out[i]) < InPlace(a, k)
      BY <1>1 DEF Ordered
    <2> QED
      BY <2>1, <2>2 DEF Ordered, Pending
  <1>7. \A k \in Pending(a) : PayloadFits(k, a.payload)'
    BY <1>1, PayloadStays
  <1>8. /\ a.found = 0 \/ a.found \in DOMAIN events'
        /\ a.pc = "store" /\ a.found # 0 => events'[a.found].key = a.key
    BY <1>1 DEF EventsStay
  <1> QED
    BY <1>1, <1>4, <1>5, <1>6, <1>7, <1>8 DEF Analyzing, Pending

LEMMA EventsKept ==
  ASSUME results \in Seq(TestRow), RowsStay, EventsFit, UNCHANGED events
  PROVE  EventsFit' /\ EventsStay
  <1>1. \A j \in DOMAIN events : events[j].key \in Nat
                                 /\ PayloadFits(events[j].key, events[j].payload)'
    <2>1. ASSUME NEW j \in DOMAIN events
          PROVE  events[j].key \in Nat /\ PayloadFits(events[j].key, events[j].payload)'
      <3>1. PICK k : k = events[j].key
        OBVIOUS
      <3>2. PICK payload : payload = events[j].payload
        OBVIOUS
      <3>3. events[j].key \in Nat /\ PayloadFits(k, payload)
        BY <3>1, <3>2 DEF EventsFit
      <3>4. PayloadFits(k, payload)'
        BY <3>3, PayloadStays
      <3>5. events'[j].key = k /\ events'[j].payload = payload
        BY <3>1, <3>2
      <3> QED
        BY <3>1, <3>2, <3>3, <3>4, <3>5 DEF PayloadFits
    <2> QED
      BY <2>1
  <1>2. EventsStay
    BY DEF EventsStay
  <1> QED
    BY <1>1, <1>2 DEF EventsFit

(* Every analyzer but one goes on as it was.                               *)
AnalysesFit ==
  /\ DOMAIN analysis = Analyzers /\ analysis = [p \in Analyzers |-> analysis[p]]
  /\ \A p \in Analyzers : Analyzing(analysis[p]) /\ (analysis[p].again => p = Service)

LEMMA OneAnalysis ==
  ASSUME AnalysesFit, NEW p \in Analyzers, NEW a, analysis' = [analysis EXCEPT ![p] = a]
  PROVE  /\ DOMAIN analysis' = Analyzers /\ analysis' = [q \in Analyzers |-> analysis'[q]]
         /\ analysis'[p] = a /\ \A q \in Analyzers : q # p => analysis'[q] = analysis[q]
  BY DEF AnalysesFit

LEMMA OthersStay ==
  ASSUME results \in Seq(TestRow), RowsStay, EventsStay, AnalysesFit, NEW p \in Analyzers, NEW a,
         analysis' = [analysis EXCEPT ![p] = a], Analyzing(a)', a.again => p = Service
  PROVE  AnalysesFit'
  <1>1. /\ DOMAIN analysis' = Analyzers /\ analysis' = [q \in Analyzers |-> analysis'[q]]
        /\ analysis'[p] = a /\ \A q \in Analyzers : q # p => analysis'[q] = analysis[q]
    BY OneAnalysis
  <1>2. ASSUME NEW q \in Analyzers
        PROVE  Analyzing(analysis[q])' /\ (analysis'[q].again => q = Service)
    <2>1. PICK b : b = analysis'[q]
      OBVIOUS
    <2>2. Analyzing(b)' /\ (b.again => q = Service)
      <3>1. CASE q = p
        BY <1>1, <2>1, <3>1
      <3>2. CASE q # p
        <4>1. Analyzing(b) /\ (b.again => q = Service)
          BY <1>1, <2>1, <3>2 DEF AnalysesFit
        <4> QED
          BY <4>1, AnalyzingStays
      <3> QED
        BY <3>1, <3>2
    <2> QED
      BY <2>1, <2>2
  <1> QED
    BY <1>1, <1>2 DEF AnalysesFit

LEMMA AllStay ==
  ASSUME results \in Seq(TestRow), RowsStay, EventsStay, AnalysesFit, UNCHANGED analysis
  PROVE  AnalysesFit'
  <1>1. ASSUME NEW q \in Analyzers PROVE Analyzing(analysis[q])'
    <2>1. PICK b : b = analysis[q]
      OBVIOUS
    <2>2. Analyzing(b)'
      BY <2>1, AnalyzingStays DEF AnalysesFit
    <2>3. b = analysis'[q]
      BY <2>1
    <2> QED
      BY <2>2, <2>3
  <1> QED
    BY <1>1 DEF AnalysesFit

-----------------------------------------------------------------------------
(* Events of one key.                                                      *)

LEMMA AnalyzersFinite ==
  ASSUME AnalysisAssumption, NEW S \in SUBSET Analyzers
  PROVE  /\ IsFiniteSet(S) /\ Cardinality(S) \in Nat /\ Cardinality(Analyzers) \in Nat
         /\ Cardinality(S) <= Cardinality(Analyzers)
  <1>1. IsFiniteSet(Readers \cup {Service})
    BY FS_AddElement DEF AnalysisAssumption
  <1>2. IsFiniteSet(Analyzers)
    BY <1>1 DEF Analyzers
  <1> QED
    BY <1>2, FS_Subset, FS_CardinalityType

LEMMA KeysFinite ==
  ASSUME events \in Seq(Range(events)), NEW k
  PROVE  /\ Len(events) \in Nat /\ DOMAIN events = 1..Len(events)
         /\ WithKey(k) \subseteq 1..Len(events)
         /\ IsFiniteSet(WithKey(k)) /\ Cardinality(WithKey(k)) \in Nat
  <1>1. Len(events) \in Nat /\ DOMAIN events = 1..Len(events)
    OBVIOUS
  <1>2. WithKey(k) \subseteq 1..Len(events)
    BY <1>1 DEF WithKey
  <1>3. IsFiniteSet(1..Len(events))
    BY <1>1, FS_Interval
  <1>4. IsFiniteSet(WithKey(k))
    BY <1>2, <1>3, FS_Subset
  <1> QED
    BY <1>1, <1>2, <1>4, FS_CardinalityType

LEMMA FewerInsert ==
  ASSUME AnalysisAssumption, events \in Seq(Range(events)), DuplicatesBounded, NEW k \in Nat,
         WithKey(k)' = WithKey(k), Inserting(k)' \subseteq Inserting(k) \/ WithKey(k) = {}
  PROVE  Cardinality(WithKey(k)') + Cardinality(Inserting(k)') <= Cardinality(Analyzers)
  <1>1. IsFiniteSet(WithKey(k)) /\ Cardinality(WithKey(k)) \in Nat
    BY KeysFinite
  <1>2. Inserting(k) \subseteq Analyzers /\ Inserting(k)' \subseteq Analyzers
    BY DEF Inserting
  <1>3. /\ IsFiniteSet(Inserting(k)) /\ Cardinality(Inserting(k)) \in Nat
        /\ Cardinality(Analyzers) \in Nat
    BY <1>2, AnalyzersFinite
  <1>4. Cardinality(Inserting(k)') \in Nat /\ Cardinality(Inserting(k)') <= Cardinality(Analyzers)
    BY <1>2, AnalyzersFinite
  <1>5. CASE Inserting(k)' \subseteq Inserting(k)
    <2>1. Cardinality(Inserting(k)') <= Cardinality(Inserting(k))
      BY <1>3, <1>5, FS_Subset
    <2>2. Cardinality(WithKey(k)) + Cardinality(Inserting(k)) <= Cardinality(Analyzers)
      BY DEF DuplicatesBounded
    <2> QED
      BY <1>1, <1>3, <1>4, <2>1, <2>2
  <1>6. CASE WithKey(k) = {}
    <2>1. Cardinality(WithKey(k)') = 0
      BY <1>6, FS_EmptySet
    <2> QED
      BY <1>3, <1>4, <2>1
  <1> QED
    BY <1>5, <1>6

-----------------------------------------------------------------------------
(* One lemma per action.                                                   *)

LEMMA InvTells ==
  AnalysisInv <=> /\ PhaseFits /\ EventsFit /\ DuplicatesBounded /\ ServiceFits /\ FeedbackFits
                  /\ AnalysesFit
  BY DEF AnalysisInv, AnalysesFit

LEMMA NothingMoves ==
  ASSUME AnalysisInv, UNCHANGED results
  PROVE  results \in Seq(TestRow) /\ RowsStay
  BY DEF AnalysisInv, PhaseFits, RowsStay

LEMMA FeedbackStays ==
  ASSUME results \in Seq(TestRow), RowsStay, FeedbackFits, UNCHANGED feedback
  PROVE  FeedbackFits'
  <1> SUFFICES ASSUME feedback.total # 0 PROVE FeedbackFits'
    BY DEF FeedbackFits
  <1>1. /\ feedback.rows \subseteq DOMAIN results
        /\ \A i \in feedback.rows : results[i].phase = "post_patch"
        /\ feedback.total = Cardinality(feedback.rows)
        /\ feedback.failed = Cardinality(FailedOf(feedback.rows))
        /\ feedback.shown \in 1..feedback.failed
    BY DEF FeedbackFits
  <1>2. FailedOf(feedback.rows)' = FailedOf(feedback.rows)
    BY <1>1, HiddenStays DEF FailedOf
  <1>3. /\ feedback.rows \subseteq DOMAIN results'
        /\ \A i \in feedback.rows : results'[i].phase = "post_patch"
    BY <1>1 DEF RowsStay
  <1> QED
    BY <1>1, <1>2, <1>3 DEF FeedbackFits

(* The analysis that Begin sets out on.                                    *)
Begun(rows, again) ==
  [Idle EXCEPT !.pc = "next", !.todo = ToAnalyze(rows), !.asked = FailedOf(rows), !.again = again]

LEMMA IdleFits ==
  ASSUME results \in Seq(TestRow)
  PROVE  Analyzing(Idle) /\ Idle.again = FALSE /\ Idle.pc = "idle"
  <1>1. /\ DOMAIN Idle = AnalysisFields /\ Idle.pc = "idle" /\ Idle.again = FALSE
        /\ Idle.asked = {} /\ Idle.todo = {} /\ Idle.out = <<>> /\ Idle.hidden = FALSE
        /\ Idle.key = 0 /\ Idle.found = 0
    BY DEF Idle, AnalysisFields
  <1>2. Taken(Idle) = {} /\ Pending(Idle) = {}
    BY <1>1 DEF Taken, Pending
  <1>3. RowsOf(Idle)
    BY <1>1, <1>2 DEF RowsOf
  <1>4. DOMAIN Idle.out = {} /\ Range(Idle.out) = {} /\ Idle.out \in Seq(Nat)
    BY <1>1 DEF Range
  <1>5. Answers(Idle)
    <2>1. Idle.out \in Seq(Nat) /\ Idle.key \in Nat
      BY <1>1, <1>4
    <2>2. Idle.hidden \in BOOLEAN /\ ~Idle.hidden
      BY <1>1, Zenon
    <2>3. /\ Range(Idle.out) \cup Pending(Idle) = Taken(Idle) \ Hidden
          /\ Taken(Idle) \cap Hidden = {}
      BY <1>2, <1>4
    <2> QED
      BY <2>1, <2>2, <2>3 DEF Answers
  <1>6. Ordered(Idle)
    BY <1>4 DEF Ordered
  <1> QED
    BY <1>1, <1>2, <1>3, <1>5, <1>6 DEF Analyzing

LEMMA BegunFits ==
  ASSUME results \in Seq(TestRow), NEW rows \in SUBSET DOMAIN results, NEW again
  PROVE  /\ Analyzing(Begun(rows, again)) /\ Begun(rows, again).again = again
         /\ Begun(rows, again).pc = "next" /\ Begun(rows, again).asked = FailedOf(rows)
  <1> DEFINE a == Begun(rows, again)
  <1>1. /\ DOMAIN a = AnalysisFields /\ a.pc = "next" /\ a.again = again
        /\ a.asked = FailedOf(rows) /\ a.todo = FailedOf(rows) /\ a.out = <<>> /\ a.hidden = FALSE
        /\ a.key = 0 /\ a.found = 0
    BY DEF Begun, Idle, AnalysisFields, ToAnalyze
  <1> HIDE DEF a
  <1>2. Taken(a) = {} /\ Pending(a) = {}
    BY <1>1 DEF Taken, Pending
  <1>3. RowsOf(a)
    BY <1>1, <1>2 DEF RowsOf, FailedOf
  <1>4. DOMAIN a.out = {} /\ Range(a.out) = {} /\ a.out \in Seq(Nat)
    BY <1>1 DEF Range
  <1>5. Answers(a)
    <2>1. a.out \in Seq(Nat) /\ a.key \in Nat
      BY <1>1, <1>4
    <2>2. a.hidden \in BOOLEAN /\ ~a.hidden
      BY <1>1, Zenon
    <2>3. /\ Range(a.out) \cup Pending(a) = Taken(a) \ Hidden
          /\ Taken(a) \cap Hidden = {}
      BY <1>2, <1>4
    <2> QED
      BY <2>1, <2>2, <2>3 DEF Answers
  <1>6. Ordered(a)
    BY <1>4 DEF Ordered
  <1>7. Analyzing(a)
    BY <1>1, <1>2, <1>3, <1>5, <1>6 DEF Analyzing
  <1> QED
    BY <1>1, <1>7 DEF a

LEMMA RowsOfPhase ==
  ASSUME PhaseFits
  PROVE  /\ PhaseRows \subseteq DOMAIN results /\ IsFiniteSet(PhaseRows)
         /\ Cardinality(PhaseRows) = ran
  <1>1. /\ Len(results) \in Nat /\ DOMAIN results = 1..Len(results) /\ ran \in Nat
        /\ ran <= Len(results)
    BY DEF PhaseFits
  <1>2. PhaseRows \subseteq DOMAIN results
    BY <1>1 DEF PhaseRows
  <1>3. /\ IsFiniteSet(Len(results) - ran + 1 .. Len(results))
        /\ Cardinality(Len(results) - ran + 1 .. Len(results)) = ran
    BY <1>1, FS_Interval
  <1> QED
    BY <1>2, <1>3 DEF PhaseRows

LEMMA ScriptTells ==
  ASSUME AnalysisAssumption
  PROVE  /\ Len(Script) \in Nat /\ MaxReads \in Nat
         /\ \A i \in 1..Len(Script) : /\ Script[i].phase \in TestPhases
                                      /\ Script[i].commands \in Nat /\ Script[i].commands > 0
  <1> DEFINE T == [phase : TestPhases, commands : Nat \ {0}]
  <1>1. Script \in Seq(T) /\ MaxReads \in Nat
    BY DEF AnalysisAssumption
  <1>2. \A s \in T : s.phase \in TestPhases /\ s.commands \in Nat /\ s.commands > 0
    OBVIOUS
  <1> HIDE DEF T
  <1>3. Len(Script) \in Nat /\ \A i \in 1..Len(Script) : Script[i] \in T
    BY <1>1
  <1> QED
    BY <1>1, <1>2, <1>3

LEMMA InitFits ==
  ASSUME AnalysisAssumption, AnalysisInit
  PROVE  AnalysisInv
  <1> USE DEF AnalysisInit
  <1>1. PhaseFits
    <2>1. /\ Len(Script) \in Nat
          /\ 1 <= Len(Script) => Script[1].commands \in Nat
      BY ScriptTells
    <2>2. Len(results) = 0 /\ results \in Seq(TestRow) /\ Len(results) - ran + 1 = 1
      OBVIOUS
    <2>3. 1..0 = {}
      OBVIOUS
    <2>4. PhaseRows = {}
      BY <2>2, <2>3 DEF PhaseRows
    <2>a. reads \in 0..MaxReads
      BY ScriptTells
    <2>b. dead \in BOOLEAN
      BY Zenon
    <2>5. reads \in 0..MaxReads /\ dead \in BOOLEAN /\ abandoned \subseteq DOMAIN results
      BY <2>a, <2>b
    <2>6. /\ position \in 1..Len(Script) + 1 /\ ran \in Nat /\ ran <= Len(results)
          /\ position <= Len(Script) => ran <= Script[position].commands
          /\ position > Len(Script) => ran = 0
      BY <2>1, <2>2
    <2> QED
      BY <2>2, <2>4, <2>5, <2>6 DEF PhaseFits
  <1>2. EventsFit
    BY DEF EventsFit, Range
  <1>3. /\ DOMAIN analysis = Analyzers /\ analysis = [p \in Analyzers |-> analysis[p]]
        /\ \A p \in Analyzers : analysis[p] = Idle
    OBVIOUS
  <1>4. AnalysesFit
    BY <1>1, <1>3, IdleFits DEF AnalysesFit, PhaseFits
  <1>5. DuplicatesBounded
    <2>1. ASSUME NEW k \in Nat PROVE Inserting(k) = {} /\ WithKey(k) = {}
      BY <1>3 DEF Inserting, WithKey, Idle
    <2>2. Cardinality({}) = 0 /\ Cardinality(Analyzers) \in Nat
      BY FS_EmptySet, AnalyzersFinite
    <2>3. ASSUME NEW k \in Nat
          PROVE  Cardinality(WithKey(k)) + Cardinality(Inserting(k)) <= Cardinality(Analyzers)
      <3>1. Cardinality(WithKey(k)) = 0 /\ Cardinality(Inserting(k)) = 0
        BY <2>1, <2>2
      <3> QED
        BY <2>2, <3>1
    <2> QED
      BY <2>3 DEF DuplicatesBounded
  <1>6. ServiceFits
    BY <1>3 DEF ServiceFits, Idle, Analyzers
  <1>7. FeedbackFits
    BY DEF FeedbackFits
  <1> QED
    BY <1>1, <1>2, <1>4, <1>5, <1>6, <1>7, InvTells

(* A step of one analyzer that inserts nothing and begins no insertion.    *)
LEMMA OneMoves ==
  ASSUME AnalysisAssumption, AnalysisInv, UNCHANGED <<results, events>>,
         NEW p \in Analyzers, NEW a, analysis' = [analysis EXCEPT ![p] = a],
         Analyzing(a), a.again => p = Service, a.pc = "store" /\ a.found = 0 => WithKey(a.key) = {}
  PROVE  /\ EventsFit' /\ DuplicatesBounded' /\ AnalysesFit' /\ analysis'[p] = a
         /\ \A q \in Analyzers : q # p => analysis'[q] = analysis[q]
  <1>1. /\ EventsFit /\ DuplicatesBounded /\ AnalysesFit
        /\ results \in Seq(TestRow) /\ RowsStay
    BY InvTells, NothingMoves
  <1>2. EventsFit' /\ EventsStay
    BY <1>1, EventsKept
  <1>3. Analyzing(a)'
    BY <1>1, <1>2, AnalyzingStays
  <1>4. AnalysesFit'
    BY <1>1, <1>2, <1>3, OthersStay
  <1>5. analysis'[p] = a /\ \A q \in Analyzers : q # p => analysis'[q] = analysis[q]
    BY <1>1, OneAnalysis
  <1>6. ASSUME NEW k \in Nat PROVE Inserting(k)' \subseteq Inserting(k) \/ WithKey(k) = {}
    BY <1>5 DEF Inserting
  <1>7. DuplicatesBounded'
    <2>1. ASSUME NEW k \in Nat PROVE WithKey(k)' = WithKey(k)
      BY DEF WithKey
    <2>2. events \in Seq(Range(events))
      BY <1>1 DEF EventsFit
    <2>3. ASSUME NEW k \in Nat
          PROVE  Cardinality(WithKey(k)') + Cardinality(Inserting(k)') <= Cardinality(Analyzers)
      BY <1>1, <1>6, <2>1, <2>2, FewerInsert
    <2> QED
      BY <2>3 DEF DuplicatesBounded
  <1> QED
    BY <1>2, <1>4, <1>5, <1>7

LEMMA ServiceSame ==
  ASSUME ServiceFits, UNCHANGED <<results, position, ran>>,
         analysis'[Service].pc = "idle" <=> analysis[Service].pc = "idle",
         analysis'[Service].asked = analysis[Service].asked,
         analysis'[Service].again = analysis[Service].again
  PROVE  ServiceFits'
  <1>1. FailedOf(PhaseRows)' = FailedOf(PhaseRows)
    BY DEF FailedOf, Failed, PhaseRows
  <1> QED
    BY <1>1 DEF ServiceFits

LEMMA PhaseSame ==
  ASSUME PhaseFits, UNCHANGED <<results, position, ran, abandoned>>, reads' \in 0..MaxReads,
         dead' \in BOOLEAN
  PROVE  PhaseFits'
  BY DEF PhaseFits, PhaseRows

LEMMA ServiceAnalyzes ==
  Service \in Analyzers
  BY DEF Analyzers

LEMMA RunCommandKeeps ==
  ASSUME AnalysisAssumption, AnalysisInv, NEW o \in CommandOutcomes, RunCommand(o)
  PROVE  AnalysisInv'
  <1> DEFINE r == [phase |-> Script[position].phase, exit |-> o.exit, output |-> o.output]
             n == Len(results)
  <1>1. /\ PhaseFits /\ EventsFit /\ DuplicatesBounded /\ ServiceFits /\ FeedbackFits
        /\ AnalysesFit
    BY InvTells
  <1>2. /\ position <= Len(Script) /\ ran < Script[position].commands
        /\ results' = Append(results, r) /\ ran' = ran + 1
        /\ UNCHANGED <<position, analysis, events, feedback, reads, dead, abandoned>>
    BY DEF RunCommand
  <1>3. /\ results \in Seq(TestRow) /\ position \in 1..Len(Script) + 1 /\ ran \in Nat /\ ran <= n
        /\ \A i \in PhaseRows : results[i].phase = Script[position].phase
    BY <1>1 DEF PhaseFits
  <1>4. position \in 1..Len(Script) /\ position \in Nat
    BY <1>2, <1>3, ScriptTells
  <1>5. Script[position].phase \in TestPhases /\ Script[position].commands \in Nat
    BY <1>4, ScriptTells
  <1>6. o.exit \in Nat /\ o.output \in Seq(SUBSET Patterns)
    BY DEF AnalysisAssumption, CommandResult
  <1>7. r \in TestRow /\ r.phase = Script[position].phase
    BY <1>5, <1>6 DEF TestRow
  <1> HIDE DEF r
  <1>8. /\ n \in Nat /\ DOMAIN results = 1..n /\ results' \in Seq(TestRow) /\ Len(results') = n + 1
        /\ DOMAIN results' = 1..(n + 1) /\ results'[n + 1] = r
        /\ \A i \in 1..n : results'[i] = results[i]
    BY <1>2, <1>3, <1>7
  <1> HIDE DEF n
  <1>9. RowsStay
    BY <1>8 DEF RowsStay
  <1>10. EventsFit' /\ EventsStay
    BY <1>1, <1>2, <1>3, <1>9, EventsKept
  <1>11. AnalysesFit'
    BY <1>1, <1>2, <1>3, <1>9, <1>10, AllStay
  <1>12. DuplicatesBounded'
    <2>1. \A k \in Nat : Inserting(k)' = Inserting(k) /\ WithKey(k)' = WithKey(k)
      BY <1>2 DEF Inserting, WithKey
    <2> QED
      BY <1>1, <2>1 DEF DuplicatesBounded
  <1>13. FeedbackFits'
    BY <1>1, <1>2, <1>3, <1>9, FeedbackStays
  <1>14. ServiceFits'
    <2>1. analysis[Service].pc = "idle"
      BY <1>1, <1>2, <1>3, <1>5 DEF ServiceFits
    <2> QED
      BY <1>1, <1>2, <2>1 DEF ServiceFits
  <1>15. PhaseFits'
    <2>1. PhaseRows' = PhaseRows \cup {n + 1}
      <3>1. PhaseRows' = n + 1 - (ran + 1) + 1 .. n + 1 /\ PhaseRows = n - ran + 1 .. n
        BY <1>2, <1>8 DEF PhaseRows, n
      <3> QED
        BY <1>3, <1>8, <3>1
    <2>2. PhaseRows \subseteq 1..n
      BY <1>1, <1>8, RowsOfPhase
    <2>3. \A i \in PhaseRows' : results'[i].phase = Script[position]'.phase
      BY <1>2, <1>3, <1>7, <1>8, <2>1, <2>2
    <2>4. reads \in 0..MaxReads /\ dead \in BOOLEAN /\ abandoned \subseteq DOMAIN results'
      BY <1>1, <1>9 DEF PhaseFits, RowsStay
    <2>5. /\ ran' \in Nat /\ ran' <= Len(results') /\ ran' <= Script[position].commands
          /\ ~(position > Len(Script))
      BY <1>2, <1>3, <1>4, <1>5, <1>8, ScriptTells
    <2> QED
      BY <1>2, <1>3, <1>8, <2>3, <2>4, <2>5 DEF PhaseFits
  <1> QED
    BY <1>10, <1>11, <1>12, <1>13, <1>14, <1>15, InvTells DEF AnalysisInv, AnalysesFit

LEMMA AnalyzePhaseKeeps ==
  ASSUME AnalysisAssumption, AnalysisInv, AnalyzePhase
  PROVE  AnalysisInv'
  <1>1. /\ PhaseFits /\ ServiceFits /\ FeedbackFits
        /\ results \in Seq(TestRow) /\ RowsStay
    BY InvTells, NothingMoves DEF AnalyzePhase
  <1>2. /\ position <= Len(Script) /\ ran = Script[position].commands
        /\ UNCHANGED <<results, position, ran, events, feedback, reads, dead, abandoned>>
    BY DEF AnalyzePhase
  <1>3. PICK a : a = Begun(PhaseRows, FALSE)
    OBVIOUS
  <1>4. analysis' = [analysis EXCEPT ![Service] = a]
    BY <1>3 DEF AnalyzePhase, Begin, Begun
  <1>5. Analyzing(a) /\ a.again = FALSE /\ a.pc = "next" /\ a.asked = FailedOf(PhaseRows)
    BY <1>1, <1>3, BegunFits, RowsOfPhase
  <1>6. ~a.again
    BY <1>5, Zenon
  <1>7. /\ EventsFit' /\ DuplicatesBounded' /\ AnalysesFit' /\ analysis'[Service] = a
    BY <1>2, <1>4, <1>5, <1>6, ServiceAnalyzes, OneMoves
  <1>8. PhaseFits'
    BY <1>1, <1>2, PhaseSame DEF PhaseFits
  <1>9. FeedbackFits'
    BY <1>1, <1>2, FeedbackStays
  <1>10. ServiceFits'
    <2>1. FailedOf(PhaseRows)' = FailedOf(PhaseRows)
      BY <1>2 DEF FailedOf, Failed, PhaseRows
    <2> QED
      BY <1>2, <1>5, <1>6, <1>7, <2>1 DEF ServiceFits
  <1> QED
    BY <1>7, <1>8, <1>9, <1>10 DEF AnalysisInv, AnalysesFit

LEMMA ReadKeeps ==
  ASSUME AnalysisAssumption, AnalysisInv, NEW p \in Readers, Read(p)
  PROVE  AnalysisInv'
  <1>1. /\ PhaseFits /\ ServiceFits /\ FeedbackFits
        /\ results \in Seq(TestRow) /\ RowsStay
    BY InvTells, NothingMoves DEF Read
  <1>2. /\ reads < MaxReads /\ reads' = reads + 1
        /\ UNCHANGED <<results, position, ran, events, feedback, dead, abandoned>>
    BY DEF Read
  <1>3. p \in Analyzers /\ p # Service
    BY DEF AnalysisAssumption, Analyzers
  <1>4. PICK a : a = Begun(DOMAIN results, FALSE)
    OBVIOUS
  <1>5. analysis' = [analysis EXCEPT ![p] = a]
    BY <1>4 DEF Read, Begin, Begun
  <1>6. Analyzing(a) /\ a.again = FALSE /\ a.pc = "next"
    BY <1>1, <1>4, BegunFits
  <1>7. ~a.again
    BY <1>6, Zenon
  <1>8. /\ EventsFit' /\ DuplicatesBounded' /\ AnalysesFit'
        /\ \A q \in Analyzers : q # p => analysis'[q] = analysis[q]
    BY <1>2, <1>3, <1>5, <1>6, <1>7, OneMoves
  <1>9. analysis'[Service] = analysis[Service]
    BY <1>3, <1>8, ServiceAnalyzes
  <1>10. PhaseFits'
    <2>1. reads' \in 0..MaxReads /\ dead' \in BOOLEAN
      BY <1>1, <1>2, ScriptTells DEF PhaseFits
    <2> QED
      BY <1>1, <1>2, <2>1, PhaseSame
  <1>11. FeedbackFits'
    BY <1>1, <1>2, FeedbackStays
  <1>12. ServiceFits'
    BY <1>1, <1>2, <1>9, ServiceSame
  <1> QED
    BY <1>8, <1>10, <1>11, <1>12 DEF AnalysisInv, AnalysesFit

(* The parts of what is known of an analysis.                              *)
LEMMA AnalyzingTells ==
  ASSUME AnalysisInv, NEW p \in Analyzers, NEW a, a = analysis[p]
  PROVE  /\ Analyzing(a) /\ DOMAIN a = AnalysisFields /\ RowsOf(a) /\ Answers(a) /\ Ordered(a)
         /\ \A k \in Pending(a) : PayloadFits(k, a.payload)
         /\ a.found = 0 \/ a.found \in DOMAIN events
         /\ a.pc = "store" /\ a.found # 0 => events[a.found].key = a.key
         /\ a.again => p = Service
         /\ a.asked \subseteq DOMAIN results /\ a.todo \subseteq a.asked
  BY InvTells DEF AnalysesFit, Analyzing, RowsOf

LEMMA AnswersTell ==
  ASSUME NEW a, Answers(a)
  PROVE  /\ a.out \in Seq(Nat) /\ a.hidden \in BOOLEAN /\ a.key \in Nat
         /\ a.hidden => /\ Range(a.out) \cup Pending(a) = (Taken(a) \ Hidden) \cup {Aggregate}
                        /\ First(a.asked \cap Hidden) \in Taken(a) \cap Hidden
         /\ ~a.hidden => /\ Range(a.out) \cup Pending(a) = Taken(a) \ Hidden
                         /\ Taken(a) \cap Hidden = {}
  BY DEF Answers

LEMMA AnswersFrom ==
  ASSUME NEW a, a.out \in Seq(Nat), a.hidden \in BOOLEAN, a.key \in Nat,
         a.hidden => /\ Range(a.out) \cup Pending(a) = (Taken(a) \ Hidden) \cup {Aggregate}
                     /\ First(a.asked \cap Hidden) \in Taken(a) \cap Hidden,
         ~a.hidden => /\ Range(a.out) \cup Pending(a) = Taken(a) \ Hidden
                      /\ Taken(a) \cap Hidden = {}
  PROVE  Answers(a)
  BY DEF Answers

(* A hidden row whose aggregate is already made is passed over.            *)
LEMMA PassOver ==
  ASSUME AnalysisInv, NEW a, Analyzing(a), a.pc = "next", a.hidden, NEW i \in a.todo, i \in Hidden,
         \A j \in a.todo : i <= j, NEW b, b = [a EXCEPT !.todo = @ \ {i}]
  PROVE  Analyzing(b) /\ b.pc = "next" /\ b.asked = a.asked /\ b.again = a.again
  <1>1. /\ DOMAIN a = AnalysisFields /\ RowsOf(a) /\ Answers(a) /\ Ordered(a)
        /\ a.found = 0 \/ a.found \in DOMAIN events
    BY DEF Analyzing
  <1>2. /\ DOMAIN b = AnalysisFields /\ b.pc = a.pc /\ b.asked = a.asked /\ b.again = a.again
        /\ b.out = a.out /\ b.hidden = a.hidden /\ b.key = a.key /\ b.found = a.found
        /\ b.todo = a.todo \ {i}
    BY <1>1 DEF AnalysisFields
  <1>3. /\ a.asked \subseteq DOMAIN results /\ a.todo \subseteq a.asked
        /\ \A j \in a.asked : Failed(j)
        /\ \A j \in Taken(a), k \in a.todo : j < k
    BY <1>1 DEF RowsOf
  <1>4. Taken(b) = Taken(a) \cup {i} /\ Pending(a) = {} /\ Pending(b) = {}
    BY <1>2, <1>3 DEF Taken, Pending
  <1>5. \A j \in a.asked : j \in Nat
    BY <1>3, InvTells, HiddenFinite DEF PhaseFits
  <1>6. RowsOf(b)
    <2>1. \A k \in b.todo : i < k
      BY <1>2, <1>3, <1>5
    <2> QED
      BY <1>2, <1>3, <1>4, <2>1 DEF RowsOf
  <1>7. Answers(b)
    <2>1. /\ Range(a.out) \cup Pending(a) = (Taken(a) \ Hidden) \cup {Aggregate}
          /\ First(a.asked \cap Hidden) \in Taken(a) \cap Hidden
          /\ a.out \in Seq(Nat) /\ a.hidden \in BOOLEAN /\ a.key \in Nat
      BY <1>1, AnswersTell
    <2>2. /\ Taken(b) \ Hidden = Taken(a) \ Hidden
          /\ Taken(a) \cap Hidden \subseteq Taken(b) \cap Hidden
      BY <1>4
    <2> QED
      BY <1>2, <1>4, <2>1, <2>2, AnswersFrom
  <1>8. Ordered(b)
    <2>1. \A l : InPlace(b, l) = InPlace(a, l)
      BY <1>2 DEF InPlace
    <2>2. \A j, l \in DOMAIN a.out : j < l => InPlace(a, a.out[j]) < InPlace(a, a.out[l])
      BY <1>1 DEF Ordered
    <2>3. \A j, l \in DOMAIN b.out : j < l => InPlace(b, b.out[j]) < InPlace(b, b.out[l])
      BY <1>2, <2>1, <2>2
    <2> QED
      BY <1>4, <2>3 DEF Ordered
  <1> QED
    BY <1>1, <1>2, <1>4, <1>6, <1>7, <1>8 DEF Analyzing

(* The other rows are looked up: a visible row, or the first hidden one.   *)
LEMMA TakeUp ==
  ASSUME AnalysisInv, NEW a, Analyzing(a), a.pc = "next", NEW i \in a.todo,
         \A j \in a.todo : i <= j, i \in Hidden => ~a.hidden,
         NEW b, DOMAIN b = AnalysisFields, b.pc = "lookup", b.asked = a.asked, b.again = a.again,
         b.out = a.out, b.found = a.found, b.todo = a.todo \ {i}, b.hidden \in BOOLEAN,
         b.hidden <=> a.hidden \/ i \in Hidden, i \in Hidden => b.key = Aggregate,
         i \notin Hidden => b.key = i, PayloadFits(b.key, b.payload)
  PROVE  Analyzing(b)
  <1> DEFINE k == b.key
             h == b.hidden
  <1>1. /\ DOMAIN a = AnalysisFields /\ RowsOf(a) /\ Answers(a) /\ Ordered(a)
        /\ a.found = 0 \/ a.found \in DOMAIN events
    BY DEF Analyzing
  <1>2. /\ DOMAIN b = AnalysisFields /\ b.pc = "lookup" /\ b.asked = a.asked /\ b.again = a.again
        /\ b.out = a.out /\ b.found = a.found /\ b.todo = a.todo \ {i} /\ PayloadFits(k, b.payload)
    OBVIOUS
  <1>3. /\ a.asked \subseteq DOMAIN results /\ a.todo \subseteq a.asked
        /\ \A j \in a.asked : Failed(j)
        /\ \A j \in Taken(a), l \in a.todo : j < l
    BY <1>1 DEF RowsOf
  <1>4. Taken(b) = Taken(a) \cup {i} /\ Pending(a) = {} /\ Pending(b) = {k}
    BY <1>2, <1>3 DEF Taken, Pending
  <1>5. \A j \in a.asked : j \in Nat /\ j # Aggregate
    BY <1>3, InvTells, HiddenFinite DEF PhaseFits, Aggregate
  <1>6. RowsOf(b)
    <2>1. \A l \in b.todo : i < l
      BY <1>2, <1>3, <1>5
    <2> QED
      BY <1>2, <1>3, <1>4, <2>1 DEF RowsOf
  <1>7. /\ a.out \in Seq(Nat) /\ a.hidden \in BOOLEAN
        /\ a.hidden => /\ Range(a.out) = (Taken(a) \ Hidden) \cup {Aggregate}
                       /\ First(a.asked \cap Hidden) \in Taken(a) \cap Hidden
        /\ ~a.hidden => /\ Range(a.out) = Taken(a) \ Hidden
                        /\ Taken(a) \cap Hidden = {}
    BY <1>1, <1>4, AnswersTell
  <1>8. k \in Nat
    BY <1>3, <1>5 DEF Aggregate
  <1>9. i \in Hidden => First(a.asked \cap Hidden) = i
    <2>1. ASSUME i \in Hidden PROVE First(a.asked \cap Hidden) = i
      <3>1. Taken(a) \cap Hidden = {}
        BY <1>7, <2>1
      <3>2. \A j \in a.asked \cap Hidden : j \in a.todo
        BY <3>1 DEF Taken
      <3>3. a.asked \cap Hidden \subseteq Nat /\ i \in a.asked \cap Hidden
        BY <1>3, <1>5, <2>1
      <3>4. \A j \in a.asked \cap Hidden : i <= j
        BY <3>2
      <3> QED
        BY <3>3, <3>4, FirstIs
    <2> QED
      BY <2>1
  <1>10. Answers(b)
    <2>1. CASE i \in Hidden
      <3>1. k = Aggregate /\ h /\ ~a.hidden
        BY <2>1
      <3>2. Range(b.out) \cup Pending(b) = (Taken(b) \ Hidden) \cup {Aggregate}
        BY <1>2, <1>4, <1>7, <2>1, <3>1
      <3>3. First(b.asked \cap Hidden) \in Taken(b) \cap Hidden
        BY <1>2, <1>4, <1>9, <2>1
      <3> QED
        BY <1>2, <1>7, <1>8, <3>1, <3>2, <3>3, AnswersFrom
    <2>2. CASE i \notin Hidden
      <3>1. k = i /\ (h <=> a.hidden)
        BY <2>2
      <3>2. /\ Taken(b) \ Hidden = (Taken(a) \ Hidden) \cup {i}
            /\ Taken(b) \cap Hidden = Taken(a) \cap Hidden
        BY <1>4, <2>2
      <3> QED
        BY <1>2, <1>4, <1>7, <1>8, <3>1, <3>2, AnswersFrom
    <2> QED
      BY <2>1, <2>2
  <1>11. Ordered(b)
    <2>1. \A j \in DOMAIN a.out : a.out[j] \in Range(a.out)
      BY DEF Range
    <2>2. \A j \in DOMAIN a.out : InPlace(a, a.out[j]) \in Taken(a)
      <3>1. ASSUME NEW j \in DOMAIN a.out PROVE InPlace(a, a.out[j]) \in Taken(a)
        <4>1. CASE a.out[j] = Aggregate
          <5>1. a.hidden
            BY <1>5, <1>7, <2>1, <4>1 DEF Taken
          <5> QED
            BY <1>7, <4>1, <5>1 DEF InPlace
        <4>2. CASE a.out[j] # Aggregate
          <5>1. a.out[j] \in Taken(a)
            BY <1>7, <2>1, <4>2
          <5> QED
            BY <4>2, <5>1 DEF InPlace
        <4> QED
          BY <4>1, <4>2
      <3> QED
        BY <3>1
    <2>3. InPlace(a, k) = i
      <3>1. i # Aggregate
        BY <1>3, <1>5
      <3> QED
        BY <1>9, <3>1 DEF InPlace
    <2>4. \A l : InPlace(b, l) = InPlace(a, l)
      BY <1>2 DEF InPlace
    <2>5. \A j, l \in DOMAIN b.out : j < l => InPlace(b, b.out[j]) < InPlace(b, b.out[l])
      <3>1. \A j, l \in DOMAIN a.out : j < l => InPlace(a, a.out[j]) < InPlace(a, a.out[l])
        BY <1>1 DEF Ordered
      <3> QED
        BY <1>2, <2>4, <3>1
    <2>6. \A j \in DOMAIN b.out : InPlace(b, b.out[j]) < InPlace(b, k)
      BY <1>2, <1>3, <2>2, <2>3, <2>4
    <2> QED
      BY <1>4, <2>5, <2>6 DEF Ordered
  <1>12. \A l \in Pending(b) : PayloadFits(l, b.payload)
    BY <1>2, <1>4
  <1> QED
    BY <1>1, <1>2, <1>6, <1>10, <1>11, <1>12 DEF Analyzing

LEMMA PayloadsFit ==
  ASSUME results \in Seq(TestRow), NEW i \in DOMAIN results, Failed(i)
  PROVE  /\ i \in Hidden => PayloadFits(Aggregate, HiddenAggregate)
         /\ i \notin Hidden /\ i # Aggregate => PayloadFits(i, AnalyzeVisible(results[i]))
  <1>1. ASSUME i \in Hidden PROVE PayloadFits(Aggregate, HiddenAggregate)
    <2> DEFINE failed == Cardinality(FailedOf(Hidden))
               rows == Cardinality(Hidden)
    <2>1. failed \in Nat /\ rows \in Nat /\ failed <= rows /\ IsFiniteSet(FailedOf(Hidden))
      BY HiddenFinite
    <2>2. i \in FailedOf(Hidden)
      BY <1>1 DEF FailedOf
    <2>3. failed # 0
      BY <2>1, <2>2, FS_EmptySet
    <2>4. /\ HiddenAggregate.tests = {} /\ HiddenAggregate.excerpts = {}
          /\ HiddenAggregate.stack = {} /\ HiddenAggregate.paths = {}
          /\ HiddenAggregate.count = failed /\ HiddenAggregate.total = rows
      BY DEF HiddenAggregate
    <2>5. failed \in 1..failed /\ rows \in failed..rows
      <3> HIDE DEF failed, rows
      <3> QED
        BY <2>1, <2>3
    <2> QED
      BY <2>4, <2>5 DEF PayloadFits
  <1>2. i \notin Hidden /\ i # Aggregate => PayloadFits(i, AnalyzeVisible(results[i]))
    BY DEF PayloadFits
  <1> QED
    BY <1>1, <1>2

LEMMA AnalyzeKeeps ==
  ASSUME AnalysisAssumption, AnalysisInv, NEW p \in Analyzers, NEW i \in DOMAIN results,
         Analyze(p, i)
  PROVE  AnalysisInv'
  <1>1. /\ PhaseFits /\ ServiceFits /\ FeedbackFits
        /\ results \in Seq(TestRow) /\ RowsStay
    BY InvTells, NothingMoves DEF Analyze
  <1>2. UNCHANGED <<results, position, ran, events, feedback, reads, dead, abandoned>>
    BY DEF Analyze
  <1>3. PICK a : a = analysis[p]
    OBVIOUS
  <1>4. a.pc = "next" /\ i \in a.todo /\ \A j \in a.todo : i <= j
    BY <1>3 DEF Analyze, IsNext
  <1>5. /\ Analyzing(a) /\ DOMAIN a = AnalysisFields /\ RowsOf(a) /\ Answers(a)
        /\ a.again => p = Service
        /\ a.todo \subseteq a.asked
    BY <1>3, AnalyzingTells
  <1>6. i \in Nat /\ i # Aggregate /\ Failed(i)
    BY <1>1, <1>4, <1>5, HiddenFinite DEF RowsOf, Aggregate
  <1>7. \E b : /\ analysis' = [analysis EXCEPT ![p] = b] /\ Analyzing(b)
               /\ b.pc \in {"next", "lookup"} /\ b.asked = a.asked /\ b.again = a.again
    <2>1. CASE i \in Hidden /\ a.hidden
      <3>1. PICK b : b = [a EXCEPT !.todo = @ \ {i}]
        OBVIOUS
      <3>2. analysis' = [analysis EXCEPT ![p] = b]
        BY <1>3, <2>1, <3>1 DEF Analyze
      <3>3. Analyzing(b) /\ b.pc = "next" /\ b.asked = a.asked /\ b.again = a.again
        BY <1>4, <1>5, <2>1, <3>1, PassOver
      <3> QED
        BY <3>2, <3>3
    <2>2. CASE ~(i \in Hidden /\ a.hidden)
      <3>1. PICK k : k = (IF i \in Hidden THEN Aggregate ELSE i)
        OBVIOUS
      <3>2. PICK payload : payload = (IF i \in Hidden THEN HiddenAggregate
                                      ELSE AnalyzeVisible(results[i]))
        OBVIOUS
      <3>3. PICK h : h = (a.hidden \/ i \in Hidden)
        OBVIOUS
      <3>4. h \in BOOLEAN /\ (h <=> a.hidden \/ i \in Hidden)
        BY <3>3, Zenon
      <3>5. PICK b : b = [a EXCEPT !.todo = @ \ {i}, !.pc = "lookup", !.hidden = h, !.key = k,
                                   !.payload = payload]
        OBVIOUS
      <3>6. analysis' = [analysis EXCEPT ![p] = b]
        BY <1>3, <2>2, <3>1, <3>2, <3>3, <3>5 DEF Analyze
      <3>7. PayloadFits(k, payload)
        BY <1>1, <1>6, <3>1, <3>2, PayloadsFit
      <3>8. /\ a.pc = "next" /\ i \in a.todo /\ (\A j \in a.todo : i <= j)
            /\ (i \in Hidden => ~a.hidden)
        BY <1>4, <2>2
      <3>9. /\ DOMAIN b = AnalysisFields /\ b.pc = "lookup" /\ b.asked = a.asked
            /\ b.again = a.again /\ b.out = a.out /\ b.found = a.found /\ b.todo = a.todo \ {i}
            /\ b.hidden = h /\ b.key = k /\ b.payload = payload
        BY <1>5, <3>5 DEF AnalysisFields
      <3>10. /\ b.hidden \in BOOLEAN /\ (b.hidden <=> a.hidden \/ i \in Hidden)
             /\ (i \in Hidden => b.key = Aggregate) /\ (i \notin Hidden => b.key = i)
             /\ PayloadFits(b.key, b.payload)
        BY <3>1, <3>4, <3>7, <3>9
      <3>11. Analyzing(b)
        BY <1>5, <3>8, <3>9, <3>10, TakeUp
      <3> QED
        BY <3>6, <3>9, <3>11
    <2> QED
      BY <2>1, <2>2
  <1>8. PICK b : /\ analysis' = [analysis EXCEPT ![p] = b] /\ Analyzing(b)
                 /\ b.pc \in {"next", "lookup"} /\ b.asked = a.asked /\ b.again = a.again
    BY <1>7
  <1>9. /\ EventsFit' /\ DuplicatesBounded' /\ AnalysesFit' /\ analysis'[p] = b
        /\ \A q \in Analyzers : q # p => analysis'[q] = analysis[q]
    BY <1>2, <1>5, <1>8, OneMoves
  <1>10. PhaseFits'
    BY <1>1, <1>2, PhaseSame DEF PhaseFits
  <1>11. FeedbackFits'
    BY <1>1, <1>2, FeedbackStays
  <1>12. ServiceFits'
    BY <1>1, <1>2, <1>3, <1>4, <1>8, <1>9, ServiceAnalyzes, ServiceSame
  <1> QED
    BY <1>9, <1>10, <1>11, <1>12 DEF AnalysisInv, AnalysesFit

LEMMA LookupKeeps ==
  ASSUME AnalysisAssumption, AnalysisInv, NEW p \in Analyzers, Lookup(p)
  PROVE  AnalysisInv'
  <1>1. /\ PhaseFits /\ ServiceFits /\ FeedbackFits /\ EventsFit
        /\ results \in Seq(TestRow) /\ RowsStay
    BY InvTells, NothingMoves DEF Lookup
  <1>2. UNCHANGED <<results, position, ran, events, feedback, reads, dead, abandoned>>
    BY DEF Lookup
  <1>3. PICK a : a = analysis[p]
    OBVIOUS
  <1>4. /\ Analyzing(a) /\ DOMAIN a = AnalysisFields /\ a.pc = "lookup" /\ (a.again => p = Service)
    BY <1>3, AnalyzingTells DEF Lookup
  <1>5. PICK j \in (IF WithKey(a.key) = {} THEN {0} ELSE WithKey(a.key)) :
          analysis' = [analysis EXCEPT ![p] = [a EXCEPT !.pc = "store", !.found = j]]
    BY <1>3 DEF Lookup
  <1>6. PICK b : b = [a EXCEPT !.pc = "store", !.found = j]
    OBVIOUS
  <1>7. /\ DOMAIN b = AnalysisFields /\ b.pc = "store" /\ b.found = j /\ b.asked = a.asked
        /\ b.todo = a.todo /\ b.again = a.again /\ b.out = a.out /\ b.hidden = a.hidden
        /\ b.key = a.key /\ b.payload = a.payload
    BY <1>4, <1>6 DEF AnalysisFields
  <1>8. /\ j = 0 => WithKey(b.key) = {}
        /\ j # 0 => j \in DOMAIN events /\ events[j].key = b.key
    <2>1. WithKey(a.key) \subseteq 1..Len(events) /\ DOMAIN events = 1..Len(events)
          /\ Len(events) \in Nat
      BY <1>1, KeysFinite DEF EventsFit
    <2>2. 0 \notin WithKey(a.key)
      BY <2>1
    <2> QED
      BY <1>5, <1>7, <2>1, <2>2 DEF WithKey
  <1>9. Analyzing(b)
    <2>1. /\ RowsOf(a) /\ Answers(a) /\ Ordered(a)
          /\ \A k \in Pending(a) : PayloadFits(k, a.payload)
      BY <1>4 DEF Analyzing
    <2>2. Pending(b) = Pending(a) /\ Taken(b) = Taken(a)
      BY <1>4, <1>7 DEF Pending, Taken
    <2>3. RowsOf(b) /\ Answers(b)
      BY <1>7, <2>1, <2>2 DEF RowsOf, Answers
    <2>4. Ordered(b)
      <3>1. \A l : InPlace(b, l) = InPlace(a, l)
        BY <1>7 DEF InPlace
      <3>2. /\ \A i, l \in DOMAIN a.out : i < l => InPlace(a, a.out[i]) < InPlace(a, a.out[l])
            /\ \A i \in DOMAIN a.out : \A k \in Pending(a) : InPlace(a, a.out[i]) < InPlace(a, k)
        BY <2>1 DEF Ordered
      <3>3. /\ \A i, l \in DOMAIN b.out : i < l => InPlace(b, b.out[i]) < InPlace(b, b.out[l])
            /\ \A i \in DOMAIN b.out : \A k \in Pending(b) : InPlace(b, b.out[i]) < InPlace(b, k)
        BY <1>7, <2>2, <3>1, <3>2
      <3> QED
        BY <3>3 DEF Ordered
    <2> QED
      BY <1>7, <1>8, <2>1, <2>2, <2>3, <2>4 DEF Analyzing
  <1>10. analysis' = [analysis EXCEPT ![p] = b]
    BY <1>5, <1>6
  <1>11. /\ EventsFit' /\ DuplicatesBounded' /\ AnalysesFit' /\ analysis'[p] = b
         /\ \A q \in Analyzers : q # p => analysis'[q] = analysis[q]
    BY <1>2, <1>4, <1>7, <1>8, <1>9, <1>10, OneMoves
  <1>12. PhaseFits'
    BY <1>1, <1>2, PhaseSame DEF PhaseFits
  <1>13. FeedbackFits'
    BY <1>1, <1>2, FeedbackStays
  <1>14. ServiceFits'
    BY <1>1, <1>2, <1>3, <1>4, <1>7, <1>11, ServiceAnalyzes, ServiceSame
  <1> QED
    BY <1>11, <1>12, <1>13, <1>14 DEF AnalysisInv, AnalysesFit

(* What was looked up is answered.                                         *)
LEMMA Answered ==
  ASSUME AnalysisInv, NEW a, Analyzing(a), a.pc = "store",
         NEW b, b = [a EXCEPT !.pc = "next", !.out = Append(@, a.key)]
  PROVE  Analyzing(b) /\ b.pc = "next" /\ b.asked = a.asked /\ b.again = a.again
  <1>1. /\ DOMAIN a = AnalysisFields /\ RowsOf(a) /\ Answers(a) /\ Ordered(a)
        /\ a.found = 0 \/ a.found \in DOMAIN events
    BY DEF Analyzing
  <1>2. /\ DOMAIN b = AnalysisFields /\ b.pc = "next" /\ b.asked = a.asked /\ b.again = a.again
        /\ b.out = Append(a.out, a.key) /\ b.hidden = a.hidden /\ b.key = a.key
        /\ b.found = a.found /\ b.todo = a.todo
    BY <1>1 DEF AnalysisFields
  <1>3. Taken(b) = Taken(a) /\ Pending(a) = {a.key} /\ Pending(b) = {}
    BY <1>2 DEF Taken, Pending
  <1>4. RowsOf(b)
    BY <1>1, <1>2, <1>3 DEF RowsOf
  <1>5. a.out \in Seq(Nat) /\ a.key \in Nat
    BY <1>1, AnswersTell
  <1>6. /\ Len(a.out) \in Nat /\ DOMAIN a.out = 1..Len(a.out) /\ b.out \in Seq(Nat)
        /\ DOMAIN b.out = 1..(Len(a.out) + 1) /\ b.out[Len(a.out) + 1] = a.key
        /\ \A i \in 1..Len(a.out) : b.out[i] = a.out[i]
    BY <1>2, <1>5
  <1>7. Range(b.out) = Range(a.out) \cup {a.key}
    BY <1>6 DEF Range
  <1>8. Answers(b)
    <2>1. Range(b.out) \cup Pending(b) = Range(a.out) \cup Pending(a)
      BY <1>3, <1>7
    <2> QED
      BY <1>1, <1>2, <1>3, <1>6, <2>1 DEF Answers
  <1>9. Ordered(b)
    <2>1. \A l : InPlace(b, l) = InPlace(a, l)
      BY <1>2 DEF InPlace
    <2>2. /\ \A i, j \in DOMAIN a.out : i < j => InPlace(a, a.out[i]) < InPlace(a, a.out[j])
          /\ \A i \in DOMAIN a.out : InPlace(a, a.out[i]) < InPlace(a, a.key)
      BY <1>1, <1>3 DEF Ordered
    <2>3. ASSUME NEW i \in DOMAIN b.out, NEW j \in DOMAIN b.out, i < j
          PROVE  InPlace(b, b.out[i]) < InPlace(b, b.out[j])
      <3>1. i \in DOMAIN a.out /\ b.out[i] = a.out[i]
        BY <1>6, <2>3
      <3>2. CASE j = Len(a.out) + 1
        BY <1>6, <2>1, <2>2, <3>1, <3>2
      <3>3. CASE j # Len(a.out) + 1
        <4>1. j \in DOMAIN a.out /\ b.out[j] = a.out[j]
          BY <1>6, <3>3
        <4> QED
          BY <2>1, <2>2, <2>3, <3>1, <4>1
      <3> QED
        BY <3>2, <3>3
    <2> QED
      BY <1>3, <2>3 DEF Ordered
  <1> QED
    BY <1>1, <1>2, <1>3, <1>4, <1>8, <1>9 DEF Analyzing

(* What Store does to the events, besides answering.                       *)
LEMMA InsertFits ==
  ASSUME AnalysisAssumption, EventsFit, DuplicatesBounded,
         results \in Seq(TestRow), RowsStay,
         NEW p \in Analyzers, NEW key \in Nat, NEW payload, PayloadFits(key, payload),
         NEW e, e.key = key, e.payload = payload, events' = Append(events, e),
         p \in Inserting(key), \A k \in Nat : Inserting(k)' \subseteq Inserting(k) \ {p}
  PROVE  EventsFit' /\ EventsStay /\ DuplicatesBounded'
  <1> DEFINE n == Len(events)
  <1>1. events \in Seq(Range(events))
    BY DEF EventsFit
  <1>2. /\ events' \in Seq(Range(events')) /\ n \in Nat /\ DOMAIN events' = 1..(n + 1)
        /\ DOMAIN events = 1..n /\ events'[n + 1] = e
        /\ \A j \in 1..n : events'[j] = events[j]
    BY <1>1, OneMore
  <1> HIDE DEF n
  <1>3. EventsStay
    BY <1>2 DEF EventsStay
  <1>4. EventsFit'
    <2>1. ASSUME NEW j \in DOMAIN events'
          PROVE  events'[j].key \in Nat /\ PayloadFits(events[j].key, events[j].payload)'
      <3>1. PICK l : l = events'[j].key
        OBVIOUS
      <3>2. PICK m : m = events'[j].payload
        OBVIOUS
      <3>3. l \in Nat /\ PayloadFits(l, m)
        <4>1. CASE j = n + 1
          BY <1>2, <3>1, <3>2, <4>1
        <4>2. CASE j # n + 1
          <5>1. j \in DOMAIN events /\ l = events[j].key /\ m = events[j].payload
            BY <1>2, <3>1, <3>2, <4>2
          <5> QED
            BY <5>1 DEF EventsFit
        <4> QED
          BY <4>1, <4>2
      <3>4. PayloadFits(l, m)'
        BY <3>3, PayloadStays
      <3> QED
        BY <3>1, <3>2, <3>3, <3>4
    <2> QED
      BY <1>2, <2>1 DEF EventsFit
  <1>5. ASSUME NEW k \in Nat
        PROVE  Cardinality(WithKey(k)') + Cardinality(Inserting(k)') <= Cardinality(Analyzers)
    <2>1. CASE k # key
      <3>1. WithKey(k)' = WithKey(k)
        BY <1>2, <2>1 DEF WithKey
      <3>2. Inserting(k)' \subseteq Inserting(k)
        OBVIOUS
      <3> QED
        BY <1>1, <3>1, <3>2, FewerInsert
    <2>2. CASE k = key
      <3>1. /\ IsFiniteSet(WithKey(k)) /\ WithKey(k) \subseteq 1..n
            /\ Cardinality(WithKey(k)) \in Nat
        BY <1>1, KeysFinite DEF n
      <3>2. WithKey(k)' = WithKey(k) \cup {n + 1} /\ n + 1 \notin WithKey(k)
        BY <1>2, <2>2, <3>1 DEF WithKey
      <3>3. Cardinality(WithKey(k)') = Cardinality(WithKey(k)) + 1
        BY <3>1, <3>2, FS_AddElement
      <3>4. Inserting(k) \subseteq Analyzers
        BY DEF Inserting
      <3>5. /\ IsFiniteSet(Inserting(k)) /\ Cardinality(Inserting(k)) \in Nat
            /\ Cardinality(Analyzers) \in Nat
        BY <3>4, AnalyzersFinite
      <3>6. /\ IsFiniteSet(Inserting(k) \ {p})
            /\ Cardinality(Inserting(k) \ {p}) = Cardinality(Inserting(k)) - 1
        BY <2>2, <3>5, FS_RemoveElement
      <3>7. Inserting(k)' \subseteq Inserting(k) \ {p}
        OBVIOUS
      <3>8. /\ Cardinality(Inserting(k)') <= Cardinality(Inserting(k) \ {p})
            /\ Cardinality(Inserting(k)') \in Nat
        BY <3>6, <3>7, FS_Subset, FS_CardinalityType
      <3>9. Cardinality(WithKey(k)) + Cardinality(Inserting(k)) <= Cardinality(Analyzers)
        BY DEF DuplicatesBounded
      <3> QED
        BY <3>1, <3>3, <3>5, <3>6, <3>8, <3>9
    <2> QED
      BY <2>1, <2>2
  <1> QED
    BY <1>3, <1>4, <1>5 DEF DuplicatesBounded

LEMMA OverwriteFits ==
  ASSUME AnalysisAssumption, EventsFit, DuplicatesBounded,
         results \in Seq(TestRow), RowsStay,
         NEW found \in DOMAIN events, NEW e, e.key = events[found].key,
         PayloadFits(e.key, e.payload), events' = [events EXCEPT ![found] = e],
         \A k \in Nat : Inserting(k)' \subseteq Inserting(k)
  PROVE  EventsFit' /\ EventsStay /\ DuplicatesBounded'
  <1>1. events \in Seq(Range(events)) /\ DOMAIN events = 1..Len(events) /\ Len(events) \in Nat
    BY KeysFinite DEF EventsFit
  <1>2. /\ DOMAIN events' = DOMAIN events /\ events'[found] = e
        /\ \A j \in DOMAIN events : j # found => events'[j] = events[j]
        /\ events' = [j \in 1..Len(events) |-> events'[j]]
    BY <1>1
  <1>3. events' \in Seq(Range(events'))
    BY <1>1, <1>2, SequenceOf
  <1>4. EventsStay
    BY <1>2 DEF EventsStay
  <1>5. EventsFit'
    <2>1. ASSUME NEW j \in DOMAIN events'
          PROVE  events'[j].key \in Nat /\ PayloadFits(events[j].key, events[j].payload)'
      <3>1. PICK l : l = events'[j].key
        OBVIOUS
      <3>2. PICK m : m = events'[j].payload
        OBVIOUS
      <3>3. l \in Nat /\ PayloadFits(l, m)
        BY <1>2, <3>1, <3>2 DEF EventsFit
      <3>4. PayloadFits(l, m)'
        BY <3>3, PayloadStays
      <3> QED
        BY <3>1, <3>2, <3>3, <3>4
    <2> QED
      BY <1>3, <2>1 DEF EventsFit
  <1>6. \A k \in Nat : WithKey(k)' = WithKey(k)
    BY <1>2 DEF WithKey
  <1>7. ASSUME NEW k \in Nat
        PROVE  Cardinality(WithKey(k)') + Cardinality(Inserting(k)') <= Cardinality(Analyzers)
    BY <1>1, <1>6, FewerInsert
  <1> QED
    BY <1>4, <1>5, <1>7 DEF DuplicatesBounded

LEMMA StoreKeeps ==
  ASSUME AnalysisAssumption, AnalysisInv, NEW p \in Analyzers, Store(p)
  PROVE  AnalysisInv'
  <1>1. /\ PhaseFits /\ ServiceFits /\ FeedbackFits /\ EventsFit /\ DuplicatesBounded /\ AnalysesFit
        /\ results \in Seq(TestRow) /\ RowsStay
    BY InvTells, NothingMoves DEF Store
  <1>2. UNCHANGED <<results, position, ran, feedback, reads, dead, abandoned>>
    BY DEF Store
  <1>3. PICK a : a = analysis[p]
    OBVIOUS
  <1>4. /\ Analyzing(a) /\ DOMAIN a = AnalysisFields /\ a.pc = "store" /\ (a.again => p = Service)
        /\ Answers(a)
        /\ \A k \in Pending(a) : PayloadFits(k, a.payload)
        /\ a.found = 0 \/ a.found \in DOMAIN events
        /\ a.found # 0 => events[a.found].key = a.key
    BY <1>3, AnalyzingTells DEF Store
  <1>5. PICK e : e = [key |-> a.key, payload |-> a.payload]
    OBVIOUS
  <1>6. e.key = a.key /\ e.payload = a.payload
    BY <1>5
  <1>7. PayloadFits(e.key, e.payload) /\ a.key \in Nat
    BY <1>4, <1>6, AnswersTell DEF Pending
  <1>8. PICK b : b = [a EXCEPT !.pc = "next", !.out = Append(@, a.key)]
    OBVIOUS
  <1>9. /\ analysis' = [analysis EXCEPT ![p] = b]
        /\ events' = IF a.found = 0 THEN Append(events, e) ELSE [events EXCEPT ![a.found] = e]
    BY <1>3, <1>5, <1>8 DEF Store
  <1>10. Analyzing(b) /\ b.pc = "next" /\ b.asked = a.asked /\ b.again = a.again
    BY <1>4, <1>8, Answered
  <1>11. analysis'[p] = b /\ \A q \in Analyzers : q # p => analysis'[q] = analysis[q]
    BY <1>1, <1>9, OneAnalysis
  <1>12. \A k \in Nat : Inserting(k)' \subseteq Inserting(k) \ {p}
    BY <1>10, <1>11 DEF Inserting
  <1>13. EventsFit' /\ EventsStay /\ DuplicatesBounded'
    <2>1. CASE a.found = 0
      <3>1. events' = Append(events, e) /\ p \in Inserting(a.key)
        BY <1>3, <1>4, <1>9, <2>1 DEF Inserting
      <3> QED
        BY <1>1, <1>6, <1>7, <1>12, <3>1, InsertFits
    <2>2. CASE a.found # 0
      <3>1. /\ events' = [events EXCEPT ![a.found] = e] /\ a.found \in DOMAIN events
            /\ e.key = events[a.found].key
        BY <1>4, <1>6, <1>9, <2>2
      <3>2. \A k \in Nat : Inserting(k)' \subseteq Inserting(k)
        BY <1>12
      <3> QED
        BY <1>1, <1>7, <3>1, <3>2, OverwriteFits
    <2> QED
      BY <2>1, <2>2
  <1>14. Analyzing(b)'
    BY <1>1, <1>10, <1>13, AnalyzingStays
  <1>15. AnalysesFit'
    BY <1>1, <1>4, <1>9, <1>10, <1>13, <1>14, OthersStay
  <1>16. PhaseFits'
    BY <1>1, <1>2, PhaseSame DEF PhaseFits
  <1>17. FeedbackFits'
    BY <1>1, <1>2, FeedbackStays
  <1>18. ServiceFits'
    BY <1>1, <1>2, <1>3, <1>4, <1>10, <1>11, ServiceAnalyzes, ServiceSame
  <1> QED
    BY <1>13, <1>15, <1>16, <1>17, <1>18 DEF AnalysisInv, AnalysesFit

LEMMA CrashKeeps ==
  ASSUME AnalysisAssumption, AnalysisInv, Crash
  PROVE  AnalysisInv'
  <1>1. /\ PhaseFits /\ ServiceFits /\ FeedbackFits
        /\ results \in Seq(TestRow) /\ RowsStay
    BY InvTells, NothingMoves DEF Crash
  <1>2. UNCHANGED <<results, position, ran, events, feedback, reads, abandoned>> /\ dead' = TRUE
    BY DEF Crash
  <1>3. PICK b : b = Idle
    OBVIOUS
  <1>4. analysis' = [analysis EXCEPT ![Service] = b]
    BY <1>3 DEF Crash
  <1>5. Analyzing(b) /\ b.again = FALSE /\ b.pc = "idle"
    BY <1>1, <1>3, IdleFits
  <1>6. ~b.again
    BY <1>5, Zenon
  <1>7. EventsFit' /\ DuplicatesBounded' /\ AnalysesFit' /\ analysis'[Service] = b
    BY <1>2, <1>4, <1>5, <1>6, ServiceAnalyzes, OneMoves
  <1>8. PhaseFits'
    <2>1. dead' \in BOOLEAN
      BY <1>2, Zenon
    <2>2. reads' \in 0..MaxReads
      BY <1>1, <1>2 DEF PhaseFits
    <2> QED
      BY <1>1, <1>2, <2>1, <2>2, PhaseSame
  <1>9. FeedbackFits'
    BY <1>1, <1>2, FeedbackStays
  <1>10. ServiceFits'
    BY <1>5, <1>6, <1>7 DEF ServiceFits
  <1> QED
    BY <1>7, <1>8, <1>9, <1>10 DEF AnalysisInv, AnalysesFit

(* When nothing is left, what was asked is answered.                       *)
LEMMA Returned ==
  ASSUME AnalysisInv, NEW p \in Analyzers, NEW a, a = analysis[p], a.pc = "next", a.todo = {}
  PROVE  /\ a.hidden <=> a.asked \cap Hidden # {}
         /\ Range(a.out) = (a.asked \ Hidden) \cup (IF a.hidden THEN {Aggregate} ELSE {})
         /\ \A i, j \in DOMAIN a.out : i < j => InPlace(a, a.out[i]) < InPlace(a, a.out[j])
         /\ a.out \in Seq(Nat)
  <1>1. Answers(a) /\ Ordered(a)
    BY AnalyzingTells
  <1>2. Taken(a) = a.asked /\ Pending(a) = {}
    BY DEF Taken, Pending
  <1>3. /\ a.out \in Seq(Nat) /\ a.hidden \in BOOLEAN
        /\ a.hidden => /\ Range(a.out) = (a.asked \ Hidden) \cup {Aggregate}
                       /\ First(a.asked \cap Hidden) \in a.asked \cap Hidden
        /\ ~a.hidden => /\ Range(a.out) = a.asked \ Hidden
                        /\ a.asked \cap Hidden = {}
    BY <1>1, <1>2, AnswersTell
  <1>4. Range(a.out) = (a.asked \ Hidden) \cup (IF a.hidden THEN {Aggregate} ELSE {})
    BY <1>3
  <1>5. a.hidden <=> a.asked \cap Hidden # {}
    BY <1>3
  <1> QED
    BY <1>1, <1>3, <1>4, <1>5 DEF Ordered

(* The numbers that the agent is told are those of its phase.              *)
LEMMA FeedbackAgrees ==
  ASSUME AnalysisAssumption, AnalysisInv, NEW a, a = analysis[Service],
         a.pc = "next", a.todo = {}, a.again
  PROVE  /\ Feedback(a.out).rows \subseteq DOMAIN results
         /\ \A i \in Feedback(a.out).rows : results[i].phase = "post_patch"
         /\ Feedback(a.out).total = Cardinality(Feedback(a.out).rows)
         /\ Feedback(a.out).failed = Cardinality(FailedOf(Feedback(a.out).rows))
         /\ Feedback(a.out).shown \in 1..Feedback(a.out).failed
  <1>1. PhaseFits /\ ServiceFits
    BY InvTells
  <1>2. /\ a.asked = FailedOf(PhaseRows) /\ a.asked # {}
        /\ Script[position].phase = "post_patch"
    BY <1>1 DEF ServiceFits
  <1>3. /\ PhaseRows \subseteq DOMAIN results /\ IsFiniteSet(PhaseRows)
        /\ Cardinality(PhaseRows) = ran
    BY <1>1, RowsOfPhase
  <1>4. \A i \in PhaseRows : results[i].phase = "post_patch"
    BY <1>1, <1>2 DEF PhaseFits
  <1>5. a.asked \cap Hidden = {} /\ a.asked \subseteq PhaseRows
    BY <1>2, <1>4 DEF Hidden, FailedOf
  <1>6. /\ a.hidden <=> a.asked \cap Hidden # {}
        /\ Range(a.out) = (a.asked \ Hidden) \cup (IF a.hidden THEN {Aggregate} ELSE {})
        /\ \A i, j \in DOMAIN a.out : i < j => InPlace(a, a.out[i]) < InPlace(a, a.out[j])
        /\ a.out \in Seq(Nat)
    BY ServiceAnalyzes, Returned
  <1>7. Range(a.out) = a.asked
    BY <1>5, <1>6
  <1>8. \A i \in DOMAIN a.out : InPlace(a, a.out[i]) = a.out[i]
    <2>1. \A i \in DOMAIN a.out : a.out[i] \in a.asked
      BY <1>7 DEF Range
    <2>2. \A i \in a.asked : i # Aggregate
      BY <1>1, <1>3, <1>5, HiddenFinite DEF PhaseFits, Aggregate
    <2> QED
      BY <2>1, <2>2 DEF InPlace
  <1>9. Cardinality(a.asked) = Len(a.out)
    BY <1>6, <1>7, <1>8, AscendingLength
  <1>10. Len(a.out) \in Nat /\ Len(a.out) # 0
    <2>1. IsFiniteSet(a.asked)
      BY <1>3, <1>5, FS_Subset
    <2> QED
      BY <1>2, <1>9, <2>1, FS_EmptySet, FS_CardinalityType
  <1>11. Shown(a.out) \in 1..Len(a.out)
    <2>1. MaxShown \in Nat /\ MaxShown > 0
      BY DEF AnalysisAssumption
    <2> QED
      BY <1>10, <2>1 DEF Shown
  <1>12. /\ Feedback(a.out).rows = PhaseRows /\ Feedback(a.out).failed = Len(a.out)
         /\ Feedback(a.out).total = ran /\ Feedback(a.out).shown = Shown(a.out)
    BY DEF Feedback
  <1> QED
    BY <1>2, <1>3, <1>4, <1>9, <1>11, <1>12

LEMMA ReturnKeeps ==
  ASSUME AnalysisAssumption, AnalysisInv, NEW p \in Analyzers, Return(p)
  PROVE  AnalysisInv'
  <1>1. /\ PhaseFits /\ ServiceFits /\ FeedbackFits
        /\ results \in Seq(TestRow) /\ RowsStay
    BY InvTells, NothingMoves DEF Return
  <1>2. UNCHANGED <<results, events, reads, dead, abandoned>>
    BY DEF Return
  <1>3. PICK a : a = analysis[p]
    OBVIOUS
  <1>4. /\ a.pc = "next" /\ a.todo = {} /\ (a.again => p = Service)
    BY <1>3, AnalyzingTells DEF Return
  <1>5. FeedbackFits'
    <2>1. CASE a.again
      <3>1. a = analysis[Service]
        BY <1>3, <1>4, <2>1
      <3>2. PICK f : f = Feedback(a.out)
        OBVIOUS
      <3>3. /\ f.rows \subseteq DOMAIN results
            /\ \A i \in f.rows : results[i].phase = "post_patch"
            /\ f.total = Cardinality(f.rows) /\ f.failed = Cardinality(FailedOf(f.rows))
            /\ f.shown \in 1..f.failed
        BY <1>4, <2>1, <3>1, <3>2, FeedbackAgrees
      <3>4. feedback' = f
        BY <1>3, <2>1, <3>2 DEF Return
      <3>5. FailedOf(feedback.rows)' = FailedOf(f.rows)
        BY <1>2, <3>4 DEF FailedOf, Failed
      <3> QED
        BY <1>2, <3>3, <3>4, <3>5 DEF FeedbackFits
    <2>2. CASE ~a.again
      <3>1. feedback' = feedback
        BY <1>3, <2>2 DEF Return
      <3> QED
        BY <1>1, <3>1, FeedbackStays
    <2> QED
      BY <2>1, <2>2
  <1>6. CASE p = Service /\ a.out # <<>> /\ Script[position].phase = "post_patch" /\ ~a.again
    <2>1. PICK b : b = Begun(PhaseRows, TRUE)
      OBVIOUS
    <2>2. analysis' = [analysis EXCEPT ![p] = b] /\ UNCHANGED <<position, ran>>
      BY <1>3, <1>6, <2>1 DEF Return, Begin, Begun
    <2>3. Analyzing(b) /\ b.again = TRUE /\ b.pc = "next" /\ b.asked = FailedOf(PhaseRows)
      BY <1>1, <2>1, BegunFits, RowsOfPhase
    <2>4. /\ EventsFit' /\ DuplicatesBounded' /\ AnalysesFit' /\ analysis'[Service] = b
      BY <1>2, <1>6, <2>2, <2>3, OneMoves
    <2>5. PhaseFits'
      BY <1>1, <1>2, <2>2, PhaseSame DEF PhaseFits
    <2>6. /\ position <= Len(Script) /\ ran = Script[position].commands
          /\ a.asked = FailedOf(PhaseRows)
      BY <1>1, <1>3, <1>4, <1>6 DEF ServiceFits
    <2>7. a.asked # {}
      <3>1. /\ a.hidden <=> a.asked \cap Hidden # {}
            /\ Range(a.out) = (a.asked \ Hidden) \cup (IF a.hidden THEN {Aggregate} ELSE {})
            /\ a.out \in Seq(Nat)
        BY <1>3, <1>4, Returned
      <3>2. Len(a.out) # 0 /\ Len(a.out) \in Nat /\ DOMAIN a.out = 1..Len(a.out)
        BY <1>6, <3>1
      <3>3. a.out[1] \in Range(a.out)
        BY <3>2 DEF Range
      <3> QED
        BY <3>1, <3>3
    <2>8. ServiceFits'
      <3>1. FailedOf(PhaseRows)' = FailedOf(PhaseRows)
        BY <1>2, <2>2 DEF FailedOf, Failed, PhaseRows
      <3> QED
        BY <1>6, <2>2, <2>3, <2>4, <2>6, <2>7, <3>1 DEF ServiceFits
    <2> QED
      BY <1>5, <2>4, <2>5, <2>8 DEF AnalysisInv, AnalysesFit
  <1>7. CASE ~(p = Service /\ a.out # <<>> /\ Script[position].phase = "post_patch" /\ ~a.again)
    <2>1. PICK b : b = Idle
      OBVIOUS
    <2>2. /\ analysis' = [analysis EXCEPT ![p] = b]
          /\ p = Service => position' = position + 1 /\ ran' = 0
          /\ p # Service => UNCHANGED <<position, ran>>
      BY <1>3, <1>7, <2>1 DEF Return
    <2>3. Analyzing(b) /\ b.again = FALSE /\ b.pc = "idle"
      BY <1>1, <2>1, IdleFits
    <2>4. ~b.again
      BY <2>3, Zenon
    <2>5. /\ EventsFit' /\ DuplicatesBounded' /\ AnalysesFit' /\ analysis'[p] = b
          /\ \A q \in Analyzers : q # p => analysis'[q] = analysis[q]
      BY <1>2, <2>2, <2>3, <2>4, OneMoves
    <2>6. PhaseFits' /\ ServiceFits'
      <3>1. CASE p = Service
        <4>1. position' = position + 1 /\ ran' = 0 /\ results' = results
          BY <1>2, <2>2, <3>1
        <4>2. position <= Len(Script)
          BY <1>1, <1>3, <1>4, <3>1 DEF ServiceFits
        <4>3. Len(Script) \in Nat /\ position \in 1..Len(Script) + 1 /\ Len(results) \in Nat
          BY <1>1, ScriptTells, HiddenFinite DEF PhaseFits
        <4>4. position' <= Len(Script) => 0 <= Script[position'].commands
          BY <4>1, <4>3, ScriptTells
        <4>5. PhaseRows' = {}
          <5>1. PhaseRows' = Len(results) + 1 .. Len(results)
            BY <4>1, <4>3 DEF PhaseRows
          <5> QED
            BY <4>3, <5>1
        <4>6. reads' \in 0..MaxReads /\ dead' \in BOOLEAN /\ abandoned' \subseteq DOMAIN results'
          BY <1>1, <1>2 DEF PhaseFits
        <4>7. position' \in 1..Len(Script) + 1 /\ ran' \in Nat /\ ran' <= Len(results')
          BY <4>1, <4>2, <4>3
        <4>8. PhaseFits'
          BY <1>1, <4>1, <4>4, <4>5, <4>6, <4>7 DEF PhaseFits
        <4>9. ServiceFits'
          BY <2>3, <2>4, <2>5, <3>1 DEF ServiceFits
        <4> QED
          BY <4>8, <4>9
      <3>2. CASE p # Service
        <4>1. UNCHANGED <<position, ran>> /\ analysis'[Service] = analysis[Service]
          BY <2>2, <2>5, <3>2, ServiceAnalyzes
        <4>2. PhaseFits'
          BY <1>1, <1>2, <4>1, PhaseSame DEF PhaseFits
        <4>3. ServiceFits'
          BY <1>1, <1>2, <4>1, ServiceSame
        <4> QED
          BY <4>2, <4>3
      <3> QED
        BY <3>1, <3>2
    <2> QED
      BY <1>5, <2>5, <2>6 DEF AnalysisInv, AnalysesFit
  <1> QED
    BY <1>6, <1>7

LEMMA AnalysisStuttering ==
  ASSUME AnalysisInv, UNCHANGED analysisVars
  PROVE  AnalysisInv'
  <1>1. /\ PhaseFits /\ ServiceFits /\ FeedbackFits /\ DuplicatesBounded /\ EventsFit /\ AnalysesFit
        /\ results \in Seq(TestRow) /\ RowsStay
    BY InvTells, NothingMoves DEF analysisVars
  <1>2. UNCHANGED <<results, position, ran, analysis, events, feedback, reads, dead, abandoned>>
    BY DEF analysisVars
  <1>3. EventsFit' /\ EventsStay
    BY <1>1, <1>2, EventsKept
  <1>4. AnalysesFit'
    BY <1>1, <1>2, <1>3, AllStay
  <1>5. DuplicatesBounded'
    <2>1. \A k \in Nat : Inserting(k)' = Inserting(k) /\ WithKey(k)' = WithKey(k)
      BY <1>2 DEF Inserting, WithKey
    <2> QED
      BY <1>1, <2>1 DEF DuplicatesBounded
  <1>6. PhaseFits'
    BY <1>1, <1>2, PhaseSame DEF PhaseFits
  <1>7. ServiceFits'
    BY <1>1, <1>2, ServiceSame
  <1>8. FeedbackFits'
    BY <1>1, <1>2, FeedbackStays
  <1> QED
    BY <1>3, <1>4, <1>5, <1>6, <1>7, <1>8 DEF AnalysisInv, AnalysesFit

LEMMA BreakOffKeeps ==
  ASSUME AnalysisAssumption, AnalysisInv, BreakOff
  PROVE  AnalysisInv'
  <1>1. /\ PhaseFits /\ ServiceFits /\ FeedbackFits /\ DuplicatesBounded /\ EventsFit /\ AnalysesFit
        /\ results \in Seq(TestRow) /\ RowsStay
    BY InvTells, NothingMoves DEF BreakOff
  <1>2. /\ position <= Len(Script) /\ ran < Script[position].commands
        /\ position' \in {position + 1, Len(Script) + 1} /\ ran' = 0
        /\ abandoned' = abandoned \cup PhaseRows
        /\ UNCHANGED <<results, analysis, events, feedback, reads, dead>>
    BY DEF BreakOff
  <1>3. /\ Len(Script) \in Nat /\ position \in 1..Len(Script) + 1 /\ Len(results) \in Nat
        /\ ran \in Nat
    BY <1>1, ScriptTells, HiddenFinite DEF PhaseFits
  <1>4. EventsFit' /\ EventsStay
    BY <1>1, <1>2, EventsKept
  <1>5. AnalysesFit'
    BY <1>1, <1>2, <1>4, AllStay
  <1>6. DuplicatesBounded'
    <2>1. \A k \in Nat : Inserting(k)' = Inserting(k) /\ WithKey(k)' = WithKey(k)
      BY <1>2 DEF Inserting, WithKey
    <2> QED
      BY <1>1, <2>1 DEF DuplicatesBounded
  <1>7. FeedbackFits'
    BY <1>1, <1>2, FeedbackStays
  <1>8. ServiceFits'
    <2>1. Script[position].commands \in Nat
      BY <1>2, <1>3, ScriptTells
    <2>2. analysis[Service].pc = "idle"
      BY <1>1, <1>2, <1>3, <2>1 DEF ServiceFits
    <2>3. ~analysis[Service].again
      BY <1>1, <2>2 DEF ServiceFits
    <2> QED
      BY <1>2, <2>2, <2>3 DEF ServiceFits
  <1>9. PhaseFits'
    <2>1. position' \in 1..Len(Script) + 1 /\ ran' \in Nat /\ ran' <= Len(results')
      BY <1>2, <1>3
    <2>2. position' <= Len(Script) => 0 <= Script[position'].commands
      BY <2>1, <1>3, ScriptTells
    <2>3. PhaseRows' = {}
      <3>1. PhaseRows' = Len(results) + 1 .. Len(results)
        BY <1>2, <1>3 DEF PhaseRows
      <3> QED
        BY <1>3, <3>1
    <2>4. abandoned' \subseteq DOMAIN results'
      BY <1>1, <1>2, RowsOfPhase DEF PhaseFits
    <2> QED
      BY <1>1, <1>2, <2>1, <2>2, <2>3, <2>4 DEF PhaseFits
  <1> QED
    BY <1>4, <1>5, <1>6, <1>7, <1>8, <1>9 DEF AnalysisInv, AnalysesFit

LEMMA AnalysisNextKeeps ==
  ASSUME AnalysisAssumption, AnalysisInv, [AnalysisNext]_analysisVars
  PROVE  AnalysisInv'
  <1>1. CASE \E o \in CommandOutcomes : RunCommand(o)
    BY <1>1, RunCommandKeeps
  <1>2. CASE AnalyzePhase
    BY <1>2, AnalyzePhaseKeeps
  <1>3. CASE Crash
    BY <1>3, CrashKeeps
  <1>4. CASE AnalysisEnded
    BY <1>4, AnalysisStuttering DEF AnalysisEnded
  <1>5. CASE \E p \in Readers : Read(p)
    BY <1>5, ReadKeeps
  <1>6. ASSUME NEW p \in Analyzers, AnalysisStep(p) PROVE AnalysisInv'
    <2>1. CASE \E i \in DOMAIN results : Analyze(p, i)
      BY <2>1, AnalyzeKeeps
    <2>2. CASE Lookup(p)
      BY <2>2, LookupKeeps
    <2>3. CASE Store(p)
      BY <2>3, StoreKeeps
    <2>4. CASE Return(p)
      BY <2>4, ReturnKeeps
    <2> QED
      BY <1>6, <2>1, <2>2, <2>3, <2>4 DEF AnalysisStep
  <1>7. CASE UNCHANGED analysisVars
    BY <1>7, AnalysisStuttering
  <1>8. CASE BreakOff
    BY <1>8, BreakOffKeeps
  <1> QED
    BY <1>1, <1>2, <1>3, <1>4, <1>5, <1>6, <1>7, <1>8 DEF AnalysisNext

LEMMA AnalysisInvImplies ==
  ASSUME AnalysisAssumption, AnalysisInv
  PROVE  AnalysesAreFaithful
  <1>1. /\ PhaseFits /\ EventsFit /\ DuplicatesBounded /\ ServiceFits /\ FeedbackFits /\ AnalysesFit
        /\ results \in Seq(TestRow)
    BY InvTells DEF PhaseFits
  <1>2. /\ Len(results) \in Nat /\ DOMAIN results = 1..Len(results)
        /\ \A i \in DOMAIN results : results[i] \in TestRow
    BY <1>1, HiddenFinite
  <1>3. /\ events \in Seq(Range(events)) /\ DOMAIN events = 1..Len(events) /\ Len(events) \in Nat
    BY <1>1, KeysFinite DEF EventsFit
  <1>4. \A e \in Range(events) : PayloadFits(e.key, e.payload)
    <2>1. ASSUME NEW e \in Range(events) PROVE PayloadFits(e.key, e.payload)
      <3>1. PICK j \in DOMAIN events : e = events[j]
        BY DEF Range
      <3> QED
        BY <1>1, <3>1 DEF EventsFit
    <2> QED
      BY <2>1
  <1>5. AnalysisTypeOK
    <2>1. ASSUME NEW p \in Analyzers
          PROVE  /\ analysis[p].todo \subseteq analysis[p].asked
                 /\ analysis[p].asked \subseteq DOMAIN results
                 /\ analysis[p].pc \in {"idle", "next", "lookup", "store"}
                 /\ analysis[p].found \in 0..Len(events)
      <3>1. PICK a : a = analysis[p]
        OBVIOUS
      <3>2. Analyzing(a)
        BY <1>1, <3>1 DEF AnalysesFit
      <3> QED
        BY <1>3, <3>1, <3>2 DEF Analyzing, RowsOf
    <2>2. \A e \in Range(events) : e.key \in {Aggregate} \cup DOMAIN results
      BY <1>4 DEF PayloadFits
    <2> QED
      BY <1>1, <2>1, <2>2 DEF AnalysisTypeOK, PhaseFits
  <1>6. HiddenStaysAggregate
    <2>1. ASSUME NEW e \in Range(events), e.key = Aggregate
          PROVE  /\ e.payload.tests \cup e.payload.excerpts \cup e.payload.stack
                      \cup e.payload.paths = {}
                 /\ e.payload.count \in 1..Cardinality(FailedOf(Hidden))
                 /\ e.payload.total \in e.payload.count..Cardinality(Hidden)
      BY <1>4, <2>1 DEF PayloadFits
    <2>2. ASSUME NEW e \in Range(events), e.key # Aggregate PROVE e.key \notin Hidden
      BY <1>4, <2>2 DEF PayloadFits
    <2> QED
      BY <2>1, <2>2 DEF HiddenStaysAggregate
  <1>7. AnswersInOrder
    <2>1. ASSUME NEW p \in Analyzers, NEW a, a = analysis[p], a.pc = "next", a.todo = {}
          PROVE  /\ Range(a.out) = (a.asked \ Hidden)
                      \cup (IF a.asked \cap Hidden = {} THEN {} ELSE {Aggregate})
                 /\ \A i, j \in DOMAIN a.out : i < j => InPlace(a, a.out[i]) < InPlace(a, a.out[j])
      <3>1. /\ a.hidden <=> a.asked \cap Hidden # {}
            /\ Range(a.out) = (a.asked \ Hidden) \cup (IF a.hidden THEN {Aggregate} ELSE {})
            /\ \A i, j \in DOMAIN a.out : i < j => InPlace(a, a.out[i]) < InPlace(a, a.out[j])
        BY <2>1, Returned
      <3> QED
        BY <3>1
    <2> QED
      BY <2>1 DEF AnswersInOrder
  <1>8. AnalysesAgree
    <2>1. ASSUME NEW e \in Range(events), e.key # Aggregate
          PROVE  /\ e.payload = AnalyzeVisible(results[e.key]) /\ Failed(e.key)
                 /\ \A i \in e.payload.paths : "gold" \notin results[e.key].output[i]
                 /\ \A S \in {e.payload.tests, e.payload.excerpts, e.payload.stack,
                              e.payload.paths} : Cardinality(S) <= MaxItems
      <3>1. /\ e.payload = AnalyzeVisible(results[e.key]) /\ Failed(e.key)
            /\ e.key \in DOMAIN results
        BY <1>4, <2>1 DEF PayloadFits
      <3>2. PICK r : r = results[e.key]
        OBVIOUS
      <3>3. r \in TestRow /\ e.payload = AnalyzeVisible(r)
        BY <1>2, <3>1, <3>2
      <3>4. /\ \A i \in e.payload.paths : "gold" \notin r.output[i]
            /\ \A S \in {e.payload.tests, e.payload.excerpts, e.payload.stack,
                         e.payload.paths} : Cardinality(S) <= MaxItems
        BY <3>3, VisibleFits
      <3> QED
        BY <3>1, <3>2, <3>4
    <2> QED
      BY <2>1 DEF AnalysesAgree
  <1>9. BoundedDuplicates
    <2>1. ASSUME NEW k \in Nat PROVE Cardinality(WithKey(k)) <= Cardinality(Analyzers)
      <3>1. Cardinality(WithKey(k)) \in Nat
        BY <1>3, KeysFinite
      <3>2. Inserting(k) \subseteq Analyzers
        BY DEF Inserting
      <3>3. Cardinality(Inserting(k)) \in Nat /\ Cardinality(Analyzers) \in Nat
        BY <3>2, AnalyzersFinite
      <3>4. Cardinality(WithKey(k)) + Cardinality(Inserting(k)) <= Cardinality(Analyzers)
        BY <1>1 DEF DuplicatesBounded
      <3> QED
        BY <3>1, <3>3, <3>4
    <2>2. {Aggregate} \cup DOMAIN results \subseteq Nat
      BY <1>2 DEF Aggregate
    <2> QED
      BY <2>1, <2>2 DEF BoundedDuplicates
  <1>10. FeedbackCounts
    BY <1>1 DEF FeedbackFits, FeedbackCounts
  <1> QED
    BY <1>5, <1>6, <1>7, <1>8, <1>9, <1>10 DEF AnalysesAreFaithful

(* What is known of every analyzer while it works, of every event and of   *)
(* the phase under way holds of every run: analyze_results takes the rows  *)
(* in order, _persist looks for an event and then inserts one, and the     *)
(* service analyzes the phase whose commands it has run.                   *)
THEOREM AnalysisInductive ==
  ASSUME AnalysisAssumption
  PROVE  AnalysisSpec => []AnalysisInv
  <1>1. AnalysisInit => AnalysisInv
    BY InitFits
  <1>2. AnalysisInv /\ [AnalysisNext]_analysisVars => AnalysisInv'
    BY AnalysisNextKeeps
  <1> QED
    BY <1>1, <1>2, PTL DEF AnalysisSpec

(* Analyses show nothing of hidden tests but counts, name each failed      *)
(* result once and in order, agree whoever made them, are repeated at most *)
(* once for each analyzer, and the agent is told the right numbers: for    *)
(* any number of readers, outputs, phases and commands (list_for_run,      *)
(* analyze_results, _persist and format_repair_feedback).                  *)
THEOREM AnalysesFaithful ==
  ASSUME AnalysisAssumption
  PROVE  AnalysisSpec => []AnalysesAreFaithful
  <1>1. AnalysisInv => AnalysesAreFaithful
    BY AnalysisInvImplies
  <1> QED
    BY <1>1, AnalysisInductive, PTL

===============================================================================
