------------------------------ MODULE ImageFile ------------------------------
(***************************************************************************)
(* PcosImageFile (kw/src/eclrImageFile.cpp) and the files it keeps: a boot *)
(* image is downloaded into a temporary file, verified, and activated by   *)
(* renaming it.  The process may be killed between any two calls of the    *)
(* file system; the files survive.                                         *)
(*                                                                         *)
(* The PLC runtime, which is not in this repository, calls it in the order *)
(* its comments give: Open to create, Write, Close, Open and Read to       *)
(* verify, Activate.  One thread uses the object.                          *)
(***************************************************************************)
EXTENDS Naturals

CONSTANTS
  Blocks,        \* blocks of an image
  MaxDownloads,  \* downloads
  MaxFaults      \* calls of the file system that may fail, and kills

ASSUME ImageAssumption ==
  Blocks \in Nat \ {0} /\ MaxDownloads \in Nat /\ MaxFaults \in Nat

Persistent       == "bootfile.img"
TmpPersistent    == "_bootfile.img"
NonPersistent    == "bootfile.tmp"
TmpNonPersistent == "_bootfile.tmp"
Name == {Persistent, TmpPersistent, NonPersistent, TmpNonPersistent}

Image   == [version : 1 .. MaxDownloads, blocks : 0 .. Blocks]
NoImage == [version |-> 0, blocks |-> 0]      \* there is no such file
Whole(f) == f.blocks = Blocks

VARIABLES
  disk,         \* the files
  m_pFile,      \* "null", or how the file m_pImageName is open
  m_pTmpName,   \* "null", or the temporary file
  m_pImageName,
  pc,           \* where Activate is
  result,       \* what rename returned, and then Activate
  session,      \* what the runtime knows of its download
  downloads, faults,
  previous,     \* ghost: the image file before the last Activate
  failed,       \* ghost: "null", or the image whose activation has failed
  active,       \* ghost: the version Activate last said it made persistent
  persistent    \* ghost: the versions activated as persistent

vars == <<disk, m_pFile, m_pTmpName, m_pImageName, pc, result, session,
          downloads, faults, previous, failed, active, persistent>>

ghosts == <<previous, failed, active, persistent>>

Init ==
  /\ disk = [n \in Name |-> NoImage]
  /\ m_pFile = "null" /\ m_pTmpName = "null" /\ m_pImageName = "null"
  /\ pc = "out" /\ result = TRUE
  /\ session = "none" /\ downloads = 0 /\ faults = 0
  /\ previous = NoImage /\ failed = "null" /\ active = 0 /\ persistent = {}

Fault == faults < MaxFaults /\ faults' = faults + 1

(* Open(Create): the temporary name is set whether or not the file could   *)
(* be created; creating it truncates an older one.                         *)
OpenCreate ==
  /\ pc = "out" /\ m_pFile = "null" /\ downloads < MaxDownloads
  /\ downloads' = downloads + 1
  /\ \E tmp \in {TmpPersistent, TmpNonPersistent} :
       /\ m_pTmpName' = tmp /\ m_pImageName' = tmp
       /\ \/ /\ disk' = [disk EXCEPT ![tmp] = [version |-> downloads',
                                               blocks |-> 0]]
             /\ m_pFile' = "write" /\ session' = "ok"
             /\ UNCHANGED faults
          \/ Fault /\ session' = "failed" /\ UNCHANGED <<disk, m_pFile>>
  /\ UNCHANGED <<pc, result, ghosts>>

(* Open(RdOnly): the temporary image if there is one, or the real one.     *)
OpenRead ==
  /\ pc = "out" /\ m_pFile = "null"
  /\ \E real \in {Persistent, NonPersistent} :
       LET name == IF m_pTmpName # "null" THEN m_pTmpName ELSE real IN
         /\ m_pImageName' = name
         /\ m_pFile' = IF disk[name] # NoImage THEN "read" ELSE "null"
  /\ UNCHANGED <<disk, m_pTmpName, pc, result, session, downloads, faults,
                 ghosts>>

MoreAlways(f) == f \in Image                                      \* mutant

More(f) == f.blocks < Blocks

Write ==
  /\ m_pFile = "write" /\ session = "ok" /\ More(disk[m_pImageName])
  /\ \/ disk' = [disk EXCEPT ![m_pImageName].blocks = @ + 1]
          /\ UNCHANGED <<session, faults>>
     \/ Fault /\ session' = "failed" /\ UNCHANGED disk
  /\ UNCHANGED <<m_pFile, m_pTmpName, m_pImageName, pc, result, downloads,
                 ghosts>>

(* The runtime may abandon a download before its last block.               *)
Close ==
  /\ m_pFile # "null"
  /\ m_pFile' = "null"
  /\ session' = IF m_pFile = "write" /\ ~Whole(disk[m_pImageName])
                THEN "failed" ELSE session
  /\ UNCHANGED <<disk, m_pTmpName, m_pImageName, pc, result, downloads, faults,
                 ghosts>>

Target(isPersistent) == IF isPersistent THEN Persistent ELSE NonPersistent

WantedAnyway(isOK) == isOK \in BOOLEAN                             \* mutant

Wanted(isOK) == isOK

DoneKeepingDownload ==                                           \* mutant
  /\ pc' = "out"
  /\ UNCHANGED <<m_pTmpName, session>>

Done ==
  /\ m_pTmpName' = "null"
  /\ pc' = "out"
  /\ session' = "none"

(* EclrFile::Remove and remove: nobody looks at what they return.          *)
RemoveFile(name) ==
  \/ disk' = [disk EXCEPT ![name] = NoImage] /\ UNCHANGED faults
  \/ Fault /\ UNCHANGED disk

(* Activate, first call: the image in force is removed, whatever comes of  *)
(* the new one.  The runtime calls it at the end of a session, and says    *)
(* isOK when it has verified the download.                                 *)
Activate(isPersistent, isOK) ==
  /\ pc = "out" /\ m_pFile = "null" /\ session # "none"
  /\ isOK => session = "ok"
  /\ m_pImageName' = Target(isPersistent)
  /\ previous' = disk[m_pImageName'] /\ failed' = "null"
  /\ IF Wanted(isOK) /\ m_pTmpName # "null"
     THEN /\ RemoveFile(m_pImageName')
          /\ active' = IF isPersistent THEN 0 ELSE active
          /\ persistent' = IF isPersistent
                           THEN persistent \cup {disk[m_pTmpName].version}
                           ELSE persistent
          /\ pc' = "rename"
          /\ UNCHANGED <<m_pTmpName, session, result>>
     ELSE /\ result' = ~Wanted(isOK)
          /\ Done
          /\ UNCHANGED <<disk, faults, active, persistent>>
  /\ UNCHANGED <<m_pFile, downloads>>

(* An old image that could not be removed is replaced.                     *)
Rename ==
  /\ pc = "rename"
  /\ \/ /\ disk' = [disk EXCEPT ![m_pImageName] = disk[m_pTmpName],
                                ![m_pTmpName] = NoImage]
        /\ result' = TRUE /\ UNCHANGED faults
     \/ Fault /\ result' = FALSE /\ UNCHANGED disk
  /\ pc' = "cleanup"
  /\ UNCHANGED <<m_pFile, m_pTmpName, m_pImageName, session, downloads, ghosts>>

CleanTarget == m_pImageName                                       \* mutant

Leftover == m_pTmpName

(* The temporary file is removed, renamed or not. *)
CleanUp ==
  /\ pc = "cleanup"
  /\ RemoveFile(Leftover)
  /\ active' = IF result /\ m_pImageName = Persistent
               THEN disk[Persistent].version ELSE active
  /\ failed' = IF result THEN "null" ELSE m_pImageName
  /\ Done
  /\ UNCHANGED <<m_pFile, m_pImageName, result, downloads, previous,
                 persistent>>

Remove ==
  /\ pc = "out" /\ m_pFile # "write"
  /\ RemoveFile(Persistent)
  /\ active' = IF disk'[Persistent] = NoImage THEN 0 ELSE active
  /\ failed' = "null"
  /\ UNCHANGED <<m_pFile, m_pTmpName, m_pImageName, pc, result, session,
                 downloads, previous, persistent>>

(* The process is killed: what stdio had not written yet is lost, and a    *)
(* new object knows of no temporary file.                                  *)
Kill ==
  /\ Fault
  /\ IF m_pFile = "write"
     THEN \E n \in 0 .. disk[m_pImageName].blocks :
            disk' = [disk EXCEPT ![m_pImageName].blocks = n]
     ELSE UNCHANGED disk
  /\ m_pFile' = "null" /\ m_pTmpName' = "null" /\ m_pImageName' = "null"
  /\ pc' = "out" /\ result' = TRUE /\ session' = "none"
  /\ previous' = NoImage /\ failed' = "null"
  /\ UNCHANGED <<downloads, active, persistent>>

Next ==
  \/ OpenCreate \/ OpenRead \/ Write \/ Close \/ Rename \/ CleanUp \/ Remove
  \/ Kill
  \/ \E isPersistent, isOK \in BOOLEAN : Activate(isPersistent, isOK)

Spec == Init /\ [][Next]_vars

-----------------------------------------------------------------------------
TypeOK ==
  /\ disk \in [Name -> Image \cup {NoImage}]
  /\ m_pFile \in {"null", "read", "write"}
  /\ m_pTmpName \in {"null", TmpPersistent, TmpNonPersistent}
  /\ m_pImageName \in Name \cup {"null"}
  /\ pc \in {"out", "rename", "cleanup"} /\ result \in BOOLEAN
  /\ session \in {"none", "ok", "failed"}
  /\ downloads \in 0 .. MaxDownloads /\ faults \in 0 .. MaxFaults
  /\ previous \in Image \cup {NoImage} /\ failed \in Name \cup {"null"}
  /\ active \in 0 .. MaxDownloads /\ persistent \subseteq 1 .. MaxDownloads

(* What the RTU boots is a whole image: neither a kill in the middle of a  *)
(* download or of an activation nor a failed write puts a part of an image *)
(* under the boot name.                                                    *)
BootImageWhole == disk[Persistent] # NoImage => Whole(disk[Persistent])

(* An image that Activate said it made persistent stays the boot image     *)
(* through later downloads, kills and non-persistent activations, until    *)
(* the next persistent activation begins or Remove deletes it.             *)
ActiveBoots == active # 0 => disk[Persistent].version = active

Boot == INSTANCE BootImage WITH
          Version <- 1 .. MaxDownloads,
          boot    <- disk[Persistent].version,
          offered <- persistent,
          pending <- pc = "rename" /\ m_pImageName = Persistent

(* The files implement BootImage: whatever is downloaded, killed or fails, *)
(* no step brings back an older image, or a newer one that was not made    *)
(* persistent.  A temporary file that an earlier process left behind is    *)
(* never taken for the download of this one.                               *)
ImplementsBoot == Boot!Spec

(* A failed activation leaves the previous image in force.                 *)
FailureRestores == failed # "null" => disk[failed] = previous

=============================================================================
