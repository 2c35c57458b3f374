--------------------------- MODULE ImageFileProofs ---------------------------
(* The boot image is whole, and is the one that was activated, for images  *)
(* of any size and any number of downloads, failures and kills.            *)
EXTENDS ImageFile, TLAPS

Tmp  == {TmpPersistent, TmpNonPersistent}
Real == {Persistent, NonPersistent}

(* What is known of the temporary file while it is written, once it has    *)
(* been verified, and while Activate renames it.                           *)
Downloading ==
  /\ m_pFile = "write" => pc = "out" /\ m_pTmpName \in Tmp
                            /\ m_pImageName = m_pTmpName
                            /\ disk[m_pImageName] \in Image
  /\ session = "ok" /\ m_pFile # "write" /\ pc = "out" =>
       m_pTmpName \in Tmp /\ Whole(disk[m_pTmpName])

Activating ==
  /\ pc # "out" => m_pFile # "write" /\ m_pTmpName \in Tmp
                     /\ m_pImageName \in Real
  /\ pc = "rename" => Whole(disk[m_pTmpName])
  /\ pc = "rename" /\ m_pImageName = Persistent =>
       active = 0 /\ disk[m_pTmpName].version \in persistent
  /\ pc = "cleanup" /\ m_pImageName = Persistent => active = 0

(* A cold boot never loads an image that was activated as non-persistent.  *)
NonPersistentNotBooted ==
  disk[Persistent] # NoImage => disk[Persistent].version \in persistent

IInv == /\ TypeOK /\ Downloading /\ Activating
        /\ BootImageWhole /\ ActiveBoots /\ NonPersistentNotBooted

LEMMA Names ==
  /\ Tmp \subseteq Name /\ Real \subseteq Name /\ Persistent \notin Tmp
  /\ \A t \in Tmp, r \in Real : t # r
  /\ "null" \notin Name /\ Persistent \in Real /\ Persistent # NonPersistent
  BY DEF Tmp, Real, Name, Persistent, NonPersistent, TmpPersistent,
         TmpNonPersistent

LEMMA Images ==
  /\ \A f \in Image : f.version \in 1 .. MaxDownloads /\ f.blocks \in 0 .. Blocks
  /\ NoImage.version = 0 /\ NoImage.blocks = 0 /\ NoImage \notin Image
  BY DEF Image, NoImage

LEMMA InitIInv == Init => IInv
  <1> SUFFICES ASSUME Init PROVE IInv
    OBVIOUS
  <1>1. TypeOK
    BY ImageAssumption DEF Init, TypeOK
  <1>2. \A n \in Name : disk[n] = NoImage
    BY DEF Init
  <1> QED
    BY <1>1, <1>2, Names DEF Init, IInv, Downloading, Activating,
       BootImageWhole, ActiveBoots, NonPersistentNotBooted

LEMMA FaultType ==
  ASSUME TypeOK, Fault
  PROVE  faults' \in 0 .. MaxFaults
  BY ImageAssumption DEF TypeOK, Fault

(* A file that is removed is gone, or stays as it was.                     *)
LEMMA RemoveFileStep ==
  ASSUME TypeOK, NEW name \in Name, RemoveFile(name)
  PROVE  /\ disk' \in [Name -> Image \cup {NoImage}]
         /\ faults' \in 0 .. MaxFaults
         /\ \A n \in Name : n # name => disk'[n] = disk[n]
         /\ disk'[name] \in {NoImage, disk[name]}
  <1>1. CASE disk' = [disk EXCEPT ![name] = NoImage] /\ UNCHANGED faults
    BY <1>1 DEF TypeOK
  <1>2. CASE Fault /\ UNCHANGED disk
    BY <1>2, FaultType DEF TypeOK
  <1> QED
    BY <1>1, <1>2 DEF RemoveFile

LEMMA OpenCreateIInv == ASSUME IInv, OpenCreate PROVE IInv'
  <1>1. PICK tmp \in Tmp :
          /\ m_pTmpName' = tmp /\ m_pImageName' = tmp
          /\ \/ /\ disk' = [disk EXCEPT ![tmp] = [version |-> downloads',
                                                  blocks |-> 0]]
                /\ m_pFile' = "write" /\ session' = "ok" /\ UNCHANGED faults
             \/ Fault /\ session' = "failed" /\ UNCHANGED <<disk, m_pFile>>
    BY DEF OpenCreate, Tmp
  <1>2. downloads' \in 1 .. MaxDownloads /\ pc = "out" /\ m_pFile = "null"
    <2>1. downloads \in Nat /\ downloads < MaxDownloads
          /\ downloads' = downloads + 1 /\ MaxDownloads \in Nat
      BY ImageAssumption DEF OpenCreate, IInv, TypeOK
    <2>2. downloads' \in 1 .. MaxDownloads
      BY <2>1
    <2>3. pc = "out" /\ m_pFile = "null"
      BY DEF OpenCreate
    <2> QED
      BY <2>2, <2>3
  <1>3. [version |-> downloads', blocks |-> 0] \in Image
    BY <1>2, ImageAssumption DEF Image
  <1>4. /\ disk' \in [Name -> Image \cup {NoImage}]
        /\ disk'[Persistent] = disk[Persistent]
        /\ (m_pFile' = "write" => disk'[tmp] \in Image)
    BY <1>1, <1>2, <1>3, Names DEF IInv, TypeOK
  <1>5. UNCHANGED <<pc, result, previous, failed, active, persistent>>
    BY DEF OpenCreate, ghosts
  <1>6. /\ m_pFile' \in {"null", "write"} /\ session' \in {"ok", "failed"}
        /\ (m_pFile' = "write" <=> session' = "ok")
    BY <1>1, <1>2
  <1>7. faults' \in 0 .. MaxFaults
    BY <1>1, FaultType DEF IInv, TypeOK
  <1>8. TypeOK'
    <2>1. m_pTmpName' \in {"null", TmpPersistent, TmpNonPersistent}
          /\ m_pImageName' \in Name \cup {"null"}
      BY <1>1, Names DEF Tmp
    <2> QED
      BY <1>2, <1>4, <1>5, <1>6, <1>7, <2>1 DEF IInv, TypeOK
  <1>9. Downloading' /\ Activating'
    BY <1>1, <1>2, <1>4, <1>5, <1>6 DEF Downloading, Activating
  <1>10. BootImageWhole' /\ ActiveBoots' /\ NonPersistentNotBooted'
    BY <1>4, <1>5 DEF IInv, BootImageWhole, ActiveBoots, NonPersistentNotBooted,
                      Whole
  <1> QED
    BY <1>8, <1>9, <1>10 DEF IInv

LEMMA OpenReadIInv == ASSUME IInv, OpenRead PROVE IInv'
  <1>1. /\ m_pImageName' \in Name /\ m_pFile' \in {"null", "read"}
        /\ pc = "out" /\ m_pFile = "null"
        /\ UNCHANGED <<disk, m_pTmpName, pc, result, session, downloads, faults,
                       previous, failed, active, persistent>>
    BY Names DEF OpenRead, ghosts, IInv, TypeOK, Tmp, Real
  <1>2. TypeOK'
    BY <1>1 DEF IInv, TypeOK
  <1>3. Downloading' /\ Activating'
    BY <1>1 DEF IInv, Downloading, Activating, Whole
  <1>4. BootImageWhole' /\ ActiveBoots' /\ NonPersistentNotBooted'
    BY <1>1 DEF IInv, BootImageWhole, ActiveBoots, NonPersistentNotBooted, Whole
  <1> QED
    BY <1>2, <1>3, <1>4 DEF IInv

(* The blocks of the temporary file that is being written change, by a     *)
(* Write or by a kill.                                                     *)
LEMMA ResizeIInv ==
  ASSUME IInv, m_pFile = "write", NEW n \in 0 .. Blocks,
         disk' = [disk EXCEPT ![m_pImageName].blocks = n]
  PROVE  /\ disk' \in [Name -> Image \cup {NoImage}]
         /\ disk'[Persistent] = disk[Persistent]
         /\ disk'[m_pImageName] \in Image
  <1>1. m_pImageName \in Tmp /\ m_pImageName \in Name
        /\ m_pImageName # Persistent
    BY Names DEF IInv, Downloading
  <1>2. disk[m_pImageName] \in Image
    BY DEF IInv, Downloading
  <1>3. [disk[m_pImageName] EXCEPT !.blocks = n] \in Image
    BY <1>2 DEF Image
  <1>4. disk' = [disk EXCEPT ![m_pImageName]
                               = [disk[m_pImageName] EXCEPT !.blocks = n]]
    OBVIOUS
  <1> QED
    BY <1>1, <1>3, <1>4, Names DEF IInv, TypeOK, Real

LEMMA WriteIInv == ASSUME IInv, Write PROVE IInv'
  <1>1. /\ m_pFile = "write" /\ m_pImageName = m_pTmpName /\ m_pTmpName \in Tmp
        /\ m_pImageName \in Name /\ pc = "out"
        /\ disk[m_pImageName] \in Image
    BY Names DEF Write, IInv, Downloading
  <1>2. UNCHANGED <<m_pFile, m_pTmpName, m_pImageName, pc, result, downloads,
                    previous, failed, active, persistent>>
    BY DEF Write, ghosts
  <1>3. /\ disk' \in [Name -> Image \cup {NoImage}]
        /\ disk'[Persistent] = disk[Persistent]
        /\ disk'[m_pImageName] \in Image
    <2>1. CASE disk' = disk
      BY <1>1, <2>1 DEF IInv, TypeOK
    <2>2. CASE disk' = [disk EXCEPT ![m_pImageName].blocks = @ + 1]
      <3>1. disk[m_pImageName].blocks + 1 \in 0 .. Blocks
        BY <1>1, Images, ImageAssumption DEF Write, More
      <3>2. disk' = [disk EXCEPT ![m_pImageName].blocks
                                   = disk[m_pImageName].blocks + 1]
        BY <2>2
      <3> QED
        BY <1>1, <3>1, <3>2, ResizeIInv
    <2> QED
      BY <2>1, <2>2 DEF Write
  <1>4. session' \in {"ok", "failed"} /\ faults' \in 0 .. MaxFaults
    BY FaultType DEF Write, IInv, TypeOK
  <1>5. TypeOK'
    BY <1>2, <1>3, <1>4 DEF IInv, TypeOK
  <1>6. Downloading' /\ Activating'
    BY <1>1, <1>2, <1>3 DEF Downloading, Activating
  <1>7. BootImageWhole' /\ ActiveBoots' /\ NonPersistentNotBooted'
    BY <1>2, <1>3 DEF IInv, BootImageWhole, ActiveBoots, NonPersistentNotBooted,
                      Whole
  <1> QED
    BY <1>5, <1>6, <1>7 DEF IInv

LEMMA CloseIInv == ASSUME IInv, Close PROVE IInv'
  <1>1. /\ m_pFile' = "null"
        /\ UNCHANGED <<disk, m_pTmpName, m_pImageName, pc, result, downloads,
                       faults, previous, failed, active, persistent>>
    BY DEF Close, ghosts
  <1>2. session' = IF m_pFile = "write" /\ ~Whole(disk[m_pImageName])
                   THEN "failed" ELSE session
    BY DEF Close
  <1>3. TypeOK'
    BY <1>1, <1>2 DEF IInv, TypeOK
  <1>4. Downloading' /\ Activating'
    BY <1>1, <1>2 DEF IInv, Downloading, Activating, Whole
  <1>5. BootImageWhole' /\ ActiveBoots' /\ NonPersistentNotBooted'
    BY <1>1 DEF IInv, BootImageWhole, ActiveBoots, NonPersistentNotBooted, Whole
  <1> QED
    BY <1>3, <1>4, <1>5 DEF IInv

LEMMA ActivateIInv ==
  ASSUME IInv, NEW isPersistent \in BOOLEAN, NEW isOK \in BOOLEAN,
         Activate(isPersistent, isOK)
  PROVE  IInv'
  <1>1. /\ pc = "out" /\ m_pFile = "null" /\ (isOK => session = "ok")
        /\ m_pImageName' \in Real /\ m_pImageName' \in Name
        /\ previous' = disk[m_pImageName'] /\ failed' = "null"
        /\ UNCHANGED <<m_pFile, downloads>>
    BY Names DEF Activate, Target, Real
  <1>2. previous' \in Image \cup {NoImage}
    BY <1>1 DEF IInv, TypeOK
  <1>3. CASE isOK /\ m_pTmpName # "null"
    <2>1. /\ RemoveFile(m_pImageName') /\ pc' = "rename"
          /\ active' = (IF isPersistent THEN 0 ELSE active)
          /\ persistent' = (IF isPersistent
                            THEN persistent \cup {disk[m_pTmpName].version}
                            ELSE persistent)
          /\ UNCHANGED <<m_pTmpName, session, result>>
      BY <1>3 DEF Activate, Wanted
    <2>2. /\ m_pTmpName \in Tmp /\ m_pTmpName \in Name
          /\ Whole(disk[m_pTmpName]) /\ m_pTmpName # m_pImageName'
      <3>1. m_pTmpName \in Tmp /\ Whole(disk[m_pTmpName])
        BY <1>1, <1>3 DEF IInv, Downloading
      <3> QED
        BY <1>1, <3>1, Names
    <2>3. /\ disk' \in [Name -> Image \cup {NoImage}]
          /\ faults' \in 0 .. MaxFaults
          /\ disk'[m_pTmpName] = disk[m_pTmpName]
      BY <1>1, <2>1, <2>2, RemoveFileStep DEF IInv
    <2>4. disk[m_pTmpName] \in Image
      BY <2>2, Images, ImageAssumption DEF IInv, TypeOK, Whole
    <2>5. /\ disk'[Persistent] = NoImage \/ disk'[Persistent] = disk[Persistent]
          /\ (m_pImageName' = Persistent <=> isPersistent)
          /\ (~isPersistent => disk'[Persistent] = disk[Persistent])
      <3>1. m_pImageName' = Persistent <=> isPersistent
        BY Names DEF Activate, Target
      <3>2. Persistent \in Name
        BY Names
      <3>3. /\ \A n \in Name : n # m_pImageName' => disk'[n] = disk[n]
            /\ disk'[m_pImageName'] \in {NoImage, disk[m_pImageName']}
        BY <1>1, <2>1, RemoveFileStep DEF IInv
      <3> QED
        BY <3>1, <3>2, <3>3
    <2>6. active' \in 0 .. MaxDownloads /\ persistent' \subseteq 1 .. MaxDownloads
      <3>1. disk[m_pTmpName].version \in 1 .. MaxDownloads
        BY <2>4, Images
      <3>2. 0 \in 0 .. MaxDownloads
        BY ImageAssumption
      <3> QED
        BY <2>1, <3>1, <3>2 DEF IInv, TypeOK
    <2>7. TypeOK'
      BY <1>1, <1>2, <2>1, <2>3, <2>6 DEF IInv, TypeOK
    <2>8. Downloading' /\ Activating'
      BY <1>1, <2>1, <2>2, <2>3, <2>5 DEF Downloading, Activating, Whole
    <2>9. BootImageWhole' /\ ActiveBoots' /\ NonPersistentNotBooted'
      BY <2>1, <2>5 DEF IInv, BootImageWhole, ActiveBoots,
                        NonPersistentNotBooted, Whole
    <2> QED
      BY <2>7, <2>8, <2>9 DEF IInv
  <1>4. CASE ~(isOK /\ m_pTmpName # "null")
    <2>1. /\ result' = ~isOK /\ m_pTmpName' = "null" /\ pc' = "out"
          /\ session' = "none" /\ UNCHANGED <<disk, faults, active, persistent>>
      BY <1>4 DEF Activate, Wanted, Done
    <2>2. TypeOK'
      BY <1>1, <1>2, <2>1 DEF IInv, TypeOK
    <2>3. Downloading' /\ Activating'
      BY <1>1, <2>1 DEF Downloading, Activating
    <2>4. BootImageWhole' /\ ActiveBoots' /\ NonPersistentNotBooted'
      BY <2>1 DEF IInv, BootImageWhole, ActiveBoots, NonPersistentNotBooted,
                  Whole
    <2> QED
      BY <2>2, <2>3, <2>4 DEF IInv
  <1> QED
    BY <1>3, <1>4

LEMMA RenameIInv == ASSUME IInv, Rename PROVE IInv'
  <1>1. /\ pc = "rename" /\ pc' = "cleanup" /\ m_pFile # "write"
        /\ m_pTmpName \in Tmp /\ m_pTmpName \in Name
        /\ m_pImageName \in Real /\ m_pImageName \in Name
        /\ m_pTmpName # m_pImageName /\ m_pTmpName # Persistent
        /\ Whole(disk[m_pTmpName])
    BY Names DEF Rename, IInv, Activating
  <1>2. UNCHANGED <<m_pFile, m_pTmpName, m_pImageName, session, downloads,
                    previous, failed, active, persistent>>
    BY DEF Rename, ghosts
  <1>3. result' \in BOOLEAN /\ faults' \in 0 .. MaxFaults
    BY FaultType DEF Rename, IInv, TypeOK
  <1>4. disk' \in [Name -> Image \cup {NoImage}]
    BY <1>1 DEF Rename, IInv, TypeOK
  <1>5. TypeOK'
    BY <1>1, <1>2, <1>3, <1>4 DEF IInv, TypeOK
  <1>6. \/ disk'[Persistent] = disk[Persistent]
        \/ m_pImageName = Persistent /\ disk'[Persistent] = disk[m_pTmpName]
    BY <1>1, Names DEF Rename, IInv, TypeOK
  <1>7. Downloading' /\ Activating'
    BY <1>1, <1>2 DEF IInv, Downloading, Activating
  <1>8. BootImageWhole' /\ ActiveBoots' /\ NonPersistentNotBooted'
    BY <1>1, <1>2, <1>6 DEF IInv, Activating, BootImageWhole, ActiveBoots,
                            NonPersistentNotBooted, Whole
  <1> QED
    BY <1>5, <1>7, <1>8 DEF IInv

LEMMA CleanUpIInv == ASSUME IInv, CleanUp PROVE IInv'
  <1>1. /\ pc = "cleanup" /\ m_pFile # "write"
        /\ m_pTmpName \in Name /\ m_pTmpName # Persistent
        /\ m_pImageName \in Name /\ m_pImageName \in Real
    BY Names DEF CleanUp, IInv, Activating
  <1>2. /\ RemoveFile(m_pTmpName)
        /\ active' = (IF result /\ m_pImageName = Persistent
                      THEN disk[Persistent].version ELSE active)
        /\ failed' = (IF result THEN "null" ELSE m_pImageName)
        /\ m_pTmpName' = "null" /\ pc' = "out" /\ session' = "none"
        /\ UNCHANGED <<m_pFile, m_pImageName, result, downloads, previous,
                       persistent>>
    BY DEF CleanUp, Leftover, Done
  <1>3. /\ disk' \in [Name -> Image \cup {NoImage}]
        /\ disk'[Persistent] = disk[Persistent]
        /\ faults' \in 0 .. MaxFaults
    BY <1>1, <1>2, Names, RemoveFileStep DEF IInv
  <1>4. active' \in 0 .. MaxDownloads
    <2>1. disk[Persistent] \in Image \cup {NoImage}
      BY Names DEF IInv, TypeOK
    <2>2. disk[Persistent].version \in 0 .. MaxDownloads
      BY <2>1, Images, ImageAssumption
    <2> QED
      BY <1>2, <2>2 DEF IInv, TypeOK
  <1>5. failed' \in Name \cup {"null"}
    BY <1>1, <1>2
  <1>6. TypeOK'
    BY <1>2, <1>3, <1>4, <1>5 DEF IInv, TypeOK
  <1>7. Downloading' /\ Activating'
    BY <1>1, <1>2 DEF Downloading, Activating
  <1>8. ActiveBoots'
    BY <1>2, <1>3 DEF IInv, ActiveBoots
  <1>9. BootImageWhole' /\ NonPersistentNotBooted'
    BY <1>2, <1>3 DEF IInv, BootImageWhole, NonPersistentNotBooted, Whole
  <1> QED
    BY <1>6, <1>7, <1>8, <1>9 DEF IInv

LEMMA RemoveIInv == ASSUME IInv, Remove PROVE IInv'
  <1>1. /\ pc = "out" /\ m_pFile # "write" /\ RemoveFile(Persistent)
        /\ active' = (IF disk'[Persistent] = NoImage THEN 0 ELSE active)
        /\ failed' = "null"
        /\ UNCHANGED <<m_pFile, m_pTmpName, m_pImageName, pc, result, session,
                       downloads, previous, persistent>>
    BY DEF Remove
  <1>2. /\ disk' \in [Name -> Image \cup {NoImage}]
        /\ faults' \in 0 .. MaxFaults
        /\ disk'[Persistent] \in {NoImage, disk[Persistent]}
        /\ \A t \in Tmp : disk'[t] = disk[t]
    BY <1>1, Names, RemoveFileStep DEF IInv
  <1>3. TypeOK'
    BY <1>1, <1>2, ImageAssumption DEF IInv, TypeOK
  <1>4. Downloading' /\ Activating'
    BY <1>1, <1>2 DEF IInv, Downloading, Activating, Whole
  <1>5. BootImageWhole' /\ ActiveBoots' /\ NonPersistentNotBooted'
    BY <1>1, <1>2 DEF IInv, BootImageWhole, ActiveBoots,
                      NonPersistentNotBooted, Whole
  <1> QED
    BY <1>3, <1>4, <1>5 DEF IInv

LEMMA KillIInv == ASSUME IInv, Kill PROVE IInv'
  <1>1. /\ m_pFile' = "null" /\ m_pTmpName' = "null" /\ m_pImageName' = "null"
        /\ pc' = "out" /\ result' = TRUE /\ session' = "none"
        /\ previous' = NoImage /\ failed' = "null"
        /\ UNCHANGED <<downloads, active, persistent>>
    BY DEF Kill
  <1>2. faults' \in 0 .. MaxFaults
    BY FaultType DEF Kill, IInv
  <1>3. /\ disk' \in [Name -> Image \cup {NoImage}]
        /\ disk'[Persistent] = disk[Persistent]
    <2>1. CASE m_pFile = "write"
      <3>1. PICK n \in 0 .. disk[m_pImageName].blocks :
              disk' = [disk EXCEPT ![m_pImageName].blocks = n]
        BY <2>1 DEF Kill
      <3>2. disk[m_pImageName].blocks \in 0 .. Blocks
        BY <2>1, Images DEF IInv, Downloading
      <3>3. n \in 0 .. Blocks
        BY <3>2, ImageAssumption
      <3> QED
        BY <2>1, <3>1, <3>3, ResizeIInv
    <2>2. CASE m_pFile # "write"
      BY <2>2 DEF Kill, IInv, TypeOK
    <2> QED
      BY <2>1, <2>2
  <1>4. TypeOK'
    BY <1>1, <1>2, <1>3 DEF IInv, TypeOK
  <1>5. Downloading' /\ Activating'
    BY <1>1 DEF Downloading, Activating
  <1>6. BootImageWhole' /\ ActiveBoots' /\ NonPersistentNotBooted'
    BY <1>1, <1>3 DEF IInv, BootImageWhole, ActiveBoots, NonPersistentNotBooted,
                      Whole
  <1> QED
    BY <1>4, <1>5, <1>6 DEF IInv

LEMMA NextIInv == IInv /\ [Next]_vars => IInv'
  <1> SUFFICES ASSUME IInv, [Next]_vars PROVE IInv'
    OBVIOUS
  <1>1. CASE UNCHANGED vars
    BY <1>1 DEF vars, IInv, TypeOK, Downloading, Activating, BootImageWhole,
                ActiveBoots, NonPersistentNotBooted, Whole
  <1> QED
    BY <1>1, OpenCreateIInv, OpenReadIInv, WriteIInv, CloseIInv, ActivateIInv,
       RenameIInv, CleanUpIInv, RemoveIInv, KillIInv DEF Next

LEMMA AlwaysIInv == Spec => []IInv
  BY InitIInv, NextIInv, PTL DEF Spec

(* Every variable keeps its type. *)
THEOREM TypeCorrect == Spec => []TypeOK
  <1>1. IInv => TypeOK
    BY DEF IInv
  <1> QED
    BY AlwaysIInv, <1>1, PTL

(* The boot image is never a part of an image, whatever fails and whenever *)
(* the process is killed.                                                  *)
THEOREM BootsWhole == Spec => []BootImageWhole
  <1>1. IInv => BootImageWhole
    BY DEF IInv
  <1> QED
    BY AlwaysIInv, <1>1, PTL

(* The boot image is the last one that Activate made persistent.           *)
THEOREM BootsActive == Spec => []ActiveBoots
  <1>1. IInv => ActiveBoots
    BY DEF IInv
  <1> QED
    BY AlwaysIInv, <1>1, PTL

(* No image that was activated as non-persistent is ever the boot image.   *)
THEOREM BootsPersistent == Spec => []NonPersistentNotBooted
  <1>1. IInv => NonPersistentNotBooted
    BY DEF IInv
  <1> QED
    BY AlwaysIInv, <1>1, PTL

-----------------------------------------------------------------------------
(* The files implement BootImage.  A download that may still be activated  *)
(* is newer than anything made persistent so far; one that is being        *)
(* renamed to the boot name is the newest.                                 *)
Fresh ==
  /\ \A v \in persistent : v <= downloads
  /\ session = "ok" /\ pc = "out" =>
       disk[m_pTmpName].version = downloads /\ downloads \notin persistent
  /\ pc = "rename" /\ m_pImageName = Persistent =>
       disk[m_pTmpName].version = downloads

Offering == pc = "rename" /\ m_pImageName = Persistent

Same == /\ disk'[Persistent].version = disk[Persistent].version
        /\ persistent' = persistent
        /\ Offering' = Offering

FreshStep == Fresh' /\ (Boot!Next \/ Same)

LEMMA InitFresh == Init => Fresh /\ Boot!Init
  <1> SUFFICES ASSUME Init PROVE Fresh /\ Boot!Init
    OBVIOUS
  <1>1. disk[Persistent] = NoImage
    BY Names DEF Init, Real
  <1> QED
    BY <1>1, Images DEF Init, Fresh, Boot!Init

LEMMA OpenCreateFresh == ASSUME IInv, Fresh, OpenCreate PROVE FreshStep
  <1>1. PICK tmp \in Tmp :
          /\ m_pTmpName' = tmp /\ m_pImageName' = tmp
          /\ \/ /\ disk' = [disk EXCEPT ![tmp] = [version |-> downloads',
                                                  blocks |-> 0]]
                /\ m_pFile' = "write" /\ session' = "ok" /\ UNCHANGED faults
             \/ Fault /\ session' = "failed" /\ UNCHANGED <<disk, m_pFile>>
    BY DEF OpenCreate, Tmp
  <1>2. /\ pc = "out" /\ pc' = "out" /\ persistent' = persistent
        /\ downloads' = downloads + 1 /\ downloads \in Nat
        /\ disk \in [Name -> Image \cup {NoImage}]
        /\ persistent \subseteq 1 .. MaxDownloads
    BY ImageAssumption DEF OpenCreate, ghosts, IInv, TypeOK
  <1>3. \A v \in persistent : v \in Nat /\ v <= downloads
    BY <1>2, ImageAssumption DEF Fresh
  <1>4. /\ \A v \in persistent' : v <= downloads'
        /\ downloads' \notin persistent'
    BY <1>2, <1>3
  <1>5. disk'[Persistent] = disk[Persistent]
    BY <1>1, <1>2, Names
  <1>6. session' = "ok" => disk'[tmp].version = downloads'
    BY <1>1, <1>2, Names
  <1> QED
    BY <1>1, <1>2, <1>4, <1>5, <1>6 DEF FreshStep, Fresh, Same, Offering

LEMMA WriteFresh == ASSUME IInv, Fresh, Write PROVE FreshStep
  <1>1. /\ m_pImageName = m_pTmpName /\ m_pTmpName \in Tmp
        /\ m_pImageName \in Name /\ m_pImageName # Persistent
        /\ pc = "out" /\ disk[m_pImageName] \in Image
        /\ disk \in [Name -> Image \cup {NoImage}]
    BY Names DEF Write, IInv, TypeOK, Downloading
  <1>2. UNCHANGED <<m_pTmpName, m_pImageName, pc, downloads, persistent>>
    BY DEF Write, ghosts
  <1>3. /\ session = "ok" /\ (session' = "ok" \/ session' = "failed")
        /\ \/ disk' = disk
           \/ disk' = [disk EXCEPT ![m_pImageName].blocks = @ + 1]
    BY DEF Write
  <1>4. /\ disk'[Persistent] = disk[Persistent]
        /\ disk'[m_pTmpName].version = disk[m_pTmpName].version
    <2>1. CASE disk' = disk
      BY <1>1, <2>1
    <2>2. CASE disk' = [disk EXCEPT ![m_pImageName].blocks = @ + 1]
      <3>1. disk'[m_pImageName]
              = [disk[m_pImageName] EXCEPT !.blocks = @ + 1]
        BY <1>1, <2>2
      <3>2. disk'[m_pImageName].version = disk[m_pImageName].version
        BY <1>1, <3>1 DEF Image
      <3>3. disk'[Persistent] = disk[Persistent]
        BY <1>1, <2>2, Names
      <3> QED
        BY <1>1, <3>2, <3>3
    <2> QED
      BY <1>3, <2>1, <2>2
  <1> QED
    BY <1>1, <1>2, <1>3, <1>4 DEF FreshStep, Fresh, Same, Offering

LEMMA ReadingFresh == ASSUME IInv, Fresh, OpenRead \/ Close PROVE FreshStep
  <1>1. UNCHANGED <<disk, m_pTmpName, pc, downloads, persistent>>
    BY DEF OpenRead, Close, ghosts
  <1>2. session' = "ok" => session = "ok"
    BY DEF OpenRead, Close
  <1>3. pc = "out" \/ UNCHANGED m_pImageName
    BY DEF OpenRead, Close
  <1> QED
    BY <1>1, <1>2, <1>3 DEF FreshStep, Fresh, Same, Offering

LEMMA ActivateFresh ==
  ASSUME IInv, Fresh, NEW isPersistent \in BOOLEAN, NEW isOK \in BOOLEAN,
         Activate(isPersistent, isOK)
  PROVE  FreshStep
  <1>1. /\ pc = "out" /\ m_pFile = "null" /\ (isOK => session = "ok")
        /\ m_pImageName' \in Real /\ m_pImageName' \in Name
        /\ (m_pImageName' = Persistent <=> isPersistent)
        /\ downloads' = downloads
        /\ disk \in [Name -> Image \cup {NoImage}]
    BY Names DEF Activate, Target, Real, IInv, TypeOK
  <1>2. CASE isOK /\ m_pTmpName # "null"
    <2>1. /\ RemoveFile(m_pImageName') /\ pc' = "rename"
          /\ persistent' = (IF isPersistent
                            THEN persistent \cup {disk[m_pTmpName].version}
                            ELSE persistent)
          /\ m_pTmpName' = m_pTmpName
      BY <1>2 DEF Activate, Wanted
    <2>2. m_pTmpName \in Name /\ m_pTmpName # m_pImageName'
          /\ Whole(disk[m_pTmpName])
      BY <1>1, <1>2, Names DEF IInv, Downloading
    <2>3. /\ disk'[m_pTmpName] = disk[m_pTmpName]
          /\ disk[m_pTmpName].version = downloads
          /\ downloads \notin persistent
      BY <1>1, <1>2, <2>1, <2>2, RemoveFileStep DEF IInv, Fresh
    <2>4. downloads \in 1 .. MaxDownloads
      <3>1. disk[m_pTmpName] \in Image
        BY <1>1, <2>2, Images, ImageAssumption DEF Whole
      <3> QED
        BY <2>3, <3>1, Images
    <2>5. \A v \in persistent : v < downloads
      <3>1. \A v \in persistent : v \in Nat /\ v <= downloads /\ v # downloads
        <4>1. persistent \subseteq 1 .. MaxDownloads
          BY DEF IInv, TypeOK
        <4>2. \A v \in 1 .. MaxDownloads : v \in Nat
          OBVIOUS
        <4>3. \A v \in persistent : v <= downloads
          BY DEF IInv, Fresh
        <4> QED
          BY <2>3, <4>1, <4>2, <4>3
      <3>2. downloads \in Nat
        BY <2>4
      <3>3. \A v, d \in Nat : v <= d /\ v # d => v < d
        OBVIOUS
      <3> QED
        BY <3>1, <3>2, <3>3, Zenon
    <2>6. CASE isPersistent
      <3>1. /\ disk'[Persistent].version \in {0, disk[Persistent].version}
            /\ persistent' = persistent \cup {downloads}
        BY <1>1, <2>1, <2>3, <2>6, Images, RemoveFileStep DEF IInv
      <3>2. Boot!Offer
        BY <1>1, <2>1, <2>4, <2>5, <2>6, <3>1 DEF Boot!Offer
      <3>3. Fresh'
        BY <1>1, <2>1, <2>3, <2>4, <2>5, <3>1 DEF Fresh
      <3> QED
        BY <3>2, <3>3 DEF FreshStep, Boot!Next
    <2>7. CASE ~isPersistent
      <3>1. disk'[Persistent] = disk[Persistent] /\ m_pImageName' # Persistent
        BY <1>1, <2>1, <2>7, Names, RemoveFileStep DEF IInv
      <3> QED
        BY <1>1, <2>1, <2>7, <3>1 DEF FreshStep, Fresh, Same, Offering
    <2> QED
      BY <2>6, <2>7
  <1>3. CASE ~(isOK /\ m_pTmpName # "null")
    <2>1. /\ pc' = "out" /\ session' = "none" /\ UNCHANGED <<disk, persistent>>
      BY <1>3 DEF Activate, Wanted, Done
    <2> QED
      BY <1>1, <2>1 DEF FreshStep, Fresh, Same, Offering
  <1> QED
    BY <1>2, <1>3

LEMMA RenameFresh == ASSUME IInv, Fresh, Rename PROVE FreshStep
  <1>1. /\ pc = "rename" /\ pc' = "cleanup"
        /\ m_pTmpName \in Name /\ m_pImageName \in Name
        /\ m_pTmpName # m_pImageName /\ m_pTmpName # Persistent
        /\ UNCHANGED <<m_pImageName, downloads, persistent>>
        /\ disk \in [Name -> Image \cup {NoImage}]
    BY Names DEF Rename, ghosts, IInv, Activating, TypeOK
  <1>2. Fresh'
    BY <1>1 DEF Fresh
  <1>3. CASE m_pImageName # Persistent
    <2>1. disk'[Persistent] = disk[Persistent]
      BY <1>1, <1>3, Names DEF Rename
    <2> QED
      BY <1>1, <1>2, <1>3, <2>1 DEF FreshStep, Same, Offering
  <1>4. CASE m_pImageName = Persistent /\ disk' = disk
    BY <1>1, <1>2, <1>4 DEF FreshStep, Boot!Next, Boot!Abandon
  <1>5. CASE m_pImageName = Persistent /\ disk' # disk
    <2>1. disk'[Persistent] = disk[m_pTmpName]
      BY <1>1, <1>5 DEF Rename
    <2>2. /\ disk[m_pTmpName].version \in persistent
          /\ disk[m_pTmpName].version = downloads
          /\ \A v \in persistent : v <= downloads
      BY <1>1, <1>5 DEF IInv, Activating, Fresh
    <2>3. Boot!Install
      BY <1>1, <1>5, <2>1, <2>2 DEF Boot!Install
    <2> QED
      BY <1>2, <2>3 DEF FreshStep, Boot!Next
  <1> QED
    BY <1>3, <1>4, <1>5

LEMMA CleanUpFresh == ASSUME IInv, Fresh, CleanUp PROVE FreshStep
  <1>1. /\ pc = "cleanup" /\ pc' = "out" /\ session' = "none"
        /\ m_pTmpName \in Name /\ m_pTmpName # Persistent
        /\ RemoveFile(m_pTmpName)
        /\ UNCHANGED <<downloads, persistent>>
    BY Names DEF CleanUp, Leftover, Done, IInv, Activating
  <1>2. disk'[Persistent] = disk[Persistent]
    BY <1>1, Names, RemoveFileStep DEF IInv
  <1> QED
    BY <1>1, <1>2 DEF FreshStep, Fresh, Same, Offering

LEMMA RemoveFresh == ASSUME IInv, Fresh, Remove PROVE FreshStep
  <1>1. /\ pc = "out" /\ m_pFile # "write"
        /\ RemoveFile(Persistent)
        /\ UNCHANGED <<m_pTmpName, m_pImageName, pc, session, downloads,
                       persistent>>
    BY DEF Remove
  <1>2. /\ disk'[Persistent].version \in {0, disk[Persistent].version}
        /\ \A t \in Tmp : disk'[t] = disk[t]
    BY <1>1, Names, Images, RemoveFileStep DEF IInv
  <1>3. session = "ok" => m_pTmpName \in Tmp
    BY <1>1 DEF IInv, Downloading
  <1>4. Fresh'
    BY <1>1, <1>2, <1>3 DEF Fresh
  <1>5. Boot!Withdraw \/ Same
    BY <1>1, <1>2 DEF Boot!Withdraw, Same, Offering
  <1> QED
    BY <1>4, <1>5 DEF FreshStep, Boot!Next

LEMMA KillFresh == ASSUME IInv, Fresh, Kill PROVE FreshStep
  <1>1. /\ pc' = "out" /\ session' = "none" /\ m_pImageName' = "null"
        /\ UNCHANGED <<downloads, persistent>>
    BY DEF Kill
  <1>2. disk'[Persistent] = disk[Persistent]
    <2>1. CASE m_pFile = "write"
      <3>1. PICK n : disk' = [disk EXCEPT ![m_pImageName].blocks = n]
        BY <2>1 DEF Kill
      <3>2. m_pImageName # Persistent
        BY <2>1, Names DEF IInv, Downloading
      <3> QED
        BY <3>1, <3>2, Names DEF IInv, TypeOK
    <2>2. CASE m_pFile # "write"
      BY <2>2 DEF Kill
    <2> QED
      BY <2>1, <2>2
  <1>3. Fresh'
    BY <1>1 DEF Fresh
  <1>4. Boot!Abandon \/ Same
    BY <1>1, <1>2, Names DEF Boot!Abandon, Same, Offering
  <1> QED
    BY <1>3, <1>4 DEF FreshStep, Boot!Next

LEMMA NextFresh == IInv /\ Fresh /\ [Next]_vars => FreshStep
  <1> SUFFICES ASSUME IInv, Fresh, [Next]_vars PROVE FreshStep
    OBVIOUS
  <1>1. CASE UNCHANGED vars
    BY <1>1 DEF vars, FreshStep, Fresh, Same, Offering
  <1> QED
    BY <1>1, OpenCreateFresh, WriteFresh, ReadingFresh, ActivateFresh,
       RenameFresh, CleanUpFresh, RemoveFresh, KillFresh DEF Next

(* Images of any size, in any number, downloaded, activated, removed and   *)
(* killed in any order, become the boot image in the order of their        *)
(* downloads, and none comes back.                                         *)
THEOREM FilesImplementBootImage == Spec => ImplementsBoot
  <1>1. Init => Fresh /\ Boot!Init
    BY InitFresh
  <1>2. IInv /\ Fresh /\ [Next]_vars => Fresh'
    BY NextFresh DEF FreshStep
  <1>3. IInv /\ Fresh /\ [Next]_vars
          => [Boot!Next]_<<disk[Persistent].version, persistent,
                           pc = "rename" /\ m_pImageName = Persistent>>
    BY NextFresh DEF FreshStep, Same, Offering
  <1> QED
    BY <1>1, <1>2, <1>3, AlwaysIInv, PTL DEF Spec, ImplementsBoot, Boot!Spec

=============================================================================
