-------------------------- MODULE ImageCacheProofs --------------------------
(***************************************************************************)
(* Proofs about ImageCache for every number of callers and of versions.    *)
(***************************************************************************)
EXTENDS ImageCache, TLAPS

(* IndInv holds of an empty cache. *)
LEMMA InitInd == Init => IndInv
BY ImageCacheAssumption DEF Init, IndInv, TypeOK, Labels, LockDiscipline,
  DirectoryUnderLock, UnverifiedLabels

(* Every action keeps IndInv. *)
LEMMA StepInd ==
  ASSUME IndInv, Next
  PROVE  IndInv'
<1> USE ImageCacheAssumption DEF IndInv, TypeOK, LockDiscipline, Labels,
  DirectoryUnderLock, UnverifiedLabels, Contents, At, Goto, Leave, callers,
  cache, mirror
<1>1. ASSUME NEW h \in Hp, Call(h) PROVE IndInv'
  BY <1>1 DEF Call
<1>2. ASSUME NEW h \in Hp, Lock(h) PROVE IndInv'
  BY <1>2 DEF Lock
<1>3. ASSUME NEW h \in Hp, Lookup(h) PROVE IndInv'
  BY <1>3 DEF Lookup
<1>4. ASSUME NEW h \in Hp, FetchSums(h) PROVE IndInv'
  BY <1>4 DEF FetchSums
<1>5. ASSUME NEW h \in Hp, CheckFile(h) PROVE IndInv'
  BY <1>5 DEF CheckFile
<1>6. ASSUME NEW h \in Hp, Download(h) PROVE IndInv'
  BY <1>6 DEF Download
<1>7. ASSUME NEW h \in Hp, Rename(h) PROVE IndInv'
  BY <1>7 DEF Rename
<1>8. ASSUME NEW h \in Hp, Verify(h) PROVE IndInv'
  BY <1>8 DEF Verify
<1>9. ASSUME NEW h \in Hp, Record(h) PROVE IndInv'
  BY <1>9 DEF Record
<1>10. ASSUME NEW h \in Hp, Return(h) PROVE IndInv'
  BY <1>10 DEF Return
<1>11. ASSUME NEW h \in Hp, UseImage(h) PROVE IndInv'
  BY <1>11 DEF UseImage
<1>12. ASSUME NEW h \in Hp, Fails(h) PROVE IndInv'
  BY <1>12 DEF Fails
<1>13. ASSUME NEW h \in Hp, Crash(h) PROVE IndInv'
  BY <1>13 DEF Crash
<1>14. CASE PublishImage
  BY <1>14 DEF PublishImage
<1>15. CASE PublishSums
  BY <1>15 DEF PublishSums
<1> QED BY <1>1, <1>2, <1>3, <1>4, <1>5, <1>6, <1>7, <1>8, <1>9, <1>10,
  <1>11, <1>12, <1>13, <1>14, <1>15 DEF Next, CallStep

(* So does a stuttering step. *)
LEMMA StutterInd == IndInv /\ UNCHANGED vars => IndInv'
BY DEF IndInv, TypeOK, LockDiscipline, DirectoryUnderLock, vars, callers, cache,
  mirror

(* The directory is always what the lock holder's label says. *)
THEOREM IndInvariant == Spec => []IndInv
<1>1. IndInv /\ [Next]_vars => IndInv'
  BY StepInd, StutterInd
<1> QED BY InitInd, <1>1, PTL DEF Spec

(* An image that has metadata is the image that was verified. *)
THEOREM CachedIsVerifiedHolds == Spec => []CachedIsVerified
<1>1. IndInv => CachedIsVerified
  BY DEF IndInv, CachedIsVerified
<1> QED BY <1>1, IndInvariant, PTL

(* Every VM's config records the digest of the file its disk stands on. *)
THEOREM BackingMatchesConfigsHolds ==
  Spec => []BackingMatchesConfigs
<1>1. IndInv => BackingMatchesConfigs
  BY DEF IndInv, BackingMatchesConfigs
<1> QED BY <1>1, IndInvariant, PTL

(* Nobody replaces an image file. *)
THEOREM ImageNeverReplacedHolds ==
  Spec => ImageNeverReplaced
<1>1. ASSUME IndInv, Next, image # None PROVE image' = image
  <2>1. ASSUME NEW h \in Hp, Rename(h) PROVE FALSE
    BY <1>1, <2>1 DEF IndInv, DirectoryUnderLock, Rename, At
  <2> QED
    BY <1>1, <2>1 DEF Next, CallStep, Call, Lock, Lookup, FetchSums, CheckFile,
      Download, Verify, Record, Return, UseImage, Fails, Crash, PublishImage,
      PublishSums, cache
<1>2. IndInv /\ [Next]_vars => [image # None => image' = image]_vars
  BY <1>1
<1> QED BY <1>2, IndInvariant, PTL DEF Spec, ImageNeverReplaced

(* Only a call that found no metadata downloads. *)
THEOREM DownloadOnceHolds == Spec => DownloadOnce
<1>1. IndInv => \A h \in Hp : At(h, "download") => meta = None
  BY DEF IndInv, DirectoryUnderLock, UnverifiedLabels, At
<1>2. IndInv /\ [Next]_vars =>
        [\A h \in Hp : At(h, "download") /\ pc'[h] = "rename" => meta = None]_vars
  BY <1>1
<1> QED BY <1>2, IndInvariant, PTL DEF Spec, DownloadOnce
=============================================================================
