----------------------------- MODULE ImageCache -----------------------------
(***************************************************************************)
(* The cache directory of one cloud image (one release and architecture)   *)
(* and concurrent `hp create` and `hp image prefetch` calls that run       *)
(* ensure_image_with_base_url on it, against a mirror that republishes the *)
(* image and its SHA256SUMS one after the other.                           *)
(*                                                                         *)
(* A file's content is a member of Versions, or Corrupt; SHA-256 tells     *)
(* contents apart, so a digest is the content it is the digest of.  The    *)
(* URLs of one release and architecture never change, so a metadata file   *)
(* is just the digest it records.                                          *)
(***************************************************************************)
EXTENDS Naturals

CONSTANTS
  Hp,          \* concurrent callers
  Versions,    \* what the mirror publishes over time
  Corrupt,     \* a download that is not what the mirror published
  None,        \* an absent file, an unset local
  MaxCorrupt,  \* bound on corrupted downloads
  MaxCrashes   \* bound on crashes of a caller

ASSUME ImageCacheAssumption ==
  /\ MaxCorrupt \in Nat /\ MaxCrashes \in Nat
  /\ None \notin Hp \cup Versions \cup {Corrupt}
  /\ Corrupt \notin Versions

VARIABLES
  lock,      \* the holder of the flock on the image directory's .lock
  pc,        \* where each caller is
  expected,  \* the digest each caller found in SHA256SUMS
  result,    \* the digest in the CachedImage each caller returns
  image,     \* local_path, the image file
  tmp,       \* its .download file
  meta,      \* image.json
  pub,       \* the image the mirror serves
  sums,      \* the entry for it in the mirror's SHA256SUMS
  backing,   \* digests recorded by the VMs created on the cached image
  corrupted, \* corrupted downloads so far
  crashes    \* crashes so far

callers == <<lock, pc, expected, result>>
cache   == <<image, tmp, meta>>
mirror  == <<pub, sums>>
vars    == <<callers, cache, mirror, backing, corrupted, crashes>>

Labels == {"idle", "lock", "lookup", "sums", "check", "download", "rename",
           "verify", "record", "ok", "use"}
Contents == Versions \cup {Corrupt}

(* Every variable has its type; in particular only a version that was        *)
(* published is ever expected or recorded in image.json.                     *)
TypeOK ==
  /\ lock \in Hp \cup {None}
  /\ pc \in [Hp -> Labels]
  /\ expected \in [Hp -> Versions \cup {None}]
  /\ result \in [Hp -> Versions \cup {None}]
  /\ image \in Contents \cup {None}
  /\ tmp \in Contents \cup {None}
  /\ meta \in Versions \cup {None}
  /\ pub \in Versions /\ sums \in Versions
  /\ backing \subseteq Versions
  /\ corrupted \in 0..MaxCorrupt
  /\ crashes \in 0..MaxCrashes

Init ==
  /\ lock = None
  /\ pc = [h \in Hp |-> "idle"]
  /\ expected = [h \in Hp |-> None]
  /\ result = [h \in Hp |-> None]
  /\ image = None /\ tmp = None /\ meta = None
  /\ pub \in Versions /\ sums = pub
  /\ backing = {}
  /\ corrupted = 0 /\ crashes = 0

-----------------------------------------------------------------------------
At(h, l)   == pc[h] = l
Goto(h, l) == pc' = [pc EXCEPT ![h] = l]

(* The call returns or fails: the lock is dropped, the locals are gone. *)
Leave(h) ==
  /\ lock' = IF lock = h THEN None ELSE lock
  /\ Goto(h, "idle")
  /\ expected' = [expected EXCEPT ![h] = None]
  /\ result' = [result EXCEPT ![h] = None]

Call(h) ==
  /\ At(h, "idle")
  /\ Goto(h, "lock")
  /\ UNCHANGED <<lock, expected, result, cache, mirror, backing, corrupted,
                 crashes>>

(* Mutant: lock_file does not wait. *)
LockTaken(h) ==
  /\ At(h, "lock")
  /\ lock' = h
  /\ Goto(h, "lookup")
  /\ UNCHANGED <<expected, result, cache, mirror, backing, corrupted, crashes>>

Lock(h) ==
  /\ At(h, "lock")
  /\ lock = None
  /\ lock' = h
  /\ Goto(h, "lookup")
  /\ UNCHANGED <<expected, result, cache, mirror, backing, corrupted, crashes>>

(* Metadata and an image file, of any content, are a hit. *)
Lookup(h) ==
  /\ At(h, "lookup")
  /\ IF meta # None /\ image # None
       THEN result' = [result EXCEPT ![h] = meta] /\ Goto(h, "ok")
       ELSE Goto(h, "sums") /\ UNCHANGED result
  /\ UNCHANGED <<lock, expected, cache, mirror, backing, corrupted, crashes>>

(* GET SHA256SUMS and parse_sha256s. *)
FetchSums(h) ==
  /\ At(h, "sums")
  /\ expected' = [expected EXCEPT ![h] = sums]
  /\ Goto(h, "check")
  /\ UNCHANGED <<lock, result, cache, mirror, backing, corrupted, crashes>>

(* Mutant: downloads whether or not there is a file. *)
AlwaysDownload(h) ==
  /\ At(h, "check")
  /\ Goto(h, "download")
  /\ UNCHANGED <<lock, expected, result, cache, mirror, backing, corrupted,
                 crashes>>

(* Downloads only when there is no image file. *)
CheckFile(h) ==
  /\ At(h, "check")
  /\ Goto(h, IF image = None THEN "download" ELSE "verify")
  /\ UNCHANGED <<lock, expected, result, cache, mirror, backing, corrupted,
                 crashes>>

(* download_image writes the .download file, then renames it. *)
Download(h) ==
  /\ At(h, "download")
  /\ \/ tmp' = pub /\ UNCHANGED corrupted
     \/ corrupted < MaxCorrupt /\ tmp' = Corrupt /\ corrupted' = corrupted + 1
  /\ Goto(h, "rename")
  /\ UNCHANGED <<lock, expected, result, image, meta, mirror, backing, crashes>>

Rename(h) ==
  /\ At(h, "rename")
  /\ image' = tmp
  /\ tmp' = None
  /\ Goto(h, "verify")
  /\ UNCHANGED <<lock, expected, result, meta, mirror, backing, corrupted,
                 crashes>>

(* Mutant: the digest is computed and not compared. *)
VerifyAny(h) ==
  /\ At(h, "verify")
  /\ Goto(h, "record")
  /\ UNCHANGED <<lock, expected, result, cache, mirror, backing, corrupted,
                 crashes>>

(* Mutant: after a mismatch it starts again, keeping the file. *)
VerifyAgain(h) ==
  /\ At(h, "verify")
  /\ Goto(h, IF image = expected[h] THEN "record" ELSE "sums")
  /\ UNCHANGED <<lock, expected, result, cache, mirror, backing, corrupted,
                 crashes>>

(* sha256_file against the expected digest; a mismatch leaves the file. *)
Verify(h) ==
  /\ At(h, "verify")
  /\ IF image = expected[h]
       THEN Goto(h, "record") /\ UNCHANGED <<lock, expected, result>>
       ELSE Leave(h)
  /\ UNCHANGED <<cache, mirror, backing, corrupted, crashes>>

(* atomic_write of image.json. *)
Record(h) ==
  /\ At(h, "record")
  /\ meta' = expected[h]
  /\ result' = [result EXCEPT ![h] = expected[h]]
  /\ Goto(h, "ok")
  /\ UNCHANGED <<lock, expected, image, tmp, mirror, backing, corrupted, crashes>>

(* The CachedImage is returned and the lock dropped: `prefetch` is done, but *)
(* `create` goes on to use the image without the lock.                       *)
Return(h) ==
  /\ At(h, "ok")
  /\ \/ Leave(h)
     \/ lock' = None /\ Goto(h, "use") /\ UNCHANGED <<expected, result>>
  /\ UNCHANGED <<cache, mirror, backing, corrupted, crashes>>

(* create_instance makes the VM's disk an overlay of the image file, and     *)
(* records the digest in its config.                                         *)
UseImage(h) ==
  /\ At(h, "use")
  /\ backing' = backing \cup {result[h]}
  /\ Leave(h)
  /\ UNCHANGED <<cache, mirror, corrupted, crashes>>

(* Any read, request or write may fail; a download may be left half done.    *)
Fails(h) ==
  /\ pc[h] \in Labels \ {"idle", "lock", "ok"}
  /\ tmp' \in {tmp} \cup IF At(h, "download") THEN {Corrupt} ELSE {}
  /\ Leave(h)
  /\ UNCHANGED <<image, meta, mirror, backing, corrupted, crashes>>

Crash(h) ==
  /\ pc[h] # "idle"
  /\ crashes < MaxCrashes
  /\ crashes' = crashes + 1
  /\ tmp' \in {tmp} \cup IF At(h, "download") THEN {Corrupt} ELSE {}
  /\ Leave(h)
  /\ UNCHANGED <<image, meta, mirror, backing, corrupted>>

-----------------------------------------------------------------------------
(* The world around the cache (external). *)

PublishImage ==
  /\ pub' \in Versions
  /\ UNCHANGED <<callers, cache, sums, backing, corrupted, crashes>>

PublishSums ==
  /\ sums' = pub
  /\ UNCHANGED <<callers, cache, pub, backing, corrupted, crashes>>

-----------------------------------------------------------------------------
CallStep(h) == \/ Lookup(h) \/ FetchSums(h) \/ CheckFile(h) \/ Download(h)
               \/ Rename(h) \/ Verify(h) \/ Record(h) \/ Return(h)
               \/ UseImage(h)

Next == \/ \E h \in Hp : \/ Call(h) \/ Lock(h) \/ CallStep(h)
                         \/ Fails(h) \/ Crash(h)
        \/ PublishImage \/ PublishSums

Spec == Init /\ [][Next]_vars

(* Callers finish what they started and the lock is granted. *)
FairSpec == Spec /\ \A h \in Hp : WF_vars(CallStep(h)) /\ SF_vars(Lock(h))

(* The best case for a retry: nothing fails but one download, the mirror has *)
(* stopped changing, and callers retry for ever.                             *)
Retrying ==
  /\ Init
  /\ [][\E h \in Hp : Call(h) \/ Lock(h) \/ CallStep(h)]_vars
  /\ \A h \in Hp : /\ WF_vars(Call(h)) /\ WF_vars(CallStep(h))
                   /\ SF_vars(Lock(h))

-----------------------------------------------------------------------------
(* ensure_image verifies before it writes image.json, and renames onto the   *)
(* image only when there is none: an image with metadata is the image that   *)
(* was verified, however callers, crashes and republications interleave.     *)
CachedIsVerified == meta # None /\ image # None => image = meta

(* The digest in each VM's config is that of the file its disk is an overlay *)
(* of, for all VMs ever created on this cache.                               *)
BackingMatchesConfigs == \A v \in backing : image = v

(* images.rs:77: nobody replaces an image file, so no overlay disk ever has  *)
(* its backing file changed under it.                                        *)
ImageNeverReplaced == [][image # None => image' = image]_vars

(* The inductive invariant these follow from: the lock holder's label tells  *)
(* what is in the directory.                                                 *)
LockDiscipline ==
  \A h \in Hp : lock = h <=> pc[h] \notin {"idle", "lock", "use"}

UnverifiedLabels == {"sums", "check", "download", "rename", "verify", "record"}

DirectoryUnderLock ==
  \A h \in Hp :
    /\ pc[h] \in UnverifiedLabels => meta = None
    /\ pc[h] \in UnverifiedLabels \ {"sums"} => expected[h] \in Versions
    /\ pc[h] \in {"download", "rename"} => image = None
    /\ pc[h] = "record" => image = expected[h]
    /\ pc[h] \in {"ok", "use"} => meta # None /\ result[h] = meta

IndInv ==
  /\ TypeOK
  /\ LockDiscipline
  /\ DirectoryUnderLock
  /\ meta # None => image = meta
  /\ backing \subseteq {image}
  /\ backing # {} => meta # None

(* Only a caller without image.json downloads: the one that waited for the   *)
(* lock finds what the first one recorded, if that one did not fail.         *)
DownloadOnce ==
  [][\A h \in Hp : At(h, "download") /\ pc'[h] = "rename" => meta = None]_vars

(* Every call returns, and with it the lock, whatever fails in other calls.  *)
Termination == \A h \in Hp : ~At(h, "idle") ~> At(h, "idle")

-----------------------------------------------------------------------------
(* What the repository's words promise and the code does not do. *)

(* README.md:15: "downloads and verifies a cloud image into the local cache".*)
(* Retried against a healthy mirror, it ends up doing so.                    *)
RetrySucceeds == <>(meta # None)
=============================================================================
