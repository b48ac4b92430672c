------------------------------- MODULE Inputs -------------------------------
(***************************************************************************)
(* What src/inputs.ts accepts, before anything is asked of B2, and the     *)
(* fileInfo that an upload sends.  Keys of fileInfo are canonical: the     *)
(* code lowers their case before it compares them.                         *)
(***************************************************************************)
EXTENDS Naturals, Sequences

CONSTANTS
  Keys,               (* fileInfo keys *)
  KeyBytes,           (* how long each is *)
  Reserved,           (* the keys that begin with "b2-" *)
  Unfit,              (* the keys with characters that B2 does not take *)
  MtimeKey,           (* src_last_modified_millis *)
  MtimeBytes,         (* how long its value is *)
  MaxEntries,         (* FILE_INFO_MAX_ENTRIES *)
  MaxKeyBytes,        (* FILE_INFO_KEY_MAX_BYTES *)
  MaxBytes,           (* FILE_INFO_TOTAL_MAX_BYTES *)
  MaxBytesEncrypted,  (* FILE_INFO_TOTAL_MAX_BYTES_WITH_ENCRYPTION *)
  FileInfos           (* the fileInfo entries that a workflow may give *)

Entries == [key : Keys, from : {"file-info", "header", "mtime"}, value : Nat]

ASSUME InputsAssumption ==
  /\ KeyBytes \in [Keys -> Nat]
  /\ Reserved \subseteq Keys /\ Unfit \subseteq Keys
  /\ MtimeKey \in Keys \ (Reserved \cup Unfit) /\ KeyBytes[MtimeKey] <= MaxKeyBytes
  /\ MtimeBytes \in Nat /\ MaxEntries \in Nat /\ MaxKeyBytes \in Nat
  /\ MaxBytes \in Nat /\ MaxBytesEncrypted \in Nat
  /\ FileInfos \subseteq Seq(Entries)

Actions == {"upload", "download", "sync", "copy", "delete", "presign", "list", "hide",
            "unhide", "verify", "retention", "head", "purge"}

(* The inputs as given.  "numbers" stands for everything that is parsed    *)
(* alone: booleans, positive integers, enumerations, the encryption key.   *)
RawInputs ==
  {r \in [action : Actions \cup {"unknown"}, credential : {"input", "env", "missing"},
          bucket : {"given", "missing"}, numbers : {"valid", "invalid"},
          source : {"given", "empty"}, allowBucketPurge : BOOLEAN, dryRun : BOOLEAN,
          encrypted : BOOLEAN, preserveMtime : BOOLEAN, fileInfo : FileInfos] :
     /\ r.allowBucketPurge => r.action = "purge"
     /\ r.action # "upload" => r.fileInfo = <<>> /\ ~r.encrypted /\ ~r.preserveMtime
     /\ r.credential # "input" \/ r.bucket = "missing" \/ r.numbers = "invalid" =>
          r.action = "list" /\ ~r.dryRun}

-----------------------------------------------------------------------------
Bytes(e) == KeyBytes[e.key] + e.value

(* totalBytes after each entry. *)
TotalBytes(info) ==
  LET total[i \in 0 .. Len(info)] == IF i = 0 THEN 0 ELSE total[i - 1] + Bytes(info[i])
  IN  total

DistinctKeys(info) == \A i, j \in DOMAIN info : info[i].key = info[j].key => i = j

(* parseFileInfo and addFileInfo. *)
FileInfoParses(info) ==
  /\ DistinctKeys(info)
  /\ \A i \in DOMAIN info : info[i].key \in Reserved => info[i].from = "header"

(* uploadFileInfoTotalMaxBytes and validateFileInfo, entry after entry     *)
(* within what the entries before have left of the total.                  *)
Budget(encrypted) == IF encrypted THEN MaxBytesEncrypted ELSE MaxBytes

FileInfoValid(info, max) ==
  /\ Len(info) <= MaxEntries
  /\ DistinctKeys(info)
  /\ \A i \in DOMAIN info :
       /\ info[i].key \notin Unfit
       /\ KeyBytes[info[i].key] <= MaxKeyBytes
       /\ TotalBytes(info)[i - 1] <= max /\ Bytes(info[i]) <= max - TotalBytes(info)[i - 1]

(* parseInputs returns, rather than throws.                                *)
Parses(r) ==
  /\ r.action \in Actions
  /\ r.credential \in {"input", "env"} /\ r.bucket = "given" /\ r.numbers = "valid"
  /\ FileInfoParses(r.fileInfo) /\ FileInfoValid(r.fileInfo, Budget(r.encrypted))
  /\ r.preserveMtime => \A i \in DOMAIN r.fileInfo : r.fileInfo[i].key # MtimeKey

(* optionalSource, and requireSource, which each command but list calls    *)
(* first; purge has a rule of its own.                                     *)
SourceGiven(r) ==
  \/ r.source = "given" \/ r.action = "list"
  \/ r.action = "purge" /\ r.allowBucketPurge

(* buildUploadFileInfo: the modification time of the file comes on top of  *)
(* the entries that were given.                                            *)
UploadFileInfo(r) ==
  IF r.preserveMtime
  THEN Append(r.fileInfo, [key |-> MtimeKey, from |-> "mtime", value |-> MtimeBytes])
  ELSE r.fileInfo
=============================================================================
