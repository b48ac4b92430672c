------------------------------ MODULE Outputs ------------------------------
(***************************************************************************)
(* summary-json (src/outputs.ts): the manifest of a command is written as  *)
(* one JSON array if it fits under the byte cap; otherwise the output is   *)
(* an empty array, and a notice and a preview are written beside it.       *)
(* Items are serialized one by one, so that a large manifest is never held *)
(* as a whole.  The names differ from those of Dispatcher, whose run() is  *)
(* what calls this code.                                                   *)
(***************************************************************************)
EXTENDS Naturals, Sequences

CONSTANTS
  MaxItems,    (* bound: the length of a manifest *)
  Sizes,       (* how many bytes the JSON of an item may have *)
  Cap,         (* SUMMARY_JSON_MAX_UTF8_BYTES *)
  PreviewMax   (* SUMMARY_JSON_PREVIEW_MAX_ENTRIES *)

Throws == 0    (* stands for an item that cannot be serialized *)

ASSUME OutputsAssumption ==
  /\ MaxItems \in Nat /\ Sizes \subseteq Nat \ {Throws}
  /\ Cap \in Nat /\ Cap >= 2 /\ PreviewMax \in Nat

VARIABLES
  step,     (* full or preview: which array is built; publish or done *)
  items,    (* the manifest *)
  index,    (* of the loop in serializeJsonArrayPrefix: items taken, *)
  bytes,    (* and the length of the array so far *)
  reason,   (* why the full array was given up: none, cap or throws *)
  preview,  (* how many items the preview has *)
  outputs   (* what was set: json and preview in items, truncated *)

summaryVars == <<step, items, index, bytes, reason, preview, outputs>>

Unset == [json |-> 0, truncated |-> FALSE, preview |-> 0, notice |-> FALSE]

SummaryInit ==
  /\ step = "full"
  /\ items \in UNION {[1 .. n -> Sizes \cup {Throws}] : n \in 0 .. MaxItems}
  /\ index = 0 /\ bytes = 2 /\ reason = "none" /\ preview = 0
  /\ outputs = Unset

Building == step \in {"full", "preview"}
Count == IF step = "preview" /\ PreviewMax < Len(items) THEN PreviewMax ELSE Len(items)
EndOfLoop == index = Count

NoSeparator == items[index + 1]
(* A comma goes before every item but the first. *)
AdditionalBytes == (IF index = 0 THEN 0 ELSE 1) + items[index + 1]

Serializable == items[index + 1] # Throws
Fits == bytes + AdditionalBytes <= Cap

(* The loop of serializeJsonArrayPrefix. *)
EmitItem ==
  /\ Building /\ ~EndOfLoop /\ Serializable /\ Fits
  /\ index' = index + 1 /\ bytes' = bytes + AdditionalBytes
  /\ UNCHANGED <<step, items, reason, preview, outputs>>

(* buildSummaryJsonPayload: the full array was complete, or else the       *)
(* preview is built in the same way from the start.                        *)
FullEnds(why) ==
  /\ step = "full" /\ reason' = why
  /\ index' = 0 /\ bytes' = 2
  /\ step' = IF why = "none" THEN "publish" ELSE "preview"
  /\ UNCHANGED <<items, preview, outputs>>

FullComplete == EndOfLoop /\ FullEnds("none")
FullThrows == ~EndOfLoop /\ ~Serializable /\ FullEnds("throws")
FullExceeds == ~EndOfLoop /\ Serializable /\ ~Fits /\ FullEnds("cap")

(* The preview ends where it must, whatever it is that ends it. *)
PreviewUncounted == Len(items)
PreviewCount == index
PreviewEnds ==
  /\ step = "preview"
  /\ EndOfLoop \/ (~EndOfLoop /\ ~(Serializable /\ Fits))
  /\ step' = "publish" /\ preview' = PreviewCount
  /\ UNCHANGED <<items, index, bytes, reason, outputs>>

(* buildSummaryJsonPayload has returned. *)
SetSummaryJsonOutput ==
  /\ step = "publish"
  /\ outputs' = IF reason = "none" THEN [Unset EXCEPT !.json = Len(items)]
                ELSE [json |-> 0, truncated |-> TRUE, preview |-> preview, notice |-> TRUE]
  /\ step' = "done"
  /\ UNCHANGED <<items, index, bytes, reason, preview>>

SummaryEnds == step = "done" /\ UNCHANGED summaryVars

SummaryNext ==
  \/ EmitItem \/ FullComplete \/ FullThrows \/ FullExceeds \/ PreviewEnds \/ SetSummaryJsonOutput
  \/ SummaryEnds

SummarySpec == SummaryInit /\ [][SummaryNext]_summaryVars

-----------------------------------------------------------------------------
(* The length of the array of the first n items, as a JSON text has it.    *)
JsonLength(n) ==
  LET sum[i \in 0 .. n] == IF i = 0 THEN 0 ELSE sum[i - 1] + items[i]
  IN  2 + sum[n] + (IF n = 0 THEN 0 ELSE n - 1)

Writable(n) == (\A i \in 1 .. n : items[i] # Throws) /\ JsonLength(n) <= Cap

(* No array goes over the cap, though the length is only added up, and the *)
(* two together have no more than one of them may have, and brackets.      *)
OutputsFit ==
  /\ Building => bytes = JsonLength(index)
  /\ JsonLength(outputs.json) <= Cap /\ JsonLength(outputs.preview) <= Cap
  /\ JsonLength(outputs.json) + JsonLength(outputs.preview) <= Cap + 2

(* The manifest is complete, and said to be, exactly if the whole of it    *)
(* can be written within the cap; otherwise it is empty, never a part, and *)
(* the preview is the longest beginning that can be written.               *)
ManifestIsAllOrNothing ==
  step = "done" =>
    /\ outputs.truncated <=> ~Writable(Len(items))
    /\ outputs.json = IF outputs.truncated THEN 0 ELSE Len(items)
    /\ outputs.notice = outputs.truncated
    /\ outputs.truncated =>
         /\ Writable(outputs.preview) /\ outputs.preview <= PreviewMax
         /\ \A n \in 1 .. Len(items) : Writable(n) /\ n <= PreviewMax => n <= outputs.preview
=============================================================================
