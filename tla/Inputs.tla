------------------------------- MODULE Inputs -------------------------------
(***************************************************************************)
(* How the input of a source becomes a manifest: Load of                   *)
(* internal/common/inputsrc, Parse and Normalize of a link, and Build,     *)
(* BuildCandidates, the filters, Validate and FromSource of                *)
(* internal/scd/manifest.                                                  *)
(*                                                                         *)
(* A text is [size, encoded, lines]: base64 when encoded, its non-empty    *)
(* lines after decoding.  A line has a scheme ("" when it is no URI), the  *)
(* tag and the country and label of its link, and a fault: the first rule  *)
(* that its link breaks, "" for none.  A source says how it reads: format, *)
(* maxBytes, insecure (allowInsecure), countries and labels ({} for no     *)
(* filter), and type.                                                      *)
(***************************************************************************)
EXTENDS Integers, SequencesExt

Line == [scheme : STRING, tag : STRING, fault : STRING, country : STRING, label : STRING]
Text == [size : Nat, encoded : BOOLEAN, lines : Seq(Line)]

CandidateType(src) == src.type \in {"wireguard", "masque"}

(* The text that a reader sees who does not decode it.                     *)
Undecoded == <<[scheme |-> "", tag |-> "", fault |-> "", country |-> "", label |-> ""]>>

(* DecodeAuto: only base64 of a list of URIs is decoded.                   *)
DecodeAuto(t) ==
  IF t.encoded /\ \E k \in DOMAIN t.lines : t.lines[k].scheme # "" THEN t.lines
  ELSE IF t.encoded THEN Undecoded ELSE t.lines

Decode(src, t) ==
  CASE src.format = "auto" -> DecodeAuto(t)
    [] src.format = "plain" -> IF t.encoded THEN Undecoded ELSE t.lines
    [] src.format = "base64" -> t.lines

(* Load fails: too large, not what the format says, or empty.  A private   *)
(* candidate file (LoadPrivate) may be empty and is never decoded.         *)
Refused(src, t) ==
  \/ src.maxBytes > 0 /\ t.size > src.maxBytes
  \/ /\ ~CandidateType(src)
     /\ (src.format = "base64" /\ ~t.encoded) \/ Decode(src, t) = <<>>

Content(src, t) == IF ~CandidateType(src) THEN Decode(src, t)
                   ELSE IF t.encoded THEN Undecoded ELSE t.lines

(* Parse and Normalize: why a line gives no entry, "" when it does.        *)
Parse(line) ==
  CASE line.scheme # "vless" -> "unsupported_scheme"
    [] line.scheme = "vless" /\ line.fault \in {"invalid_uri", "missing_required_field"} -> line.fault
    [] OTHER -> ""

Normalize(src, line) ==
  CASE line.fault \in {"unsupported_combo", "unsupported_value"} -> line.fault
    [] line.fault = "insecure" /\ ~src.insecure -> "unsupported_value"
    [] OTHER -> ""

CandidateEntry(src, line) ==
  CASE line.scheme # src.type -> "unsupported_scheme"
    [] line.scheme = src.type /\ line.fault \notin {"", "rejected"} -> src.type \o "_invalid"
    [] OTHER -> ""

Reject(src, line) ==
  IF CandidateType(src) THEN CandidateEntry(src, line)
  ELSE IF Parse(line) # "" THEN Parse(line) ELSE Normalize(src, line)

(* Build and BuildCandidates: the first line of a tag wins, and Xray's     *)
(* conf.Build has the last word.  entries are the accepted lines, skipped  *)
(* the codes of the others.                                                *)
Build(src, lines) ==
  LET Seen(m, tag) == \E k \in DOMAIN m.entries : m.entries[k].tag = tag
      Code(m, line) == CASE Reject(src, line) # "" -> Reject(src, line)
                         [] Reject(src, line) = "" /\ Seen(m, line.tag) -> "duplicate_tag"
                         [] OTHER -> IF line.fault = "rejected" THEN "unsupported_value" ELSE ""
      Add(m, line) == IF Code(m, line) = "" THEN [m EXCEPT !.entries = Append(@, line)]
                      ELSE [m EXCEPT !.skipped = Append(@, Code(m, line))]
  IN  FoldLeft(Add, [entries |-> <<>>, skipped |-> <<>>], lines)

(* ApplyFilters: the countries, then the labels; skipped is unchanged.     *)
ApplyFilters(src, m) ==
  LET Passes(line) == /\ src.countries # {} => line.country \in src.countries
                      /\ src.labels # {} => line.label \in src.labels
  IN  [m EXCEPT !.entries = SelectSeq(@, Passes)]

(* Validate, and FromSource: the tags of the manifest in line order, and   *)
(* whether it is invalid: without entries, unless of an empty candidate    *)
(* file.                                                                   *)
FromSource(src, t) ==
  LET lines == Content(src, t)
      m == ApplyFilters(src, Build(src, lines))
  IN  [tags |-> [k \in DOMAIN m.entries |-> m.entries[k].tag],
       invalid |-> m.entries = <<>> /\ ~(CandidateType(src) /\ lines = <<>>)]
=============================================================================
