--------------------------- MODULE SourceOpening ---------------------------
(***************************************************************************)
(* How prepare_source() opens a file, twice: it looks at the first bytes   *)
(* for gzip or zip, opens the file again through the decompressor and its  *)
(* guard, and reads.  Pass 1 reads a sample, detects encoding and dialect  *)
(* and compares them with the config; pass 2 reads and decodes the whole   *)
(* file.  Another file may be renamed over this one between any two steps. *)
(*                                                                         *)
(* A file is one of a few forms with its decompressed bytes, which are     *)
(* ASCII, first or second byte of a UTF-8 character, half of a UTF-16      *)
(* character, or another byte that UTF-8 does not know here.  What the two *)
(* detector libraries guess is any answer, or an honest one.               *)
(***************************************************************************)
EXTENDS Integers, Sequences

CONSTANTS
    SAMPLE_BYTES,
    ChunkBytes,     \* _BOUNDED_READ_CHUNK_BYTES
    Ceiling,        \* _DEFAULT_MAX_DECOMPRESSED_BYTES
    Epsilon,        \* _NEAR_TIE_CHAOS_EPSILON, in hundredths
    MinConfidence,  \* DEFAULT_MIN_CONFIDENCE, in hundredths
    Chaos,          \* bound: the values of chaos, in hundredths
    File,           \* the files
    Replacements,   \* the files that may take its place, once
    Honest          \* the detectors name the narrowest encoding that fits

Bytes == {"ascii", "lead", "cont", "wide", "high"}
Forms == {"plain", "gzip", "zip", "members"}
Codecs == {"ascii", "utf-8", "cp1250"}
Marks == {"none", "utf-8-sig", "utf-16"}

(* A zip of form "members" has not exactly one member; a file that is      *)
(* broken at n > 0 fails when byte n is to be decompressed.                *)
Content == [form : Forms, bytes : Seq(Bytes), mark : Marks, broken : Nat]

ASSUME OpeningAssumption ==
    /\ SAMPLE_BYTES \in Nat \ {0} /\ ChunkBytes \in Nat \ {0}
    /\ Ceiling \in Nat /\ SAMPLE_BYTES < Ceiling
    /\ Epsilon \in Nat /\ MinConfidence \in Nat /\ Chaos \subseteq Nat
    /\ File \subseteq Content /\ Replacements \subseteq Content
    /\ Honest \in BOOLEAN

VARIABLES
    disk,        \* the file under the name
    replaced,    \* whether it took another's place
    encoding,    \* config.csv.encoding
    phase,       \* where prepare_source() and its reader are, or how they ended
    pass,        \* 1, 2
    detected,    \* detect_compression() of this pass: a form
    held,        \* the file this pass has open
    bytes_read,  \* bytes this pass has read of it
    sampled,     \* the file the sample is of
    sample,      \* the sample, trimmed
    truncated,   \* sample_was_truncated
    codec        \* decode_codec

opening == <<pass, detected, held, bytes_read>>
decision == <<sampled, sample, truncated, codec>>
vars == <<disk, replaced, encoding, phase, opening, decision>>

Least(a, b) == IF a < b THEN a ELSE b
Start(s, n) == SubSeq(s, 1, n)

Init ==
    /\ disk \in File /\ replaced = FALSE
    /\ encoding \in {"utf-8", "cp1250"}
    /\ phase = "sniff" /\ pass = 1
    /\ detected = "plain" /\ held = disk /\ bytes_read = 0
    /\ sampled = disk /\ sample = <<>> /\ truncated = FALSE /\ codec = encoding

----------------------------------------------------------------------------
(* Opening and reading *)

detect_compression(c) == IF c.form = "members" THEN "zip" ELSE c.form

(* _open_raw_stream(): a plain file stays open, another one is closed. *)
Sniff ==
    /\ phase = "sniff"
    /\ detected' = detect_compression(disk)
    /\ held' = disk /\ bytes_read' = 0
    /\ phase' = IF detected' = "plain" THEN "read" ELSE "open"
    /\ UNCHANGED <<disk, replaced, encoding, pass, decision>>

(* open_compressed_stream(): the file is opened again by its name.  A      *)
(* gzip header is only looked at when it is read.                          *)
Open ==
    /\ phase = "open"
    /\ held' = disk
    /\ phase' = IF detected = "zip" /\ disk.form # "zip" THEN "corrupted" ELSE "read"
    /\ UNCHANGED <<disk, replaced, encoding, pass, detected, bytes_read, decision>>

\* Faulty variant: read() returns what one bounded call returns.
WantedOnce == IF pass = 1 /\ bytes_read > 0 THEN 0 ELSE ChunkBytes

(* The bytes the reader still asks for: the sample and one byte more in    *)
(* pass 1, everything in pass 2.                                           *)
Wanted == IF pass = 1 THEN SAMPLE_BYTES + 1 - bytes_read ELSE ChunkBytes

Left == Len(held.bytes) - bytes_read
Unreadable == held.form # detected \/ (held.broken # 0 /\ held.broken <= bytes_read + 1)

\* Faulty variant: the ceiling is compared before the chunk is counted.
TripsLate(n) == detected # "plain" /\ bytes_read > Ceiling

Trips(n) == detected # "plain" /\ bytes_read + n > Ceiling

(* What a codec makes of bytes: whether it can decode them to the end, or  *)
(* could if more bytes followed.  Single-byte codecs decode anything.      *)
Lead(s, i) == i \in DOMAIN s /\ s[i] = "lead"
Cont(s, i) == i \in DOMAIN s /\ s[i] = "cont"

DecodesPart(c, s) ==
    CASE c = "ascii" -> \A i \in DOMAIN s : s[i] = "ascii"
      [] c \in {"utf-8", "utf-8-sig"} ->
             \A i \in DOMAIN s : /\ s[i] \in {"ascii", "lead", "cont"}
                                 /\ s[i] = "cont" => Lead(s, i - 1)
                                 /\ Lead(s, i) /\ i < Len(s) => Cont(s, i + 1)
      [] c = "utf-16" -> TRUE
      [] c = "cp1250" -> TRUE

Decodes(c, s) ==
    /\ DecodesPart(c, s)
    /\ c \in {"utf-8", "utf-8-sig"} => ~Lead(s, Len(s))
    /\ c = "utf-16" => Len(s) % 2 = 0

(* _read_one_bounded_chunk(), and in pass 2 the decoding of what it read.  *)
(* A decompressor may return less than it is asked for.                    *)
ReadChunk ==
    /\ phase = "read" /\ Wanted > 0 /\ Left > 0 /\ ~Unreadable
    /\ \E n \in 1 .. Least(Least(Wanted, ChunkBytes), Left) :
          /\ bytes_read' = bytes_read + n
          /\ phase' = IF Trips(n) THEN "bomb"
                      ELSE IF pass = 2 /\ ~DecodesPart(codec, Start(held.bytes, bytes_read'))
                      THEN "undecodable" ELSE "read"
    /\ UNCHANGED <<disk, replaced, encoding, pass, detected, held, decision>>

(* BadGzipFile, EOFError, a wrong CRC: no error of this package. *)
ReadFails ==
    /\ phase = "read" /\ Wanted > 0 /\ Unreadable
    /\ phase' = "failed"
    /\ UNCHANGED <<disk, replaced, encoding, opening, decision>>

(* The end of what pass 1 reads *)
SampleRead ==
    /\ phase = "read" /\ pass = 1
    /\ Wanted = 0 \/ (Left = 0 /\ ~Unreadable)
    /\ truncated' = (bytes_read > SAMPLE_BYTES)
    /\ sample' = Start(held.bytes, Least(bytes_read, SAMPLE_BYTES))
    /\ sampled' = held
    /\ phase' = "detect"
    /\ UNCHANGED <<disk, replaced, encoding, opening, codec>>

EndOfFile ==
    /\ phase = "read" /\ pass = 2 /\ Left = 0 /\ ~Unreadable
    /\ phase' = IF Decodes(codec, held.bytes) THEN "done" ELSE "undecodable"
    /\ UNCHANGED <<disk, replaced, encoding, opening, decision>>

----------------------------------------------------------------------------
(* Detection *)

(* charset-normalizer's candidates, the least chaotic first: none, or two  *)
(* that may be equal.                                                      *)
Candidate == [name : Codecs, chaos : Chaos]
Sorted(cs) == \A i, j \in DOMAIN cs : i < j => cs[i].chaos <= cs[j].chaos
Candidates == {cs \in {<<>>} \cup (Candidate \X Candidate) : Sorted(cs)}

(* The narrowest encoding that fits: what honest detectors name. *)
Fitting(s) == IF Decodes("ascii", s) THEN "ascii"
              ELSE IF Decodes("utf-8", s) THEN "utf-8" ELSE "cp1250"

RightGuess(cs, guess, delimiter) ==
    /\ \A i \in DOMAIN cs : cs[1].name = Fitting(sample)
    /\ guess = Fitting(sample) /\ delimiter # "other"

(* chardet's guess is corroborated by the best candidate, or by one that   *)
(* is nearly as good.                                                      *)
best_corroborating_match(cs, guess) ==
    {i \in DOMAIN cs : cs[i].name = guess /\ cs[i].chaos - cs[1].chaos <= Epsilon}

(* Only the decision counts; a wide sample's confidence of at most 99 %    *)
(* changes none.                                                           *)
Confident(candidate) == 100 - candidate.chaos >= MinConfidence

(* Without a mark: the codec both libraries name, with enough confidence.  *)
detect_encoding(cs, guess) ==
    IF \E i \in best_corroborating_match(cs, guess) :
          /\ Confident(cs[i])
          /\ \A j \in best_corroborating_match(cs, guess) : i <= j
    THEN guess ELSE "undetermined"

\* Faulty variant: a detected encoding is not compared with the config's.
NeverDisagrees(found) == FALSE

Disagrees(found) == found \notin {"undetermined", "ascii", encoding}

(* clevercsv's delimiter: the config's, another one, or none it is sure of *)
(* or that its parser survives.                                            *)
detect_dialect == {"declared", "other", "declined"}

Deferred == IF encoding = "utf-8" THEN "utf-8-sig" ELSE encoding

(* The encoding of the sample, its strict decoding, and the delimiter.     *)
Detect ==
    /\ phase = "detect"
    /\ \E cs \in Candidates, guess \in Codecs, delimiter \in detect_dialect :
          LET found == IF sampled.mark # "none" THEN "undetermined"
                       ELSE detect_encoding(cs, guess)
          IN  /\ Honest => RightGuess(cs, guess, delimiter)
              /\ codec' = IF sampled.mark # "none" THEN sampled.mark
                          ELSE IF found = "undetermined" THEN Deferred ELSE found
              /\ \/ Disagrees(found) /\ phase' = "rejected"
                 \/ ~Disagrees(found) /\ ~Decodes(codec', sample) /\ phase' = "undecodable"
                 \/ /\ ~Disagrees(found) /\ Decodes(codec', sample)
                    /\ phase' = IF delimiter = "other" THEN "rejected" ELSE "accepted"
    /\ UNCHANGED <<disk, replaced, encoding, opening, sampled, sample, truncated>>

(* The header of the sample is checked (see SourceRows); pass 2 begins.    *)
CheckHeader ==
    /\ phase = "accepted"
    /\ \/ phase' = "rejected" /\ UNCHANGED pass
       \/ phase' = "sniff" /\ pass' = 2
    /\ UNCHANGED <<disk, replaced, encoding, detected, held, bytes_read, decision>>

Replace ==
    /\ ~replaced /\ phase \in {"sniff", "open", "read", "detect", "accepted"}
    /\ disk' \in Replacements /\ replaced' = TRUE
    /\ UNCHANGED <<encoding, phase, opening, decision>>

Next == Sniff \/ Open \/ ReadChunk \/ ReadFails \/ SampleRead \/ EndOfFile \/ Detect
        \/ CheckHeader \/ Replace

Spec == Init /\ [][Next]_vars

----------------------------------------------------------------------------
(* Properties *)

TypeOK ==
    /\ disk \in Content /\ held \in Content /\ sampled \in Content
    /\ replaced \in BOOLEAN /\ truncated \in BOOLEAN
    /\ encoding \in {"utf-8", "cp1250"}
    /\ phase \in {"sniff", "open", "read", "detect", "accepted", "done", "rejected",
                  "undecodable", "bomb", "corrupted", "failed"}
    /\ pass \in {1, 2}
    /\ detected \in Forms
    /\ bytes_read \in 0 .. Len(held.bytes)
    /\ sample \in Seq(Bytes)
    /\ codec \in Codecs \cup (Marks \ {"none"})

(* The guard (_DecompressionBombGuard) passes nothing on beyond the        *)
(* ceiling, however the reads are cut, and never stops a file that fits:   *)
(* the bytes of pass 1 do not count in pass 2.                             *)
CeilingIsExact ==
    detected # "plain" =>
        /\ phase = "read" => bytes_read <= Ceiling
        /\ phase = "bomb" => Len(held.bytes) > Ceiling
        /\ phase = "done" => Len(held.bytes) <= Ceiling

(* The sample is the start of one file, as long as it may be, and counts   *)
(* as cut off exactly when that file is longer, also when the last chunk   *)
(* ends with the sample (WR-01).                                           *)
SampleIsExact ==
    phase \in {"detect", "accepted"} \/ pass = 2 =>
        /\ sample = Start(sampled.bytes, Least(SAMPLE_BYTES, Len(sampled.bytes)))
        /\ truncated <=> Len(sampled.bytes) > SAMPLE_BYTES

(* Rows only ever come from text as the config's encoding reads it, unless *)
(* the sample was marked with another one: a guess of the detectors is     *)
(* never taken over the config, and a sample that is all ASCII does not    *)
(* let other bytes pass, whatever file pass 2 opens.                       *)
TextIsAsDeclared ==
    pass = 2 /\ phase \in {"read", "done"} /\ sampled.mark = "none" =>
        \/ codec \in {encoding, Deferred}
        \/ codec = "ascii" /\ \A i \in 1 .. bytes_read : held.bytes[i] = "ascii"

(* A well-formed file is read, with detectors that are right, if only its  *)
(* sample does not end inside a character.                                 *)
WellFormedFilesAreRead ==
    /\ ~replaced /\ disk.form = "plain" /\ disk.mark = "none"
    /\ encoding = "utf-8" /\ Decodes(encoding, disk.bytes) /\ Decodes(encoding, sample)
    => phase # "undecodable"
=============================================================================
