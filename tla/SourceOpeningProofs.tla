------------------------ MODULE SourceOpeningProofs ------------------------
(***************************************************************************)
(* Proofs about SourceOpening, for every size of sample, chunk and ceiling *)
(* and all files: the invariants of its run.                               *)
(***************************************************************************)
EXTENDS SourceOpening, SequenceTheorems, TLAPS

(* What has been read of the file held open, and that a guarded reader is  *)
(* stopped by the first byte beyond the ceiling.                           *)
ReadSoFar ==
    /\ phase = "open" => bytes_read = 0
    /\ phase = "done" => pass = 2 /\ bytes_read = Len(held.bytes)
    /\ phase = "read" /\ pass = 1 => bytes_read <= SAMPLE_BYTES + 1
    /\ phase \in {"detect", "accepted"} => pass = 1
    /\ detected # "plain" /\ phase \in {"read", "done"} => bytes_read <= Ceiling
    /\ phase = "bomb" => bytes_read > Ceiling

(* The codec, once it is chosen, and what it let pass. *)
CodecChosen ==
    (phase = "accepted" \/ pass = 2) /\ sampled.mark = "none" =>
        /\ codec \in {encoding, Deferred, "ascii"}
        /\ pass = 2 /\ phase \in {"read", "done"} /\ codec = "ascii" =>
               \A i \in 1 .. bytes_read : held.bytes[i] = "ascii"

(* The inductive invariant. *)
IInv == TypeOK /\ ReadSoFar /\ SampleIsExact /\ CodecChosen

LEMMA StartOf ==
    ASSUME NEW S, NEW s \in Seq(S), NEW n \in 0 .. Len(s)
    PROVE  /\ Start(s, n) \in Seq(S) /\ Len(Start(s, n)) = n
           /\ DOMAIN Start(s, n) = 1 .. n
           /\ \A i \in 1 .. n : Start(s, n)[i] = s[i]
BY DEF Start

LEMMA HeldBytes ==
    ASSUME TypeOK
    PROVE  /\ held.bytes \in Seq(Bytes) /\ Len(held.bytes) \in Nat
           /\ sampled.bytes \in Seq(Bytes) /\ Len(sampled.bytes) \in Nat
           /\ bytes_read \in Nat /\ bytes_read <= Len(held.bytes)
BY DEF TypeOK, Content

LEMMA InitIInv ==
    ASSUME Init
    PROVE  IInv
<1>1. disk \in Content /\ disk.bytes \in Seq(Bytes) /\ Len(disk.bytes) \in Nat
  BY OpeningAssumption DEF Init, Content
<1>2. TypeOK
  <2>1. disk \in Content /\ held \in Content /\ sampled \in Content
    BY <1>1 DEF Init
  <2>2. bytes_read \in 0 .. Len(held.bytes) /\ sample \in Seq(Bytes)
    BY <1>1 DEF Init
  <2>3. codec \in Codecs /\ detected \in Forms
    BY DEF Init, Codecs, Forms
  <2>. QED  BY <2>1, <2>2, <2>3 DEF Init, TypeOK
<1>. QED  BY <1>2 DEF Init, IInv, ReadSoFar, SampleIsExact, CodecChosen

LEMMA SniffIInv ==
    ASSUME IInv, Sniff
    PROVE  IInv'
<1>1. /\ disk \in Content /\ Len(disk.bytes) \in Nat
      /\ detect_compression(disk) \in Forms
  BY DEF IInv, TypeOK, Content, detect_compression, Forms
<1>2. TypeOK'
  BY <1>1 DEF IInv, TypeOK, Sniff, decision
<1>. QED  BY <1>2, OpeningAssumption
             DEF IInv, TypeOK, ReadSoFar, SampleIsExact, CodecChosen, Sniff,
                 decision, Deferred

LEMMA OpenIInv ==
    ASSUME IInv, Open
    PROVE  IInv'
<1>1. disk \in Content /\ Len(disk.bytes) \in Nat
  BY DEF IInv, TypeOK, Content
<1>2. TypeOK'
  BY <1>1 DEF IInv, TypeOK, ReadSoFar, Open, decision
<1>. QED  BY <1>2, OpeningAssumption
             DEF IInv, TypeOK, ReadSoFar, SampleIsExact, CodecChosen, Open,
                 decision, Deferred

LEMMA ReadChunkIInv ==
    ASSUME IInv, ReadChunk
    PROVE  IInv'
<1>1. PICK n \in 1 .. Least(Least(Wanted, ChunkBytes), Left) :
          /\ bytes_read' = bytes_read + n
          /\ phase' = IF Trips(n) THEN "bomb"
                      ELSE IF pass = 2 /\ ~DecodesPart(codec, Start(held.bytes, bytes_read'))
                      THEN "undecodable" ELSE "read"
  BY DEF ReadChunk
<1>2. /\ bytes_read \in Nat /\ Len(held.bytes) \in Nat /\ held.bytes \in Seq(Bytes)
      /\ Left = Len(held.bytes) - bytes_read /\ Left > 0 /\ Wanted > 0
      /\ ChunkBytes \in Nat /\ SAMPLE_BYTES \in Nat /\ Ceiling \in Nat /\ Wanted \in Int
  BY HeldBytes, OpeningAssumption DEF IInv, Left, ReadChunk, Wanted
<1>3. n \in Nat /\ n <= Left /\ n <= Wanted
  BY <1>2 DEF Least
<1>4. bytes_read' \in 0 .. Len(held.bytes)
  BY <1>1, <1>2, <1>3
<1>5. /\ phase = "read" /\ phase' \in {"bomb", "undecodable", "read"}
      /\ UNCHANGED <<disk, replaced, encoding, pass, detected, held, sampled, sample, truncated, codec>>
  BY <1>1 DEF ReadChunk, decision
<1>6. TypeOK'
  BY <1>4, <1>5 DEF IInv, TypeOK
<1>7. ReadSoFar'
  <2>1. phase' = "read" /\ pass = 1 => bytes_read' <= SAMPLE_BYTES + 1
    BY <1>1, <1>2, <1>3 DEF Wanted
  <2>2. detected # "plain" /\ phase' = "read" => bytes_read' <= Ceiling
    BY <1>1, <1>2, <1>3 DEF Trips
  <2>3. phase' = "bomb" => bytes_read' > Ceiling
    BY <1>1, <1>2, <1>3 DEF Trips
  <2>. QED  BY <1>5, <2>1, <2>2, <2>3 DEF IInv, TypeOK, ReadSoFar
<1>8. SampleIsExact'
  BY <1>5 DEF IInv, SampleIsExact
<1>9. CodecChosen'
  <2>1. ASSUME phase' = "read", pass = 2, codec = "ascii"
        PROVE  \A i \in 1 .. bytes_read' : held.bytes[i] = "ascii"
    <3>1. DecodesPart("ascii", Start(held.bytes, bytes_read'))
      BY <1>1, <2>1
    <3>2. \A i \in 1 .. bytes_read' : Start(held.bytes, bytes_read')[i] = "ascii"
      BY <1>2, <1>4, <3>1, StartOf DEF DecodesPart
    <3>. QED  BY <1>2, <1>4, <3>2, StartOf
  <2>2. codec' \in {encoding', Deferred', "ascii"} <=> codec \in {encoding, Deferred, "ascii"}
    BY <1>5 DEF Deferred
  <2>. QED  BY <1>5, <2>1, <2>2 DEF IInv, CodecChosen
<1>. QED  BY <1>6, <1>7, <1>8, <1>9 DEF IInv

LEMMA SampleReadIInv ==
    ASSUME IInv, SampleRead
    PROVE  IInv'
<1>1. /\ phase = "read" /\ pass = 1 /\ phase' = "detect"
      /\ UNCHANGED <<disk, replaced, encoding, pass, detected, held, bytes_read, codec>>
      /\ sampled' = held /\ truncated' = (bytes_read > SAMPLE_BYTES)
      /\ sample' = Start(held.bytes, Least(bytes_read, SAMPLE_BYTES))
      /\ Wanted = 0 \/ Left = 0
  BY DEF SampleRead, opening
<1>2. /\ bytes_read \in Nat /\ Len(held.bytes) \in Nat /\ held.bytes \in Seq(Bytes)
      /\ bytes_read <= Len(held.bytes) /\ SAMPLE_BYTES \in Nat
      /\ bytes_read <= SAMPLE_BYTES + 1
      /\ bytes_read = SAMPLE_BYTES + 1 \/ bytes_read = Len(held.bytes)
  BY <1>1, HeldBytes, OpeningAssumption DEF IInv, ReadSoFar, Wanted, Left
<1>3. Least(bytes_read, SAMPLE_BYTES) = Least(SAMPLE_BYTES, Len(held.bytes))
  BY <1>2 DEF Least
<1>4. (bytes_read > SAMPLE_BYTES) <=> Len(held.bytes) > SAMPLE_BYTES
  BY <1>2
<1>5. Least(bytes_read, SAMPLE_BYTES) \in 0 .. Len(held.bytes)
  BY <1>2 DEF Least
<1>6. sample' \in Seq(Bytes)
  BY <1>1, <1>2, <1>5, StartOf
<1>7. TypeOK'
  BY <1>1, <1>6 DEF IInv, TypeOK
<1>8. SampleIsExact'
  BY <1>1, <1>3, <1>4 DEF SampleIsExact
<1>. QED  BY <1>1, <1>7, <1>8 DEF IInv, ReadSoFar, CodecChosen

LEMMA EndIInv ==
    ASSUME IInv, ReadFails \/ EndOfFile
    PROVE  IInv'
<1>1. /\ phase = "read"
      /\ UNCHANGED <<disk, replaced, encoding, pass, detected, held, bytes_read,
                     sampled, sample, truncated, codec>>
      /\ phase' \in {"failed", "done", "undecodable"}
      /\ phase' = "done" => pass = 2 /\ Left = 0
  BY DEF ReadFails, EndOfFile, opening, decision
<1>2. Left = 0 => bytes_read = Len(held.bytes)
  BY HeldBytes DEF IInv, Left
<1>3. TypeOK'
  BY <1>1 DEF IInv, TypeOK
<1>. QED  BY <1>1, <1>2, <1>3
             DEF IInv, TypeOK, ReadSoFar, SampleIsExact, CodecChosen, Deferred

LEMMA DetectIInv ==
    ASSUME IInv, Detect
    PROVE  IInv'
<1>1. PICK cs \in Candidates, guess \in Codecs :
          LET found == IF sampled.mark # "none" THEN "undetermined"
                       ELSE detect_encoding(cs, guess)
          IN  /\ codec' = IF sampled.mark # "none" THEN sampled.mark
                          ELSE IF found = "undetermined" THEN Deferred ELSE found
              /\ phase' = "accepted" => ~Disagrees(found)
              /\ phase' \in {"rejected", "undecodable", "accepted"}
  BY DEF Detect
<1>2. /\ phase = "detect"
      /\ UNCHANGED <<disk, replaced, encoding, pass, detected, held, bytes_read, sampled,
                     sample, truncated>>
  BY DEF Detect, opening
<1>3. detect_encoding(cs, guess) \in {guess, "undetermined"}
  BY DEF detect_encoding
<1>4. sampled.mark \in Marks /\ encoding \in {"utf-8", "cp1250"}
  BY DEF IInv, TypeOK, Content
<1>5. codec' \in Codecs \cup (Marks \ {"none"})
  BY <1>1, <1>3, <1>4 DEF Deferred, Codecs, Marks
<1>6. phase' = "accepted" /\ sampled.mark = "none" => codec' \in {encoding, Deferred, "ascii"}
  BY <1>1, <1>3 DEF Disagrees
<1>7. TypeOK'
  BY <1>1, <1>2, <1>5 DEF IInv, TypeOK
<1>8. pass # 2
  BY <1>2 DEF IInv, ReadSoFar
<1>. QED  BY <1>1, <1>2, <1>6, <1>7, <1>8
             DEF IInv, TypeOK, ReadSoFar, SampleIsExact, CodecChosen, Deferred

LEMMA CheckHeaderIInv ==
    ASSUME IInv, CheckHeader
    PROVE  IInv'
<1>1. /\ phase = "accepted" /\ phase' \in {"rejected", "sniff"} /\ pass' \in {1, 2}
      /\ UNCHANGED <<disk, replaced, encoding, detected, held, bytes_read, sampled, sample,
                     truncated, codec>>
  BY DEF CheckHeader, decision, IInv, TypeOK
<1>2. TypeOK'
  BY <1>1 DEF IInv, TypeOK
<1>. QED  BY <1>1, <1>2
             DEF IInv, TypeOK, ReadSoFar, SampleIsExact, CodecChosen, Deferred

LEMMA ReplaceIInv ==
    ASSUME IInv, Replace
    PROVE  IInv'
<1>1. TypeOK'
  BY OpeningAssumption DEF IInv, TypeOK, Replace, opening, decision
<1>. QED  BY <1>1
             DEF IInv, ReadSoFar, SampleIsExact, CodecChosen, Deferred, Replace,
                 opening, decision

(* The invariant of the opening holds in every state. *)
THEOREM OpeningInvariant == Spec => []IInv
<1>1. Init => IInv
  BY InitIInv
<1>2. IInv /\ [Next]_vars => IInv'
  <2>1. ASSUME IInv, UNCHANGED vars
        PROVE  IInv'
    BY <2>1
       DEF vars, opening, decision, IInv, TypeOK, ReadSoFar, SampleIsExact,
           CodecChosen,
       Deferred
  <2>. QED  BY <2>1, SniffIInv, OpenIInv, ReadChunkIInv, SampleReadIInv, EndIInv,
               DetectIInv,
               CheckHeaderIInv, ReplaceIInv DEF Next
<1>. QED  BY <1>1, <1>2, PTL DEF Spec

(* The variables keep their types; no reader is past the end of its file.  *)
THEOREM OpeningTypes == Spec => []TypeOK
<1>1. IInv => TypeOK
  BY DEF IInv
<1>. QED  BY <1>1, OpeningInvariant, PTL

(* The guard stops a reader with the first byte beyond the ceiling, and    *)
(* only then, whatever the sizes of chunks, reads and files.               *)
THEOREM GuardIsExact == Spec => []CeilingIsExact
<1>1. IInv => CeilingIsExact
  BY HeldBytes, OpeningAssumption DEF IInv, ReadSoFar, CeilingIsExact
<1>. QED  BY <1>1, OpeningInvariant, PTL

(* The sample is the start of one file, and truncated tells whether it is  *)
(* all of it.                                                              *)
THEOREM SampleExact == Spec => []SampleIsExact
<1>1. IInv => SampleIsExact
  BY DEF IInv
<1>. QED  BY <1>1, OpeningInvariant, PTL

(* No text is read in an encoding the config does not declare, unless the  *)
(* sample was marked.                                                      *)
THEOREM OnlyDeclaredText == Spec => []TextIsAsDeclared
<1>1. IInv => TextIsAsDeclared
  BY DEF IInv, CodecChosen, TextIsAsDeclared
<1>. QED  BY <1>1, OpeningInvariant, PTL
=============================================================================
