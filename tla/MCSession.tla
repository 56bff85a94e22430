----------------------------- MODULE MCSession -----------------------------
(***************************************************************************)
(* WSSession with a pair of frames at the ends of the number ranges: an    *)
(* event, and a frame of another type; and with three frames it does not   *)
(* expect.                                                                 *)
(***************************************************************************)
EXTENDS WSSession

MCFrames ==
  {Frame(2 ^ Width - 1, 0, -1, FrameMethodData, <<Header(KeyType, FrameTypeEvent)>>, <<>>),
   Frame(0, 2 ^ Group, 2 ^ (Width \div 2 - 1) - 1, FrameMethodData,
         <<Header(<<5>>, <<2 * 2 ^ Group - 1>>), Header(KeyType, <<9>>)>>, <<4>>)}

\* A wire type the codec does not know, another method, and a payload whose
\* length has all bits set.
Unknown == pbVarint(10 * 8 + 5)
Upgrade == marshalFrame(Frame(1, 1, 1, 2, <<>>, <<>>))
Corrupted == pbVarint(8 * 8 + LenDelim) \o pbVarint(2 ^ Width - 1)
MCForeign == {Unknown, Upgrade, Corrupted}

\* The first failure counts, inside and outside of a header; a length past the
\* end is an error, and so is a varint that never ends.
InHeader(bytes) == pbBytes(5, bytes)
ASSUME CodecFails ==
  /\ unmarshalFrame(Unknown) = Bad
  /\ unmarshalFrame(Corrupted) = Panic
  /\ unmarshalFrame(Unknown \o Corrupted) = Bad
  /\ unmarshalFrame(InHeader(Corrupted)) = Panic
  /\ unmarshalFrame(InHeader(pbUint64(1, 0) \o Corrupted)) = Bad
  /\ unmarshalFrame(InHeader(Unknown) \o Corrupted) = Bad
  /\ unmarshalFrame(pbVarint(8 * 8 + LenDelim) \o pbVarint(100)) = Bad
  /\ unmarshalFrame(<<2 * Base - 1, 2 * Base - 1>>) = Bad
=============================================================================
