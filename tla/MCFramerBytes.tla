--------------------------- MODULE MCFramerBytes ----------------------------
(***************************************************************************)
(* Segments from which headers, bodies and stray bytes can be put together *)
(* in every cut: half headers, the payload lengths 0 and 1, a length field *)
(* (0x01FE) that itself reads as a header, a whole frame whose body is a   *)
(* version byte, and single bytes.                                         *)
(***************************************************************************)
EXTENDS FramerBytes

FirstHalf  == <<1, 254, 128, 1>>
Length0    == <<0, 0, 0, 0>>
Length1    == <<0, 0, 0, 1>>
LengthTrap == <<0, 0, 1, 254>>

MCSegments ==
  { FirstHalf, Length0, Length1, LengthTrap,
    FirstHalf \o Length1 \o <<1>>, <<1>>, <<254, 0>> }

=============================================================================
