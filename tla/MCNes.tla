-------------------------------- MODULE MCNes --------------------------------
(***************************************************************************)
(* Bytes as wide as they are, opcodes among the data, small banks: a ROM   *)
(* with both kinds, one with CHR only, and one of a mapper that LoadRom    *)
(* refuses.                                                                *)
(***************************************************************************)
EXTENDS NesInv
MCCpuSpace == {0, 1, 8192, 8193} \union 32768 .. 32771
MCPpuSpace == {0, 1}
MCString   == <<78, 69, 83, 0>>
MCStrings  == {<<>>, <<3, 7>>}
MCPrograms == {<<0, 0, 3, 7>>, <<1, 0>>}
Header(prg, chr, mapper) == <<78, 69, 83, 26, prg, chr, mapper, 0, 0, 0, 0, 0, 0, 0, 0, 0>>
MCRoms     == {Header(1, 1, 1) \o <<3, 4, 7, 1, 3, 7>>, Header(0, 1, 0) \o <<4, 3>>, Header(1, 1, 16)}
MCTexts    == {<<0, 1, 0, 0, Space, 0, 0, 0, 2, 0, 0>>, <<0, 2, 0, 0, 0, 0, 0, 2, 0, 0, 0, 3, 0, 7>>,
               <<0, 0, 0, 1, 0, 0, 0, 7>>, <<0, 3>>, <<0, Other>>}
=============================================================================
