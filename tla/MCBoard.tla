------------------------------- MODULE MCBoard -------------------------------
(***************************************************************************)
(* Instances of Board for TLC.  A greeting as wide as the line is followed *)
(* by a shorter one; a message may end in '\n', whose high nibble is 0,    *)
(* and in '3', which looks like the first byte of lcd_init().              *)
(***************************************************************************)
EXTENDS Board

MCMessages ==
  {[alert |-> << <<2, 1>>, <<3, 3>> >>, rest |-> << <<0, 10>> >>, led |-> 3],
   [alert |-> << <<2, 1>> >>, rest |-> << <<0, 10>> >>, led |-> 4],
   [alert |-> << >>, rest |-> <<>>, led |-> 0]}

MCLeftovers == { <<>>, << <<7, 15>>, <<8, 0>> >> }

MCGreetings == << << <<4, 8>>, <<5, 3>> >>, << <<6, 9>> >>, << <<7, 1>> >>, << <<4, 8>> >> >>
=============================================================================
