------------------------------ MODULE MCRobot ------------------------------
(***************************************************************************)
(* The nine commands and a text that neither sketch knows; the two commands*)
(* to the left are cut into two pbufs.                                     *)
(***************************************************************************)
EXTENDS Robot

MCPayload == [S |-> << <<"S">> >>, F |-> << <<"F">> >>, B |-> << <<"B">> >>,
              L |-> << <<"L">> >>, R |-> << <<"R">> >>,
              LF |-> << <<"L">>, <<"F">> >>, RF |-> << <<"R", "F">> >>,
              LB |-> << <<"L">>, <<"B">> >>, RB |-> << <<"R", "B">> >>,
              X |-> << <<"X">> >>]
MCCommand == DOMAIN MCPayload
MCChars == [c \in MCCommand |-> FlattenSeq(MCPayload[c])]
MCByte == {"S", "F", "B", "L", "R", "X"}
MCSource == [c \in MCCommand |-> "app"]
MCReads == {255}
=============================================================================
