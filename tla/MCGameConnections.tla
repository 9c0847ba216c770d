-------------------------- MODULE MCGameConnections --------------------------
(***************************************************************************)
(* A small instance of GameConnections.  The telemetry bytes are chosen so    *)
(* that what is enciphered hits the separators: with the key's first byte    *)
(* 'T' (84), 94, 105 and 121 become a newline, an equals sign and a dash; with *)
(* its second, 'h' (104), 98, 85 and 69 do.                                  *)
(***************************************************************************)
EXTENDS GameConnections

MCKey == <<84, 104>>

Enciphered(text) == [key |-> 84, value |-> text]
Printed(bytes)   == [key |-> 65, value |-> bytes]

MCEvents ==
    {<<>>,
     <<Printed(<<61>>)>>,
     <<Enciphered(<<94, 85, 121>>)>>,
     <<Enciphered(<<105, 98>>)>>,
     <<Enciphered(<<>>), Printed(<<45>>)>>}
==============================================================================
