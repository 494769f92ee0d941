----------------------------- MODULE MCConsole ------------------------------
(* An instance of Console for TLC: words of two nibbles, a screen of two   *)
(* rows of three, cursor registers that hold two bits.                     *)
EXTENDS Console

WordsMC == {0, 9, 10, 90, 127, 128, 200, 255}
StringsMC == { <<>>, <<65, 66, 67>>, NULL }

PiecesMC ==
    {Text(65), Escape(PERCENT), Escape(113), Dangling(<<PERCENT>>), Dangling(<<PERCENT, HASH>>)}
        \cup { Conversion(spec, FALSE, v) : spec \in {"d", "i", "u", "p"}, v \in WordsMC }
        \cup { Conversion(spec, alternate, v) :
                    spec \in {"x", "X"}, alternate \in BOOLEAN, v \in WordsMC }
        \cup { Conversion("s", FALSE, string) : string \in StringsMC }
        \cup { Conversion("c", FALSE, 65) }

(* A text with a newline, one that is cut, a character that ends it.       *)
PrintsMC ==
    { <<Text(65), Text(NEWLINE), Conversion("u", FALSE, 10)>>,
      <<Conversion("d", FALSE, 128), Conversion("s", FALSE, <<65, 66>>), Text(67)>>,
      <<Text(66), Conversion("c", FALSE, 0), Text(67)>> }
=============================================================================
