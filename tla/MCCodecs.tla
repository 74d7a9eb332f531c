------------------------------- MODULE MCCodecs -------------------------------
\* Names with nothing, a letter, "$d", "a." and a byte that begins no UTF-8 text; texts
\* of one letter, of two bytes, a stray byte, and one that overflows IntMax; and all
\* short texts over the bytes at which isLegalUTF8 changes its mind.
EXTENDS Codecs

MCNames == { << >>, << 97 >>, << 36, 100 >>, << 97, 46 >>, << 200 >> }

MCTexts == { << 98 >>, << 195, 169 >>, << 128 >>, [i \in 1..40 |-> 98] }

Edges == { 98, 127, 128, 143, 144, 159, 160, 191, 192, 193, 194, 223, 224, 237, 239, 240,
           244, 245 }

MCSamples == UNION { [1..n -> Edges] : n \in 1..3 }
             \union { s \in [1..4 -> {127, 128, 143, 144, 191, 240, 244, 245}] : TRUE }

MCNicks == { << 97 >>, << 200, 97 >>, [i \in 1..8 |-> 98], [i \in 1..20 |-> 98] }

MCPairs == { << t, t >> : t \in {"Role", "Item", "SoulItem", "RegisterServer"} }
           \union { << "Role", "Item" >>, << "Item", "Role" >>,
                    << "RegisterServer", "SoulItem" >> }

MCInts == { -1, 300 }

MCStrings == { << 97 >> }
================================================================================
