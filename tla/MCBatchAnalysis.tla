--------------------------- MODULE MCBatchAnalysis ---------------------------
EXTENDS BatchAnalysis
\* "large" is one block that is cut over two sections, "small" one short block.
MCBlocks == [c \in Contents |-> CASE c = "large" -> <<<<2, 2>>>>
                                  [] c = "small" -> <<<<1>>>>
                                  [] OTHER -> << >>]
MCReplies == {<< >>, <<[at |-> 1, ok |-> TRUE, text |-> "thin"]>>}
\* "bomb" is named as a text and is an archive.
MCTraits == [c \in Contents |-> IF c = "bomb" THEN {"bomb"} ELSE {}]
MCExtension == [c \in Contents |-> "txt"]
MCProbe == [c \in Contents |-> IF c = "bomb" THEN "epub" ELSE NoFormat]
MCInputs == {<<"large", "small">>, <<"small", "small">>, <<"bomb", "small">>}
Bare == [c \in Contents |-> NoRaw]
MCRaw == {Bare,
          [Bare EXCEPT !["small"] = [original |-> "large", manifest |-> "small", map |-> Nothing]],
          [Bare EXCEPT !["small"] = [original |-> Nothing, manifest |-> "small", map |-> "small"]]}
==============================================================================
