--------------------------- MODULE MCArrowStream ---------------------------
(* A plain and a piped stream that share one connection.                    *)
EXTENDS ArrowStream

CONSTANTS s1, s2, c1

PlainFirst == consumer[s1].at = "new" => consumer[s2].at = "new"
=============================================================================
