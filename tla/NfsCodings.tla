----------------------------- MODULE NfsCodings -----------------------------
(***************************************************************************)
(* The layouts of the arguments and of the result of each procedure, in    *)
(* the repository's three codings and in RFC 1813.                         *)
(***************************************************************************)
CONSTANTS   \* the types of XdrWire
    u32, u64, boolean, string, opaque, bytes, dataCount, verfOpaque, Unread,
    Junk, Words(_), Enum(_), Local(_), Opt(_), OptLocal(_),
    Flagged(_, _, _, _), TimeHow(_), Sentinel(_), Bare(_), Lost(_),
    When(_, _, _), List(_), Struct(_)

Cpp == INSTANCE NfsTypesCpp
Tirpc == INSTANCE NfsXdrTirpc
C == INSTANCE NfsXdrC
Rfc == INSTANCE Rfc1813

ArgsOf(c) == CASE c = "native" -> Cpp!args
               [] c = "tirpc" -> Tirpc!args
               [] c = "c" -> C!args
               [] c = "rfc" -> Rfc!args
ResultsOf(c) == CASE c = "native" -> Cpp!res
                  [] c = "tirpc" -> Tirpc!res
                  [] c = "c" -> C!res
                  [] c = "rfc" -> Rfc!res

=============================================================================
