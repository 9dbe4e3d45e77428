---------------------------- MODULE TLSLocalizeMC ----------------------------
(***************************************************************************)
(* A function whose entry p is the preheader of the loop h, which leaves   *)
(* to e, which calls or branches to x.  The register RAX has a wide and a  *)
(* narrow alias at its first byte; CF is a flag.                           *)
(***************************************************************************)
EXTENDS TLSLocalize

MCBlocks == {"p", "h", "e", "x"}
MCSucc == [b \in MCBlocks |->
  CASE b = "p" -> {"h"} [] b = "h" -> {"h", "e"} [] b = "e" -> {"x"} [] b = "x" -> {}]
MCBody == [L \in {"loop"} |-> {"h"}]
MCPreheader == [L \in {"loop"} |-> "p"]

MCAliases == {"rax", "al", "cf"}
MCRegister == [a \in MCAliases |-> IF a = "cf" THEN "CF" ELSE "RAX"]
MCAddress == [a \in MCAliases |-> IF a = "cf" THEN 2 ELSE 0]
MCSize == [a \in MCAliases |-> IF a = "rax" THEN 2 ELSE 1]

Ld(a) == Access("load", a)
St(a) == Access("store", a)
call == Plain("call")

Entries == {
  <<Plain("br")>>,
  <<St("rax"), call, Ld("al"), St("al"), Plain("br")>>,
  <<St("cf"), Ld("al"), call, Ld("cf"), Plain("br")>> }
Bodies == {
  <<Plain("br")>>,
  <<Ld("al"), St("rax"), Plain("br")>>,
  <<St("al"), call, Ld("rax"), Plain("br")>>,
  <<Ld("cf"), call, St("cf"), Ld("al"), Plain("br")>> }
Leavings == {
  <<Ld("rax"), Plain("br")>>,
  <<St("al"), Ld("rax"), Ld("al"), Plain("invoke")>>,
  <<Ld("cf"), St("cf"), call, Ld("cf"), St("rax"), Plain("br")>> }
Ends == { <<Plain("ret")>>, <<St("al"), Ld("rax"), St("al"), Plain("ret")>> }

MCPrograms ==
  {[b \in MCBlocks |-> CASE b = "p" -> p [] b = "h" -> h [] b = "e" -> e [] b = "x" -> x] :
     p \in Entries, h \in Bodies, e \in Leavings, x \in Ends}
=============================================================================
