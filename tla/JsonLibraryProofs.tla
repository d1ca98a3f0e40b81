------------------------- MODULE JsonLibraryProofs -------------------------
(***************************************************************************)
(* What JsonLibraryCalls promises, for every source and in whatever order  *)
(* the calls come: the first error of a text stays, and an answer is no    *)
(* exactly when there is an error.                                         *)
(*                                                                         *)
(* The second needs to know what a text is ready for when its client has   *)
(* waited: after it was said to be done it has a root, and after it was    *)
(* built it has a definition.                                              *)
(***************************************************************************)
EXTENDS JsonLibraryCalls, TLAPS

Errors == {"none", "ast", "meta", "attr", "lib", "oper", "crash", "fault"}

Libs ==
  [impl : {"text", "sobj"}, stat : {"ok", "error"}, error : Errors,
   ast : {"none", "open", "whole", "root"}, doneParse : BOOLEAN, doneBuild : BOOLEAN,
   def : {NoDef, source.def}, flat : BOOLEAN]

(* The status tells of the error. *)
Fits(l) == l \in Libs /\ (l.stat = "error" <=> l.error # "none")

(* A text after its client has waited for what it then asked. *)
Ready(l) ==
  l.error = "none" => (l.doneParse => l.ast = "root") /\ (l.doneBuild => l.def # NoDef)

(* An error, once there, stays; that of a text stays the same. *)
Follows(k, l) ==
  /\ Fits(k) /\ k.impl = l.impl
  /\ l.error # "none" => k.error # "none" /\ (l.impl = "text" => k.error = l.error)

-----------------------------------------------------------------------------
LEMMA FailFits ==
  ASSUME NEW l, Fits(l), NEW e \in Errors \ {"none"}
  PROVE  /\ Fits(Fail(l, e)) /\ Fail(l, e).impl = l.impl /\ Fail(l, e).error = e
         /\ Fail(l, e).stat = "error"
BY DEF Fits, Fail, Libs, Errors

LEMMA TextParseKeeps ==
  ASSUME NEW l, Fits(l), NEW piece
  PROVE  /\ Follows(TextParse(l, piece), l)
         /\ Ready(l) => Ready(TextParse(l, piece))
         /\ piece = "text" /\ l.ast = "none" /\ TextParse(l, piece).error = "none" =>
              TextParse(l, piece).ast = "whole"
         /\ TextParse(l, piece).doneParse = l.doneParse
<1> DEFINE m == IF l.ast = "none" THEN [l EXCEPT !.ast = "open"] ELSE l
           p == TextParse(l, piece)
<1>1. /\ Fits(m) /\ m.impl = l.impl /\ m.error = l.error /\ m.doneParse = l.doneParse
      /\ m.doneBuild = l.doneBuild /\ m.def = l.def /\ m.stat = l.stat
      /\ l.ast = "root" => m.ast = "root"
      /\ m.ast = "root" => l.ast = "root"
      /\ l.ast = "none" => m.ast = "open"
  BY DEF Fits, Libs
<1>2. \/ p = m
      \/ l.stat = "ok" /\ m.ast = "open" /\ p = [m EXCEPT !.ast = "whole"]
      \/ l.stat = "ok" /\ p = Fail(m, "ast")
  BY DEF TextParse
<1> HIDE DEF m, p
<1>3. CASE p = m
  <2>1. l.error = "none" /\ l.ast = "none" => piece # "text"
    <3>1. SUFFICES ASSUME l.error = "none", l.ast = "none", piece = "text" PROVE FALSE
      OBVIOUS
    <3>2. p \in {[m EXCEPT !.ast = "whole"], Fail(m, "ast")}
      BY <1>1, <3>1 DEF TextParse, p, m, Fits, Libs
    <3>3. CASE p = [m EXCEPT !.ast = "whole"]
      BY <1>1, <1>3, <3>1, <3>3 DEF Fits, Libs
    <3>4. CASE p = Fail(m, "ast")
      <4>1. p.error = "ast"
        BY <1>1, <3>4, FailFits DEF Errors
      <4> QED BY <1>1, <1>3, <3>1, <4>1
    <3> QED BY <3>2, <3>3, <3>4
  <2>2. Follows(p, l) /\ (Ready(l) => Ready(p)) /\ p.doneParse = l.doneParse
    BY <1>1, <1>3 DEF Follows, Ready
  <2> QED BY <1>1, <1>3, <2>1, <2>2 DEF p
<1>4. CASE l.stat = "ok" /\ m.ast = "open" /\ p = [m EXCEPT !.ast = "whole"]
  <2>1. /\ Fits(p) /\ p.impl = m.impl /\ p.error = m.error /\ p.doneParse = m.doneParse
        /\ p.doneBuild = m.doneBuild /\ p.def = m.def /\ p.ast = "whole"
    BY <1>1, <1>4 DEF Fits, Libs
  <2>2. Ready(l) => Ready(p)
    BY <1>1, <1>4, <2>1 DEF Ready
  <2> QED BY <1>1, <2>1, <2>2 DEF Follows, p
<1>5. CASE l.stat = "ok" /\ p = Fail(m, "ast")
  <2>1. Fits(p) /\ p.impl = m.impl /\ p.error = "ast"
    BY <1>1, <1>5, FailFits DEF Errors
  <2>2. l.error = "none"
    BY <1>5 DEF Fits
  <2>3. p.doneParse = m.doneParse
    BY <1>1, <1>5 DEF Fail, Fits, Libs
  <2> QED BY <1>1, <2>1, <2>2, <2>3 DEF Follows, Ready, p
<1> QED BY <1>2, <1>3, <1>4, <1>5

LEMMA TextParseDoneKeeps ==
  ASSUME NEW l, Fits(l)
  PROVE  /\ Follows(TextParseDone(l), l)
         /\ Ready(l) /\ (l.stat = "ok" => l.ast # "none") => Ready(TextParseDone(l))
         /\ l.error = "none" /\ l.ast = "whole" /\ ~l.doneParse =>
              HasTree(TextParseDone(l)) /\ TextParseDone(l).ast = "root"
<1> DEFINE m == IF l.ast = "none" \/ l.stat # "ok" THEN l
                ELSE IF l.ast = "whole" THEN [l EXCEPT !.ast = "root"]
                ELSE Fail(l, "ast")
           p == TextParseDone(l)
<1>1. CASE l.doneParse
  BY <1>1 DEF TextParseDone, Follows
<1>2. CASE ~l.doneParse
  <2>1. /\ Fits(m) /\ m.impl = l.impl /\ m.doneBuild = l.doneBuild /\ m.def = l.def
        /\ l.error # "none" => m.error = l.error
        /\ m.error = "none" => l.stat = "ok" /\ l.error = "none" /\ m.stat = "ok"
        /\ m.error = "none" /\ l.ast # "none" => m.ast = "root"
        /\ l.error = "none" /\ l.ast = "whole" => m.error = "none"
    <3>1. CASE l.ast = "none" \/ l.stat # "ok"
      <4>1. m = l
        BY <3>1
      <4> QED BY <3>1, <4>1 DEF Fits, Libs
    <3>2. CASE l.ast = "whole" /\ l.stat = "ok"
      <4>1. m = [l EXCEPT !.ast = "root"]
        BY <3>2
      <4> HIDE DEF m
      <4> QED BY <3>2, <4>1 DEF Fits, Libs
    <3>3. CASE ~(l.ast = "none" \/ l.stat # "ok") /\ l.ast # "whole"
      <4>1. m = Fail(l, "ast")
        BY <3>3
      <4> HIDE DEF m
      <4>2. Fits(m) /\ m.impl = l.impl /\ m.error = "ast" /\ l.error = "none"
        BY <3>3, <4>1, FailFits DEF Fits, Libs, Errors
      <4>3. m.doneBuild = l.doneBuild /\ m.def = l.def
        BY <4>1 DEF Fail, Fits, Libs
      <4> QED BY <3>3, <4>2, <4>3
    <3> HIDE DEF m
    <3> QED BY <3>1, <3>2, <3>3
  <2>2. p = [m EXCEPT !.doneParse = TRUE]
    BY <1>2 DEF TextParseDone
  <2> HIDE DEF m, p
  <2>3. /\ Fits(p) /\ p.impl = m.impl /\ p.error = m.error /\ p.ast = m.ast /\ p.doneParse
        /\ p.doneBuild = m.doneBuild /\ p.def = m.def /\ p.stat = m.stat
    BY <2>1, <2>2 DEF Fits, Libs
  <2>4. Ready(l) /\ (l.stat = "ok" => l.ast # "none") => Ready(p)
    BY <2>1, <2>3 DEF Ready
  <2>5. l.error = "none" /\ l.ast = "whole" => HasTree(p) /\ p.ast = "root"
    BY <2>1, <2>3 DEF HasTree
  <2> QED BY <2>1, <2>3, <2>4, <2>5 DEF Follows, p
<1> QED BY <1>1, <1>2

LEMMA ValidateBaseKeeps ==
  ASSUME NEW l, Fits(l)
  PROVE  LET v == TextValidateBase(l) IN
         /\ Follows(v, l) /\ (Ready(l) => Ready(v))
         /\ v.error = "none" => v = l
         /\ IsValid(l) => v.error = "none"
         /\ HasTree(l) => (IsValid(l) <=> v.error = "none")
<1> DEFINE v == TextValidateBase(l)
<1>1. \/ v = l
      \/ HasTree(l) /\ v = Fail(l, "crash")
      \/ HasTree(l) /\ v = Fail(l, "meta")
      \/ HasTree(l) /\ v = [l EXCEPT !.error = "none"]
  BY DEF TextValidateBase
<1>2. HasTree(l) => l.stat = "ok" /\ l.error = "none"
  BY DEF HasTree, Fits
<1>3. IsValid(l) <=> HasTree(l) /\ v.error = "none"
  BY DEF IsValid
<1> HIDE DEF v
<1>4. CASE v = l
  BY <1>3, <1>4 DEF Follows, v
<1>5. CASE HasTree(l) /\ v \in {Fail(l, "crash"), Fail(l, "meta")}
  <2>1. Fits(v) /\ v.impl = l.impl /\ v.error # "none"
    BY <1>5, FailFits DEF Errors
  <2> QED BY <1>2, <1>3, <1>5, <2>1 DEF Follows, Ready, v
<1>6. CASE HasTree(l) /\ v = [l EXCEPT !.error = "none"]
  <2>1. v = l
    BY <1>2, <1>6 DEF Fits, Libs
  <2> QED BY <1>4, <2>1
<1> QED BY <1>1, <1>4, <1>5, <1>6

LEMMA TextBuildKeeps ==
  ASSUME NEW l, Fits(l)
  PROVE  LET b == TextBuild(l) IN
         /\ Follows(b, l)
         /\ Ready(l) /\ (l.stat = "ok" => HasTree(l)) =>
              Ready(b) /\ (b.error = "none" => b.def # NoDef)
<1> DEFINE v == TextValidateBase(l)  b == TextBuild(l)
           m == IF ~IsValid(l) THEN v
                ELSE IF source.def = NoDef THEN Fail(l, "fault")
                ELSE IF source.sound THEN [l EXCEPT !.def = source.def]
                ELSE Fail(l, "attr")
<1>1. CASE l.error # "none" \/ l.doneBuild
  <2>1. b = l
    BY <1>1 DEF TextBuild
  <2>2. l.error = "none" => l.doneBuild
    BY <1>1 DEF Fits, Libs
  <2> QED BY <2>1, <2>2 DEF Follows, Ready
<1>2. CASE ~(l.error # "none" \/ l.doneBuild)
  <2>1. b = [m EXCEPT !.doneBuild = TRUE]
    BY <1>2 DEF TextBuild
  <2>2. /\ Follows(v, l) /\ (v.error = "none" => v = l)
        /\ HasTree(l) => (IsValid(l) <=> v.error = "none")
    BY ValidateBaseKeeps
  <2>3. \/ ~IsValid(l) /\ m = v
        \/ m \in {Fail(l, "fault"), Fail(l, "attr")}
        \/ source.def # NoDef /\ m = [l EXCEPT !.def = source.def]
    OBVIOUS
  <2> HIDE DEF m, v, b
  <2>4. l.error = "none" /\ l.stat = "ok"
    BY <1>2 DEF Fits, Libs
  <2>5. /\ Fits(m) /\ m.impl = l.impl
        /\ m.error = "none" /\ HasTree(l) => m.def # NoDef /\ m.ast = l.ast
    <3>1. CASE ~IsValid(l) /\ m = v
      BY <2>2, <3>1 DEF Follows
    <3>2. CASE m \in {Fail(l, "fault"), Fail(l, "attr")}
      <4>1. Fits(m) /\ m.impl = l.impl /\ m.error # "none"
        BY <3>2, FailFits DEF Errors
      <4> QED BY <4>1
    <3>3. CASE source.def # NoDef /\ m = [l EXCEPT !.def = source.def]
      BY <3>3 DEF Fits, Libs
    <3> QED BY <2>3, <3>1, <3>2, <3>3
  <2>6. /\ Fits(b) /\ b.impl = m.impl /\ b.error = m.error /\ b.def = m.def
        /\ b.ast = m.ast
    BY <2>1, <2>5 DEF Fits, Libs
  <2>7. Ready(l) /\ HasTree(l) => l.ast = "root"
    BY <2>4 DEF Ready, HasTree
  <2> QED BY <2>4, <2>5, <2>6, <2>7 DEF Follows, Ready, b
<1> QED BY <1>1, <1>2

LEMMA CheckAttrsKeep ==
  ASSUME NEW l, Fits(l)
  PROVE  LET c == CheckAttrs(l) IN
         /\ Follows(c, l) /\ (Ready(l) => Ready(c))
         /\ c.error = "none" => c = l
<1> DEFINE c == CheckAttrs(l)
<1>1. c = l \/ (l.error = "none" /\ c = Fail(l, "attr"))
  BY DEF CheckAttrs, IsBuilt, Def
<1> HIDE DEF c
<1>2. CASE c = l
  BY <1>2 DEF Follows, c
<1>3. CASE l.error = "none" /\ c = Fail(l, "attr")
  <2>1. Fits(c) /\ c.impl = l.impl /\ c.error = "attr"
    BY <1>3, FailFits DEF Errors
  <2> QED BY <1>3, <2>1 DEF Follows, Ready, c
<1> QED BY <1>1, <1>2, <1>3

LEMMA SpecNameKeeps ==
  ASSUME NEW l, Fits(l), IsBuilt(l), NEW name
  PROVE  LET n == SpecName(l, name) IN
         /\ Follows(n, l) /\ (Ready(l) => Ready(n))
         /\ n.error = "none" => n = l
<1> DEFINE n == SpecName(l, name)
<1>1. n = l \/ n = Fail(l, "lib")
  BY DEF SpecName
<1>2. l.error = "none"
  BY DEF IsBuilt, Def
<1> HIDE DEF n
<1>3. CASE n = l
  BY <1>3 DEF Follows, n
<1>4. CASE n = Fail(l, "lib")
  <2>1. Fits(n) /\ n.impl = l.impl /\ n.error = "lib"
    BY <1>4, FailFits DEF Errors
  <2> QED BY <1>2, <2>1 DEF Follows, Ready, n
<1> QED BY <1>1, <1>3, <1>4

-----------------------------------------------------------------------------
LibInv ==
  /\ IsSource(source) /\ Fits(lib) /\ (lib.impl = "text" <=> source.kind = "text")
  /\ IsFresh => lib = New(source)
  /\ ~early => IF lib.impl = "text" THEN Ready(lib)
               ELSE lib.error = "none" => lib.def # NoDef
  /\ ~early => (answer.yes <=> lib.error = "none") \/ IsFresh

(* What a call makes of the library, with its answer. *)
Fair(l, yes, asks) ==
  /\ Follows(l, lib)
  /\ lib.impl = "text" /\ lib.error # "none" => ~yes
  /\ ~early /\ ~asks =>
       /\ IF lib.impl = "text" THEN Ready(l) ELSE l.error = "none" => l.def # NoDef
       /\ yes <=> l.error = "none"

LEMMA BuildIsFair ==
  ASSUME LibInv
  PROVE  LET b == Build(lib) IN
         /\ Follows(b, lib)
         /\ ~early /\ (lib.impl = "text" /\ lib.stat = "ok" => HasTree(lib)) =>
              /\ IF lib.impl = "text" THEN Ready(b) ELSE b.error = "none" => b.def # NoDef
              /\ b.error = "none" => b.def # NoDef
<1>1. CASE lib.impl = "text"
  <2>1. Build(lib) = TextBuild(lib)
    BY <1>1 DEF Build
  <2> QED BY <1>1, <2>1, TextBuildKeeps DEF LibInv
<1>2. CASE lib.impl # "text"
  <2>1. Build(lib) = lib
    BY <1>2 DEF Build
  <2> QED BY <1>2, <2>1 DEF LibInv, Follows
<1> QED BY <1>1, <1>2

(* The type of what was built, or its attributes, is asked for.            *)
LEMMA BuiltIsFair ==
  ASSUME LibInv, NEW c, c \notin {"parse", "parse_done", "load"},
         NEW l, Follows(l, Build(lib)), Ready(Build(lib)) => Ready(l),
         l.error = "none" => l.def = Build(lib).def
  PROVE  Fair(l, IsBuilt(l), AsksEarly(c))
<1> DEFINE b == Build(lib)  asks == AsksEarly(c)
<1>1. /\ Follows(b, lib) /\ Fits(b)
      /\ ~early /\ (lib.impl = "text" /\ lib.stat = "ok" => HasTree(lib)) =>
           /\ IF lib.impl = "text" THEN Ready(b) ELSE b.error = "none" => b.def # NoDef
           /\ b.error = "none" => b.def # NoDef
  BY BuildIsFair DEF Follows
<1>2. ~asks => (lib.impl = "text" /\ lib.stat = "ok" => HasTree(lib))
  BY DEF AsksEarly
<1>3. IsBuilt(l) <=> l.error = "none" /\ l.def # NoDef
  BY DEF IsBuilt, Def
<1>4. Follows(l, lib) /\ (l.error = "none" => b.error = "none")
  BY <1>1 DEF Follows
<1>5. lib.error # "none" => l.error # "none"
  BY <1>4 DEF Follows
<1> HIDE DEF b, asks
<1>6. Ready(b) => Ready(l)
  BY DEF b
<1>7. l.error = "none" => l.def = b.def
  BY DEF b
<1> QED BY <1>1, <1>2, <1>3, <1>4, <1>5, <1>6, <1>7 DEF Fair, asks

LEMMA FollowsOn ==
  ASSUME NEW k, NEW l, NEW j, Follows(k, l), Follows(l, j)
  PROVE  Follows(k, j)
BY DEF Follows

LEMMA ParseIsFair ==
  ASSUME LibInv, NEW piece, Parse(piece)
  PROVE  Fair(lib', answer'.yes, AsksEarly(answer'.call))
<1>1. Fits(lib)
  BY DEF LibInv
<1>2. CASE lib.impl = "text"
  <2> DEFINE l == TextParse(lib, piece)
  <2>1. lib' = l /\ answer'.yes = (l.stat = "ok")
    BY <1>2 DEF Parse, Answers
  <2> HIDE DEF l
  <2>2. Follows(l, lib) /\ (Ready(lib) => Ready(l))
    BY <1>1, TextParseKeeps DEF l
  <2>3. l.stat = "ok" <=> l.error = "none"
    BY <2>2 DEF Follows, Fits, Libs
  <2> QED BY <1>2, <2>1, <2>2, <2>3 DEF Fair, LibInv, Follows
<1>3. CASE lib.impl # "text"
  <2> DEFINE l == Fail(lib, "oper")
  <2>1. lib' = l /\ answer'.yes = (l.stat = "ok")
    BY <1>3 DEF Parse, Answers
  <2> HIDE DEF l
  <2>2. Fits(l) /\ l.impl = lib.impl /\ l.error = "oper" /\ l.stat = "error"
    BY <1>1, FailFits DEF Errors, l
  <2> QED BY <1>3, <2>1, <2>2 DEF Fair, LibInv, Follows
<1> QED BY <1>2, <1>3

LEMMA ParseDoneIsFair ==
  ASSUME LibInv, ParseDone
  PROVE  Fair(lib', answer'.yes, AsksEarly(answer'.call))
<1>1. Fits(lib)
  BY DEF LibInv
<1>2. CASE lib.impl = "text"
  <2> DEFINE l == TextParseDone(lib)
  <2>1. lib' = l /\ answer'.yes = (l.stat = "ok") /\ answer'.call = "parse_done"
    BY <1>2 DEF ParseDone, Answers
  <2> HIDE DEF l
  <2>2. Follows(l, lib) /\ (Ready(lib) /\ (lib.stat = "ok" => lib.ast # "none") => Ready(l))
    BY <1>1, TextParseDoneKeeps DEF l
  <2>3. l.stat = "ok" <=> l.error = "none"
    BY <2>2 DEF Follows, Fits, Libs
  <2>4. ~AsksEarly("parse_done") => (lib.stat = "ok" => lib.ast # "none")
    BY <1>2 DEF AsksEarly
  <2> QED BY <1>2, <2>1, <2>2, <2>3, <2>4 DEF Fair, LibInv, Follows
<1>3. CASE lib.impl # "text"
  <2> DEFINE l == Fail(lib, "oper")
  <2>1. lib' = l /\ answer'.yes = (l.stat = "ok")
    BY <1>3 DEF ParseDone, Answers
  <2> HIDE DEF l
  <2>2. Fits(l) /\ l.impl = lib.impl /\ l.error = "oper" /\ l.stat = "error"
    BY <1>1, FailFits DEF Errors, l
  <2> QED BY <1>3, <2>1, <2>2 DEF Fair, LibInv, Follows
<1> QED BY <1>2, <1>3

LEMMA ValidateIsFair ==
  ASSUME LibInv, Validate
  PROVE  Fair(lib', answer'.yes, AsksEarly(answer'.call))
<1>1. Fits(lib)
  BY DEF LibInv
<1>2. CASE lib.impl = "text"
  <2> DEFINE l == TextValidateBase(lib)  yes == IsValid(lib)
  <2>1. lib' = l /\ answer'.yes = yes /\ answer'.call = "validate"
    BY <1>2 DEF Validate, Answers
  <2> HIDE DEF l, yes
  <2>2. /\ Follows(l, lib) /\ (Ready(lib) => Ready(l))
        /\ yes => l.error = "none"
        /\ HasTree(lib) => (yes <=> l.error = "none")
    BY <1>1, ValidateBaseKeeps DEF l, yes
  <2>3. ~AsksEarly("validate") => (lib.stat = "ok" => HasTree(lib))
    BY <1>2 DEF AsksEarly
  <2>4. lib.stat # "ok" => lib.error # "none" /\ l.error # "none"
    BY <1>1, <2>2 DEF Fits, Libs, Follows
  <2>5. ~AsksEarly("validate") => (yes <=> l.error = "none")
    BY <2>2, <2>3, <2>4
  <2>6. lib.error # "none" => ~yes
    BY <2>2 DEF Follows
  <2> QED BY <1>2, <2>1, <2>2, <2>5, <2>6 DEF Fair, LibInv
<1>3. CASE lib.impl # "text"
  <2> DEFINE l == IF IsBuilt(lib) /\ ~source.valid THEN Fail(lib, "lib") ELSE lib
             yes == IsBuilt(l)
  <2>1. lib' = l /\ answer'.yes = yes
    BY <1>3 DEF Validate, Answers
  <2>2. yes <=> l.error = "none" /\ l.def # NoDef
    BY DEF IsBuilt, Def
  <2>3. l = lib \/ l = Fail(lib, "lib")
    OBVIOUS
  <2> HIDE DEF l, yes
  <2>4. /\ Fits(l) /\ l.impl = lib.impl
        /\ l = lib \/ l.error = "lib"
    BY <1>1, <2>3, FailFits DEF Errors
  <2> QED BY <1>3, <2>1, <2>2, <2>4 DEF Fair, LibInv, Follows
<1> QED BY <1>2, <1>3

LEMMA BuildingIsFair ==
  ASSUME LibInv, PrintType \/ CheckAttr \/ GenDef
  PROVE  Fair(lib', answer'.yes, AsksEarly(answer'.call))
<1> DEFINE b == Build(lib)  c == CheckAttrs(b)
<1>1. Follows(b, lib) /\ Fits(b)
  BY BuildIsFair DEF Follows
<1>2. Follows(c, b) /\ (Ready(b) => Ready(c)) /\ (c.error = "none" => c = b) /\ Fits(c)
  BY <1>1, CheckAttrsKeep DEF Follows
<1>3. Follows(b, b)
  BY <1>1 DEF Follows
<1>4. CASE PrintType
  <2>1. lib' = b /\ answer'.yes = IsBuilt(b) /\ answer'.call = "print"
    BY <1>4 DEF PrintType, Answers
  <2>2. Fair(b, IsBuilt(b), AsksEarly("print"))
    BY <1>3, BuiltIsFair
  <2> QED BY <2>1, <2>2
<1>5. CASE CheckAttr
  <2>1. lib' = c /\ answer'.yes = IsBuilt(c) /\ answer'.call = "check_attr"
    BY <1>5 DEF CheckAttr, Answers
  <2> HIDE DEF c
  <2>2. Fair(c, IsBuilt(c), AsksEarly("check_attr"))
    BY <1>2, BuiltIsFair
  <2> QED BY <2>1, <2>2
<1>6. CASE GenDef
  <2> DEFINE l == IF lib.impl = "text" THEN c ELSE b
             g == [l EXCEPT !.flat = @ \/ (lib.impl = "text" /\ IsBuilt(l))]
  <2>1. lib' = g /\ answer'.yes = IsBuilt(l) /\ answer'.call = "gen_def"
    BY <1>6 DEF GenDef, Answers
  <2>2. /\ Fits(l) /\ Follows(l, b) /\ (Ready(b) => Ready(l))
        /\ l.error = "none" => l = b
    BY <1>1, <1>2, <1>3
  <2> HIDE DEF l
  <2>3. /\ Fits(g) /\ g.impl = l.impl /\ g.error = l.error /\ g.doneParse = l.doneParse
        /\ g.doneBuild = l.doneBuild /\ g.def = l.def /\ g.ast = l.ast
    BY <2>2 DEF Fits, Libs
  <2> HIDE DEF g
  <2>4. Follows(g, b) /\ (Ready(b) => Ready(g)) /\ (g.error = "none" => g.def = b.def)
    BY <2>2, <2>3 DEF Follows, Ready
  <2>5. Fair(g, IsBuilt(g), AsksEarly("gen_def"))
    BY <2>4, BuiltIsFair
  <2>6. IsBuilt(g) <=> IsBuilt(l)
    BY <2>3 DEF IsBuilt, Def
  <2> QED BY <2>1, <2>5, <2>6 DEF Fair
<1> QED BY <1>4, <1>5, <1>6

LEMMA LoadIsFair ==
  ASSUME LibInv, IsFresh, NEW name, InitFromSpec(name)
  PROVE  Fair(lib', answer'.yes, AsksEarly(answer'.call))
<1> DEFINE l == IF lib.impl = "text" THEN TextLoad(lib) ELSE lib
           n == IF IsBuilt(l) THEN SpecName(l, name) ELSE l
<1>1. lib' = n /\ answer'.yes = IsBuilt(n) /\ lib = New(source) /\ Fits(lib)
  BY DEF InitFromSpec, Answers, LibInv
<1>2. /\ Follows(l, lib)
      /\ lib.impl = "text" => Ready(l)
      /\ l.error = "none" => l.def # NoDef
  <2>1. CASE lib.impl = "text"
    <3> DEFINE p == TextParse(lib, "text")  d == TextParseDone(p)  b == TextBuild(d)
               c == CheckAttrs(b)
    <3>1. l = c
      BY <2>1 DEF TextLoad
    <3>2. /\ lib.error = "none" /\ lib.ast = "none" /\ ~lib.doneParse /\ ~lib.doneBuild
      BY <1>1, <2>1 DEF New, NewText, NewSobj, Fail, LibInv
    <3>3. Ready(lib)
      BY <3>2 DEF Ready
    <3>4. /\ Follows(p, lib) /\ Fits(p) /\ Ready(p) /\ ~p.doneParse
          /\ p.error = "none" => p.ast = "whole"
      BY <1>1, <3>2, <3>3, TextParseKeeps DEF Follows
    <3> HIDE DEF p
    <3>5. p.stat = "ok" => p.ast = "whole"
      BY <3>4 DEF Fits
    <3>6. /\ Follows(d, p) /\ Fits(d) /\ Ready(d)
          /\ p.error = "none" => HasTree(d)
      <4>1. p.stat = "ok" => p.ast # "none"
        BY <3>5
      <4> QED BY <3>4, <4>1, TextParseDoneKeeps DEF Follows
    <3>7. d.stat = "ok" => HasTree(d)
      BY <3>6 DEF Follows, Fits
    <3> HIDE DEF d
    <3>8. Follows(b, d) /\ Fits(b) /\ Ready(b) /\ (b.error = "none" => b.def # NoDef)
      BY <3>6, <3>7, TextBuildKeeps DEF Follows
    <3> HIDE DEF b
    <3>9. Follows(c, b) /\ Ready(c) /\ (c.error = "none" => c = b)
      BY <3>8, CheckAttrsKeep
    <3> HIDE DEF c
    <3>10. Follows(c, lib)
      BY <3>4, <3>6, <3>8, <3>9, FollowsOn
    <3> QED BY <3>1, <3>8, <3>9, <3>10
  <2>2. CASE lib.impl # "text"
    <3>1. l = lib
      BY <2>2
    <3>2. lib.error = "none" => lib.def # NoDef
      BY <1>1, <2>2 DEF LibInv, IsSource, New, NewSobj, NewText, Fail
    <3> QED BY <1>1, <2>2, <3>1, <3>2 DEF Follows
  <2> QED BY <2>1, <2>2
<1> HIDE DEF l
<1>3. /\ Follows(n, l) /\ (Ready(l) => Ready(n))
      /\ n.error = "none" => n = l
  <2>1. Fits(l)
    BY <1>2 DEF Follows
  <2>2. CASE IsBuilt(l)
    BY <2>1, <2>2, SpecNameKeeps
  <2>3. CASE ~IsBuilt(l)
    BY <2>1, <2>3 DEF Follows
  <2> QED BY <2>2, <2>3
<1> HIDE DEF n
<1>4. IsBuilt(n) <=> n.error = "none" /\ n.def # NoDef
  BY DEF IsBuilt, Def
<1>5. Follows(n, lib)
  BY <1>2, <1>3, FollowsOn
<1> QED BY <1>1, <1>2, <1>3, <1>4, <1>5 DEF Fair, Follows

LEMMA NextIsFair ==
  ASSUME LibInv, LibraryNext
  PROVE  /\ Fair(lib', answer'.yes, AsksEarly(answer'.call))
         /\ source' = source /\ answer'.call # "none"
         /\ early' = (early \/ AsksEarly(answer'.call))
<1>1. CASE Call
  BY <1>1, ParseIsFair, ParseDoneIsFair, ValidateIsFair, BuildingIsFair
     DEF Call, LibraryNext, Parse, ParseDone, Validate, PrintType, CheckAttr, GenDef, Answers
<1>2. CASE IsFresh /\ \E name \in Names : InitFromSpec(name)
  BY <1>2, LoadIsFair DEF LibraryNext, InitFromSpec, Answers
<1> QED BY <1>1, <1>2 DEF LibraryNext

LEMMA LibraryBegins ==
  ASSUME LibraryInit
  PROVE  LibInv
<1>1. IsSource(source) /\ lib = New(source) /\ answer = [call |-> "none", yes |-> TRUE]
  BY DEF LibraryInit
<1>2. IsFresh
  BY <1>1 DEF IsFresh
<1>3. CASE source.kind = "text"
  <2>1. lib = NewText
    BY <1>1, <1>3 DEF New
  <2> QED BY <1>1, <1>2, <1>3, <2>1 DEF NewText, LibInv, Fits, Libs, Ready, Errors
<1>4. CASE source.kind = "sobj"
  <2> DEFINE l == [NewText EXCEPT !.impl = "sobj"]
  <2>1. lib = IF source.err # "none" THEN Fail(l, "lib") ELSE [l EXCEPT !.def = source.def]
    BY <1>1, <1>4 DEF New, NewSobj
  <2>2. Fits(l) /\ l.impl = "sobj" /\ l.error = "none"
    BY DEF NewText, Fits, Libs, Errors
  <2> HIDE DEF l
  <2>3. /\ Fits(lib) /\ lib.impl = "sobj"
        /\ lib.error = "none" => lib.def # NoDef
    <3>1. CASE source.err # "none"
      BY <2>1, <2>2, <3>1, FailFits DEF Errors
    <3>2. CASE source.err = "none"
      BY <1>1, <1>4, <2>1, <2>2, <3>2 DEF Fits, Libs, IsSource
    <3> QED BY <3>1, <3>2
  <2> QED BY <1>1, <1>2, <1>4, <2>3 DEF LibInv
<1> QED BY <1>1, <1>3, <1>4 DEF IsSource

LEMMA LibrarySteps ==
  ASSUME LibInv, [LibraryNext]_libVars
  PROVE  LibInv'
<1>1. CASE LibraryNext
  <2>1. /\ Fair(lib', answer'.yes, AsksEarly(answer'.call))
        /\ source' = source /\ answer'.call # "none"
        /\ early' = (early \/ AsksEarly(answer'.call))
    BY <1>1, NextIsFair
  <2>2. ~IsFresh'
    BY <2>1 DEF IsFresh
  <2>3. /\ Follows(lib', lib) /\ Fits(lib')
        /\ ~early' => /\ IF lib.impl = "text" THEN Ready(lib')
                         ELSE lib'.error = "none" => lib'.def # NoDef
                      /\ answer'.yes <=> lib'.error = "none"
    BY <2>1 DEF Fair, Follows
  <2>4. lib'.impl = lib.impl
    BY <2>3 DEF Follows
  <2>5. Fits(lib)' /\ IsSource(source)' /\ (~early' /\ lib.impl = "text" => Ready(lib)')
    BY <2>1, <2>3 DEF Fits, Libs, Ready, IsSource, NoDef, LibInv, Errors
  <2> QED BY <2>1, <2>2, <2>3, <2>4, <2>5 DEF LibInv
<1>2. CASE UNCHANGED libVars
  BY <1>2 DEF libVars, LibInv, IsSource, Fits, Libs, Ready, IsFresh, New, NewText, NewSobj,
     Fail, NoDef, Errors
<1> QED BY <1>1, <1>2

(* Whatever the source, and in whatever order the calls come, an answer is *)
(* no exactly when there is an error to show, of a client that asks once   *)
(* the text is whole.                                                      *)
THEOREM AnswersExplainedCorrect == LibrarySpec => []AnswersExplained
<1>1. LibraryInit => LibInv
  BY LibraryBegins
<1>2. LibInv /\ [LibraryNext]_libVars => LibInv'
  BY LibrarySteps
<1>3. LibInv => AnswersExplained
  BY DEF LibInv, Fits, AnswersExplained
<1> QED BY <1>1, <1>2, <1>3, PTL DEF LibrarySpec

(* The first error of a text is the one that the client is shown, and      *)
(* whatever it asks then is refused.                                       *)
THEOREM ErrorIsFinalCorrect == LibrarySpec => ErrorIsFinal
<1>1. LibraryInit => LibInv
  BY LibraryBegins
<1>2. LibInv /\ [LibraryNext]_libVars => LibInv'
  BY LibrarySteps
<1>3. LibInv /\ [LibraryNext]_libVars =>
        [lib.error # "none" /\ lib.impl = "text" => lib'.error = lib.error /\ ~answer'.yes]_libVars
  <2>1. LibInv /\ LibraryNext => (lib.error # "none" /\ lib.impl = "text" =>
                                    lib'.error = lib.error /\ ~answer'.yes)
    BY NextIsFair DEF Fair, Follows
  <2> QED BY <2>1
<1> QED BY <1>1, <1>2, <1>3, PTL DEF LibrarySpec, ErrorIsFinal
=============================================================================
