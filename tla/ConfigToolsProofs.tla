-------------------------- MODULE ConfigToolsProofs --------------------------
(***************************************************************************)
(* What the run checks of configtxlator and configtxgen for two processes  *)
(* over six files, for every set of them and every menu.                   *)
(*                                                                         *)
(* The steps of a run are a suffix of its program (Follows): what a run    *)
(* has opened, what it knows to be there and what it has read follow from  *)
(* how far it is, and nothing else has to be remembered.                   *)
(***************************************************************************)
EXTENDS ConfigTools, SequenceTheorems, TLAPS

Commands == Translations \cup Generations

\* What a run may have to write, the outputs of profiles that do not exist included.
Payloads ==
    {ToBeComputed} \cup {Message(Block(p)) : p \in STRING}
    \cup {Message(ChannelTx(p[1], p[2])) : p \in STRING \X STRING}

Kinds == {"require", "open", "truncate", "read", "load", "inspectBlock", "inspectChannelTx",
          "return"}

\* Files, profiles, and what is said of a flag.
Names == Files \cup STRING \cup {"missing", "unknown", "known", ""}

Step ==
    [do : Kinds, of : Names] \cup [do : {"write"}, of : Files, content : Payloads]

\* A step that may refuse the command line has let it pass.
Passed(s) ==
    /\ s.do = "require" => s.of = "known"
    /\ s.do = "load" => s.of \in Profiles

Changes(s) == s.do \in {"truncate", "write"}

LEMMA DoIs ==
    ASSUME NEW what \in Kinds, NEW of \in Names
    PROVE  Do(what, of) \in Step /\ Do(what, of).do = what /\ Do(what, of).of = of
BY DEF Do, Step

LEMMA PutIs ==
    ASSUME NEW f \in Files, NEW content \in Payloads
    PROVE  /\ Put(f, content) \in Step
           /\ Put(f, content).do = "write"
           /\ Put(f, content).of = f
           /\ Put(f, content).content = content
BY DEF Put, Step

LEMMA StepTypes ==
    /\ \A what \in Kinds, of \in Names :
          /\ Do(what, of) \in Step
          /\ Do(what, of).do = what
          /\ Do(what, of).of = of
    /\ \A f \in Files, content \in Payloads :
          /\ Put(f, content) \in Step
          /\ Put(f, content).do = "write"
          /\ Put(f, content).of = f
          /\ Put(f, content).content = content
BY DoIs, PutIs

LEMMA Joined ==
    ASSUME NEW s \in Seq(Step), NEW t \in Seq(Step), NEW u, u = s \o t,
           NEW a, a = Len(s), NEW b, b = Len(t)
    PROVE  /\ u \in Seq(Step) /\ Len(u) = a + b
           /\ \A i \in 1..a : u[i] = s[i]
           /\ \A j \in 1..b : u[a + j] = t[j]
<1>1. a \in Nat /\ b \in Nat
  BY LenProperties
<1>2. /\ u \in Seq(Step) /\ Len(u) = a + b
      /\ \A i \in 1..(a + b) : u[i] = IF i <= a THEN s[i] ELSE t[i - a]
  BY ConcatProperties
<1>3. ASSUME NEW i \in 1..a PROVE u[i] = s[i]
  BY <1>1, <1>2
<1>4. ASSUME NEW j \in 1..b PROVE u[a + j] = t[j]
  <2>1. a + j \in 1..(a + b) /\ ~(a + j <= a) /\ (a + j) - a = j
    BY <1>1
  <2> QED BY <1>2, <2>1
<1> QED BY <1>2, <1>3, <1>4

LEMMA OneStep ==
    ASSUME NEW s \in Step
    PROVE  <<s>> \in Seq(Step) /\ Len(<<s>>) = 1 /\ <<s>>[1] = s
OBVIOUS

-----------------------------------------------------------------------------
(* What the commands are made of                                           *)

LEMMA TranslationParts ==
    ASSUME NEW r \in Runs, NEW c \in Menu[r], c.tool = "configtxlator"
    PROVE  /\ c \in Translations
           /\ c.command \in {"proto_encode", "proto_decode", "compute_update"}
           /\ c.type \in Names
           /\ c.file \in [Flags -> Files \cup {""}]
           /\ c.order \in Seq(Flags)
           /\ Output(c) \in Files /\ Output(c) # ""
           /\ \E i \in 1..Len(c.order) : c.order[i] = "output"
           /\ \A i \in 1..Len(c.order) : c.file[c.order[i]] \in Files
           /\ c.command # "compute_update" => c.file["input"] \in Files
<1>1. c \in Translations
  BY MenuAssumption DEF Generations
<1>2. /\ c.command \in {"proto_encode", "proto_decode", "compute_update"}
      /\ c.type \in Names
      /\ c.file \in [Flags -> Files \cup {""}]
      /\ c.order \in Seq(Flags)
  <2>1. PICK T : T = Seq(Flags)
    OBVIOUS
  <2>2. PICK F : F = [Flags -> Files \cup {""}]
    OBVIOUS
  <2>3. c \in [tool : {"configtxlator"},
               command : {"proto_encode", "proto_decode", "compute_update"},
               file : F, order : T, type : {"missing", "unknown", "known"}]
    BY <1>1, <2>1, <2>2 DEF Translations
  <2>4. /\ c.command \in {"proto_encode", "proto_decode", "compute_update"}
        /\ c.type \in {"missing", "unknown", "known"}
        /\ c.file \in F
        /\ c.order \in T
    BY <2>3
  <2> QED BY <2>1, <2>2, <2>4 DEF Names
<1>3. /\ ToSet(c.order) = {f \in Flags : c.file[f] # ""}
      /\ c.file["output"] # ""
      /\ c.command # "compute_update" => c.file["input"] # ""
  BY <1>1, FlagsAssumption
<1>4. "output" \in Flags /\ "input" \in Flags
  BY DEF Flags
<1>5. Output(c) \in Files /\ Output(c) # ""
  BY <1>2, <1>3, <1>4 DEF Output
<1>6. ToSet(c.order) = {c.order[i] : i \in 1..Len(c.order)}
  <2>1. DOMAIN c.order = 1..Len(c.order)
    BY <1>2, LenProperties
  <2> QED BY <2>1 DEF ToSet
<1>7. \E i \in 1..Len(c.order) : c.order[i] = "output"
  <2>1. "output" \in ToSet(c.order)
    BY <1>3, <1>4
  <2> QED BY <2>1, <1>6
<1>8. ASSUME NEW i \in 1..Len(c.order) PROVE c.file[c.order[i]] \in Files
  <2>1. c.order[i] \in ToSet(c.order)
    BY <1>6
  <2>2. c.order[i] \in Flags /\ c.file[c.order[i]] # ""
    BY <2>1, <1>3
  <2> QED BY <2>2, <1>2
<1>9. c.command # "compute_update" => c.file["input"] \in Files
  BY <1>2, <1>3, <1>4
<1> QED BY <1>1, <1>2, <1>5, <1>7, <1>8, <1>9

LEMMA InputsAre ==
    ASSUME NEW r \in Runs, NEW c \in Menu[r], c.tool = "configtxlator"
    PROVE  /\ Inputs(c) \in Seq(Flags)
           /\ Len(Inputs(c)) = IF c.command = "compute_update" THEN 2 ELSE 1
           /\ c.command = "compute_update" =>
                 Inputs(c)[1] = "original" /\ Inputs(c)[2] = "updated"
           /\ c.command # "compute_update" => Inputs(c)[1] = "input"
           /\ \A i \in 1..Len(Inputs(c)) : /\ c.file[Inputs(c)[i]] \in Files \cup {""}
                                           /\ c.file[Inputs(c)[i]] \in Sources(c)
<1>1. /\ Inputs(c) \in Seq(Flags)
      /\ Len(Inputs(c)) = IF c.command = "compute_update" THEN 2 ELSE 1
      /\ c.command = "compute_update" =>
            Inputs(c)[1] = "original" /\ Inputs(c)[2] = "updated"
      /\ c.command # "compute_update" => Inputs(c)[1] = "input"
  <2>1. CASE c.command = "compute_update"
    <3>1. Inputs(c) = <<"original", "updated">>
      BY <2>1 DEF Inputs
    <3>2. "original" \in Flags /\ "updated" \in Flags
      BY DEF Flags
    <3> QED BY <2>1, <3>1, <3>2
  <2>2. CASE c.command # "compute_update"
    <3>1. Inputs(c) = <<"input">>
      BY <2>2 DEF Inputs
    <3>2. "input" \in Flags
      BY DEF Flags
    <3> QED BY <2>2, <3>1, <3>2
  <2> QED BY <2>1, <2>2
<1>2. ASSUME NEW i \in 1..Len(Inputs(c))
      PROVE  /\ c.file[Inputs(c)[i]] \in Files \cup {""}
             /\ c.file[Inputs(c)[i]] \in Sources(c)
  <2>1. Inputs(c)[i] \in Flags
    BY <1>1
  <2>2. c.file[Inputs(c)[i]] \in Files \cup {""}
    BY <2>1, TranslationParts
  <2>3. Inputs(c)[i] \in ToSet(Inputs(c))
    <3>1. DOMAIN Inputs(c) = 1..Len(Inputs(c))
      BY <1>1, LenProperties
    <3> QED BY <3>1 DEF ToSet
  <2> QED BY <2>2, <2>3 DEF Sources
<1> QED BY <1>1, <1>2

-----------------------------------------------------------------------------
(* The programs                                                            *)

\* The steps of a command line of configtxlator with m flags that reads n inputs.
IsTranslation(P, c, m, n) ==
    /\ \A i \in 1..m : P[i] = Do(IF c.order[i] = "output" THEN "truncate" ELSE "open",
                                 c.file[c.order[i]])
    /\ P[m + 1] = Do("require", c.type)
    /\ \A j \in 1..n : P[(m + 1) + j] = Do("read", c.file[Inputs(c)[j]])
    /\ P[m + n + 2] = Put(Output(c), ToBeComputed)

LEMMA TranslationProgram ==
    ASSUME NEW r \in Runs, NEW c \in Menu[r], c.tool = "configtxlator",
           NEW P, P = TranslationSteps(c),
           NEW m, m = Len(c.order), NEW n, n = Len(Inputs(c))
    PROVE  /\ m \in Nat /\ n \in Nat
           /\ P \in Seq(Step)
           /\ Len(P) = m + n + 2
           /\ IsTranslation(P, c, m, n)
<1>0. /\ m \in Nat /\ n \in Nat
      /\ DOMAIN c.order = 1..m /\ DOMAIN Inputs(c) = 1..n
  BY TranslationParts, InputsAre, LenProperties
<1>1. PICK A : A = ParseSteps(c)
  OBVIOUS
<1>2. PICK B : B = ReadSteps(c)
  OBVIOUS
<1>3. PICK x : x = Do("require", c.type)
  OBVIOUS
<1>4. PICK y : y = Put(Output(c), ToBeComputed)
  OBVIOUS
<1>5. P = ((A \o <<x>>) \o B) \o <<y>>
  BY <1>1, <1>2, <1>3, <1>4 DEF TranslationSteps
<1>6. x \in Step
  BY <1>3, StepTypes, TranslationParts DEF Kinds
<1>7. y \in Step
  <2>1. ToBeComputed \in Payloads
    BY DEF Payloads
  <2> QED BY <1>4, <2>1, StepTypes, TranslationParts
<1>8. /\ A \in Seq(Step) /\ Len(A) = m
      /\ \A i \in 1..m : A[i] = Do(IF c.order[i] = "output" THEN "truncate" ELSE "open",
                                   c.file[c.order[i]])
  <2>1. A = [i \in 1..m |-> Do(IF c.order[i] = "output" THEN "truncate" ELSE "open",
                               c.file[c.order[i]])]
    BY <1>0, <1>1 DEF ParseSteps
  <2>2. ASSUME NEW i \in 1..m PROVE A[i] \in Step
    <3>1. c.file[c.order[i]] \in Files
      BY TranslationParts
    <3>2. "truncate" \in Kinds /\ "open" \in Kinds /\ c.file[c.order[i]] \in Names
      BY <3>1 DEF Kinds, Names
    <3> QED BY <2>1, <3>1, <3>2, StepTypes
  <2>3. A \in [1..m -> Step]
    BY <2>1, <2>2
  <2> QED BY <1>0, <2>1, <2>3
<1>9. /\ B \in Seq(Step) /\ Len(B) = n
      /\ \A j \in 1..n : B[j] = Do("read", c.file[Inputs(c)[j]])
  <2>1. B = [j \in 1..n |-> Do("read", c.file[Inputs(c)[j]])]
    BY <1>0, <1>2 DEF ReadSteps
  <2>2. ASSUME NEW j \in 1..n PROVE B[j] \in Step
    <3>1. c.file[Inputs(c)[j]] \in Files \cup {""}
      BY InputsAre
    <3>2. "read" \in Kinds /\ c.file[Inputs(c)[j]] \in Names
      BY <3>1 DEF Kinds, Names
    <3> QED BY <2>1, <3>1, <3>2, StepTypes
  <2>3. B \in [1..n -> Step]
    BY <2>1, <2>2
  <2> QED BY <1>0, <2>1, <2>3
<1>10. PICK S : S = A \o <<x>>
  OBVIOUS
<1>11. PICK T : T = S \o B
  OBVIOUS
<1>12. /\ S \in Seq(Step) /\ Len(S) = m + 1
       /\ \A i \in 1..m : S[i] = A[i]
       /\ S[m + 1] = x
  <2>1. <<x>> \in Seq(Step) /\ Len(<<x>>) = 1 /\ <<x>>[1] = x
    BY <1>6, OneStep
  <2>2. /\ S \in Seq(Step) /\ Len(S) = m + 1
        /\ \A i \in 1..m : S[i] = A[i]
        /\ \A j \in 1..1 : S[m + j] = <<x>>[j]
    BY <1>8, <1>10, <2>1, Joined
  <2> QED BY <2>1, <2>2
<1>13. /\ T \in Seq(Step) /\ Len(T) = (m + 1) + n
       /\ \A i \in 1..(m + 1) : T[i] = S[i]
       /\ \A j \in 1..n : T[(m + 1) + j] = B[j]
  <2>1. PICK a : a = m + 1
    OBVIOUS
  <2>2. S \in Seq(Step) /\ Len(S) = a
    BY <1>12, <2>1
  <2>3. B \in Seq(Step) /\ Len(B) = n
    BY <1>9
  <2>4. /\ T \in Seq(Step) /\ Len(T) = a + n
        /\ \A i \in 1..a : T[i] = S[i]
        /\ \A j \in 1..n : T[a + j] = B[j]
    <3>1. S \in Seq(Step) /\ B \in Seq(Step) /\ T = S \o B /\ a = Len(S) /\ n = Len(B)
      BY <1>11, <2>2, <2>3
    <3> HIDE <1>11, <2>2, <2>3
    <3> QED BY ONLY <3>1, Joined
  <2> QED BY <2>1, <2>4
<1>14. /\ P \in Seq(Step) /\ Len(P) = m + n + 2
       /\ \A i \in 1..((m + 1) + n) : P[i] = T[i]
       /\ P[m + n + 2] = y
  <2>1. <<y>> \in Seq(Step) /\ Len(<<y>>) = 1 /\ <<y>>[1] = y
    BY <1>7, OneStep
  <2>2. PICK a : a = (m + 1) + n
    OBVIOUS
  <2>3. P = T \o <<y>>
    BY <1>5, <1>10, <1>11
  <2>4. /\ P \in Seq(Step) /\ Len(P) = a + 1
        /\ \A i \in 1..a : P[i] = T[i]
        /\ \A j \in 1..1 : P[a + j] = <<y>>[j]
    <3>1. T \in Seq(Step) /\ <<y>> \in Seq(Step) /\ a = Len(T) /\ 1 = Len(<<y>>)
      BY <1>13, <2>1, <2>2
    <3> QED BY ONLY <2>3, <3>1, Joined
  <2>5. P[a + 1] = y
    BY <2>1, <2>4
  <2>6. a + 1 = m + n + 2
    BY <1>0, <2>2
  <2> QED BY <2>2, <2>4, <2>5, <2>6
<1>15. ASSUME NEW i \in 1..m PROVE P[i] = A[i]
  <2>1. i \in 1..(m + 1) /\ i \in 1..((m + 1) + n)
    BY <1>0
  <2> QED BY <1>12, <1>13, <1>14, <2>1
<1>16. P[m + 1] = x
  <2>1. m + 1 \in 1..(m + 1) /\ m + 1 \in 1..((m + 1) + n)
    BY <1>0
  <2> QED BY <1>12, <1>13, <1>14, <2>1
<1>17. ASSUME NEW j \in 1..n PROVE P[(m + 1) + j] = B[j]
  <2>1. (m + 1) + j \in 1..((m + 1) + n)
    BY <1>0
  <2> QED BY <1>13, <1>14, <2>1
<1>18. \A i \in 1..m : P[i] = Do(IF c.order[i] = "output" THEN "truncate" ELSE "open",
                                  c.file[c.order[i]])
  BY <1>8, <1>15
<1>19. \A j \in 1..n : P[(m + 1) + j] = Do("read", c.file[Inputs(c)[j]])
  BY <1>9, <1>17
<1>20. IsTranslation(P, c, m, n)
  BY <1>3, <1>4, <1>14, <1>16, <1>18, <1>19 DEF IsTranslation
<1> QED BY <1>0, <1>14, <1>20

\* Everything is followed by the return of main.
LastStep == Do("return", "")

LEMMA ReturnsAtLast ==
    ASSUME NEW c, NEW S, S \in Seq(Step),
           S = IF c.tool = "configtxgen" THEN GenerationSteps(c) ELSE TranslationSteps(c),
           NEW P, P = Program(c)
    PROVE  /\ P \in Seq(Step)
           /\ Len(P) = Len(S) + 1
           /\ \A k \in 1..Len(S) : P[k] = S[k]
           /\ P[Len(S) + 1] = LastStep
<1>1. PICK x : x = LastStep
  OBVIOUS
<1>2. x \in Step
  BY <1>1, StepTypes DEF Kinds, Names, LastStep
<1>3. <<x>> \in Seq(Step) /\ Len(<<x>>) = 1 /\ <<x>>[1] = x
  BY <1>2, OneStep
<1>4. P = S \o <<x>>
  BY <1>1 DEF Program, LastStep
<1>5. PICK a : a = Len(S)
  OBVIOUS
<1>6. /\ P \in Seq(Step) /\ Len(P) = a + 1
      /\ \A k \in 1..a : P[k] = S[k]
      /\ \A j \in 1..1 : P[a + j] = <<x>>[j]
  <2>1. S \in Seq(Step) /\ <<x>> \in Seq(Step) /\ P = S \o <<x>> /\ a = Len(S)
        /\ 1 = Len(<<x>>)
    BY <1>3, <1>4, <1>5
  <2> QED BY ONLY <2>1, Joined
<1>7. P[a + 1] = x
  BY <1>3, <1>6
<1> QED BY <1>1, <1>5, <1>6, <1>7

LEMMA Offset ==
    ASSUME NEW m \in Nat, NEW n \in Nat, NEW k \in (m + 2)..(m + n + 1)
    PROVE  k - (m + 1) \in 1..n /\ (m + 1) + (k - (m + 1)) = k /\ k > m + 1
OBVIOUS

LEMMA Successor ==
    ASSUME NEW m \in Nat, NEW n \in Nat, NEW d \in 0..(m + n + 3), d < m + n + 3
    PROVE  /\ d + 1 \in 1..(m + n + 3)
           /\ (d + 1) - (m + 1) = d - m
           /\ d + 1 \in 1..m => d < m /\ d <= m
           /\ d + 1 = m + 1 => d <= m
           /\ d + 1 > m + 1 => d > m
           /\ d + 1 = m + n + 2 => d = m + n + 1
           /\ d + 1 = m + n + 3 <=> d = m + n + 2
           /\ (d + 1) - (m + 1) \in 1..n => d < m + n + 1
OBVIOUS

\* The program, step by step.
StepIs(P, c, m, n, k) ==
    \/ /\ k \in 1..m /\ c.order[k] = "output"
       /\ P[k].do = "truncate" /\ P[k].of = Output(c)
    \/ k \in 1..m /\ c.order[k] # "output" /\ P[k].do = "open"
    \/ k = m + 1 /\ P[k].do = "require"
    \/ /\ k > m + 1 /\ k - (m + 1) \in 1..n
       /\ P[k].do = "read" /\ P[k].of = c.file[Inputs(c)[k - (m + 1)]]
    \/ k = m + n + 2 /\ P[k].do = "write" /\ P[k].of = Output(c)
    \/ k = m + n + 3 /\ P[k].do = "return"

LEMMA Positions ==
    ASSUME NEW m \in Nat, NEW n \in Nat, NEW k \in 1..(m + n + 3)
    PROVE  \/ k \in 1..m \/ k = m + 1 \/ k \in (m + 2)..(m + n + 1)
           \/ k = m + n + 2 \/ k = m + n + 3
OBVIOUS

LEMMA PlaceOfOutput ==
    ASSUME NEW m \in Nat, NEW n \in Nat, NEW i \in 1..m
    PROVE  /\ i \in 1..(m + n + 3) /\ ~(i > m + 1)
           /\ i # m + 1 /\ i # m + n + 2 /\ i # m + n + 3
OBVIOUS

\* The program of a translation.
IsProgram(P, c, m, n) ==
    /\ m \in Nat /\ n \in Nat
    /\ P \in Seq(Step)
    /\ Len(P) = m + n + 3
    /\ IsTranslation(P, c, m, n)
    /\ P[m + n + 3] = LastStep

LEMMA TranslationProgramIs ==
    ASSUME NEW r \in Runs, NEW c \in Menu[r], c.tool = "configtxlator",
           NEW P, P = Program(c),
           NEW m, m = Len(c.order), NEW n, n = Len(Inputs(c))
    PROVE  IsProgram(P, c, m, n)
<1>1. PICK S : S = TranslationSteps(c)
  OBVIOUS
<1>2. /\ m \in Nat /\ n \in Nat
      /\ S \in Seq(Step) /\ Len(S) = m + n + 2
      /\ IsTranslation(S, c, m, n)
  BY <1>1, TranslationProgram
<1>3. /\ P \in Seq(Step) /\ Len(P) = Len(S) + 1
      /\ \A k \in 1..Len(S) : P[k] = S[k]
      /\ P[Len(S) + 1] = LastStep
  <2>1. S = IF c.tool = "configtxgen" THEN GenerationSteps(c) ELSE TranslationSteps(c)
    BY <1>1
  <2> QED BY <1>2, <2>1, ReturnsAtLast
<1>4. Len(S) + 1 = m + n + 3
  BY <1>2
<1>5. IsTranslation(P, c, m, n)
  <2>1. \A i \in 1..m : i \in 1..Len(S)
    BY <1>2
  <2>2. m + 1 \in 1..Len(S) /\ m + n + 2 \in 1..Len(S)
    BY <1>2
  <2>3. \A j \in 1..n : (m + 1) + j \in 1..Len(S)
    BY <1>2
  <2> QED BY <1>2, <1>3, <2>1, <2>2, <2>3 DEF IsTranslation
<1> QED BY <1>2, <1>3, <1>4, <1>5 DEF IsProgram

LEMMA TranslationStep ==
    ASSUME NEW r \in Runs, NEW c \in Menu[r], c.tool = "configtxlator",
           NEW m \in Nat, m = Len(c.order), NEW n \in Nat, n = Len(Inputs(c)),
           NEW P, IsTranslation(P, c, m, n), P[m + n + 3] = LastStep,
           NEW k \in 1..(m + n + 3)
    PROVE  StepIs(P, c, m, n, k)
<1>1. CASE k \in 1..m
  <2>1. P[k] = Do(IF c.order[k] = "output" THEN "truncate" ELSE "open", c.file[c.order[k]])
    BY <1>1 DEF IsTranslation
  <2>2. CASE c.order[k] = "output"
    BY <1>1, <2>1, <2>2 DEF Do, Output, StepIs
  <2>3. CASE c.order[k] # "output"
    BY <1>1, <2>1, <2>3 DEF Do, StepIs
  <2> QED BY <2>2, <2>3
<1>2. CASE k = m + 1
  BY <1>2 DEF IsTranslation, Do, StepIs
<1>3. CASE k \in (m + 2)..(m + n + 1)
  <2>1. PICK j : j = k - (m + 1)
    OBVIOUS
  <2>2. j \in 1..n /\ (m + 1) + j = k /\ k > m + 1
    BY <1>3, <2>1, Offset
  <2>3. P[k] = Do("read", c.file[Inputs(c)[j]])
    BY <2>2 DEF IsTranslation
  <2>4. P[k].do = "read" /\ P[k].of = c.file[Inputs(c)[j]]
    BY <2>3 DEF Do
  <2> QED BY <2>1, <2>2, <2>4 DEF StepIs
<1>4. CASE k = m + n + 2
  BY <1>4 DEF IsTranslation, Put, StepIs
<1>5. CASE k = m + n + 3
  <2>1. P[k] = LastStep
    BY <1>5
  <2>2. LastStep.do = "return"
    BY DEF Do, LastStep
  <2> QED BY <1>5, <2>1, <2>2 DEF StepIs
<1> QED BY Zenon, <1>1, <1>2, <1>3, <1>4, <1>5, Positions

\* Everything that main looks for before the first output is there.
Good(c) ==
    /\ c.channelID
    /\ c.profile \in Profiles
    /\ c.channelCreateTxBaseProfile \in Profiles \cup {""}

\* The steps of a command line of configtxgen; none of them reads.
StepsOf(c) ==
    {s \in Step : /\ s.do # "read"
                  /\ Changes(s) => s.of \in Files \cap Outputs(c) /\ Generates(c)
                  /\ s.do = "write" =>
                        s.content \in {Message(Block(c.profile)),
                                       Message(ChannelTx(c.profile, c.channelCreateTxBaseProfile))}}

LEMMA GenerationParts ==
    ASSUME NEW r \in Runs, NEW c \in Menu[r], c.tool = "configtxgen"
    PROVE  /\ c \in Generations
           /\ c.profile \in STRING /\ c.channelCreateTxBaseProfile \in STRING
           /\ c.outputBlock \in Files \cup {""} /\ c.outputCreateChannelTx \in Files \cup {""}
           /\ c.inspectBlock \in Files \cup {""} /\ c.inspectChannelCreateTx \in Files \cup {""}
BY MenuAssumption DEF Generations, Translations

LEMMA QuietStepsOf ==
    ASSUME NEW c, NEW what \in Kinds \ {"read", "truncate"}, NEW of \in Names
    PROVE  Do(what, of) \in StepsOf(c)
BY StepTypes DEF StepsOf, Changes, Kinds

LEMMA EmptyOf == ASSUME NEW S PROVE <<>> \in Seq(S) /\ Len(<<>>) = 0
OBVIOUS

LEMMA OneOf == ASSUME NEW S, NEW s \in S
               PROVE  <<s>> \in Seq(S) /\ Len(<<s>>) = 1 /\ <<s>>[1] = s
OBVIOUS

LEMMA TwoOf == ASSUME NEW S, NEW s \in S, NEW t \in S PROVE <<s, t>> \in Seq(S)
OBVIOUS

LEMMA WriteFileSteps ==
    ASSUME NEW c, Generates(c), NEW f \in Files \cup {""}, f # "" => f \in Outputs(c),
           NEW content \in Payloads,
           content \in {Message(Block(c.profile)),
                        Message(ChannelTx(c.profile, c.channelCreateTxBaseProfile))}
    PROVE  WriteFile(f, content) \in Seq(StepsOf(c))
<1>1. CASE f = ""
  BY <1>1, EmptyOf DEF WriteFile
<1>2. CASE f # ""
  <2>1. f \in Files \cap Outputs(c) /\ f \in Names /\ "truncate" \in Kinds
    BY <1>2 DEF Names, Kinds
  <2>2. Do("truncate", f) \in StepsOf(c)
    <3>1. PICK s : s = Do("truncate", f)
      OBVIOUS
    <3>2. s \in Step /\ s.do = "truncate" /\ s.of = f
      BY <2>1, <3>1, DoIs
    <3>3. s \in StepsOf(c)
      BY <2>1, <3>2 DEF StepsOf
    <3> QED BY <3>1, <3>3
  <2>3. Put(f, content) \in StepsOf(c)
    <3>1. PICK s : s = Put(f, content)
      OBVIOUS
    <3>2. s \in Step /\ s.do = "write" /\ s.of = f /\ s.content = content
      BY <2>1, <3>1, PutIs
    <3>3. s \in StepsOf(c)
      BY <2>1, <3>2 DEF StepsOf, Changes
    <3> QED BY <3>1, <3>3
  <2>4. WriteFile(f, content) = <<Do("truncate", f), Put(f, content)>>
    BY <1>2 DEF WriteFile
  <2> QED BY <2>2, <2>3, <2>4, TwoOf
<1> QED BY <1>1, <1>2

LEMMA IfSteps ==
    ASSUME NEW c, NEW what \in Kinds \ {"read", "truncate"}, NEW of \in Names
    PROVE  If(what, of) \in Seq(StepsOf(c))
<1>1. CASE of = ""
  BY <1>1, EmptyOf DEF If
<1>2. CASE of # ""
  BY <1>2, OneOf, QuietStepsOf DEF If
<1> QED BY <1>1, <1>2

LEMMA GenerationProgram ==
    ASSUME NEW r \in Runs, NEW c \in Menu[r], c.tool = "configtxgen",
           NEW P, P = GenerationSteps(c)
    PROVE  /\ P \in Seq(StepsOf(c))
           /\ Len(P) >= 1
           /\ \A k \in 1..Len(P) :
                 Changes(P[k]) /\ (\A j \in 1..(k - 1) : Passed(P[j])) => Good(c)
<1>1. PICK Q1 : Q1 = RequireChannelID(c)
  OBVIOUS
<1>2. PICK Q2 : Q2 = LoadProfile(c)
  OBVIOUS
<1>3. PICK Q3 : Q3 = LoadBaseProfile(c)
  OBVIOUS
<1>4. PICK Q4 : Q4 = OutputBlock(c)
  OBVIOUS
<1>5. PICK Q5 : Q5 = OutputChannelTx(c)
  OBVIOUS
<1>6. PICK Q6 : Q6 = Inspections(c)
  OBVIOUS
<1>7. P = ((((Q1 \o Q2) \o Q3) \o Q4) \o Q5) \o Q6
  BY <1>1, <1>2, <1>3, <1>4, <1>5, <1>6 DEF GenerationSteps
<1>8. /\ c.profile \in Names /\ c.channelCreateTxBaseProfile \in Names
      /\ c.inspectBlock \in Names /\ c.inspectChannelCreateTx \in Names
      /\ "missing" \in Names /\ "known" \in Names
      /\ "load" \in Kinds \ {"read", "truncate"} /\ "require" \in Kinds \ {"read", "truncate"}
      /\ "inspectBlock" \in Kinds \ {"read", "truncate"}
      /\ "inspectChannelTx" \in Kinds \ {"read", "truncate"}
  BY GenerationParts DEF Names, Kinds
<1>11. PICK x : x = Do("require", IF Generates(c) /\ ~c.channelID THEN "missing" ELSE "known")
  OBVIOUS
<1>12. x \in StepsOf(c) /\ Q1 = <<x>> /\ Q1 \in Seq(StepsOf(c)) /\ Len(Q1) = 1 /\ Q1[1] = x
  <2>1. x \in StepsOf(c)
    BY <1>8, <1>11, QuietStepsOf
  <2>2. Q1 = <<x>>
    BY <1>1, <1>11 DEF RequireChannelID
  <2> QED BY <2>1, <2>2, OneOf
<1>13. /\ Q2 \in Seq(StepsOf(c))
       /\ Generates(c) => Len(Q2) = 1 /\ Q2[1] = Do("load", c.profile)
       /\ \A i \in 1..Len(Q2) : Q2[i].do = "load"
  <2>1. CASE Generates(c)
    <3>1. PICK y : y = Do("load", c.profile)
      OBVIOUS
    <3>2. y \in StepsOf(c) /\ y.do = "load"
      BY <1>8, <3>1, QuietStepsOf, StepTypes
    <3>3. Q2 = <<y>>
      BY <1>2, <2>1, <3>1 DEF LoadProfile
    <3> QED BY <3>1, <3>2, <3>3, OneOf
  <2>2. CASE ~Generates(c)
    BY <1>2, <2>2, EmptyOf DEF LoadProfile
  <2> QED BY <2>1, <2>2
<1>14. /\ Q3 \in Seq(StepsOf(c))
       /\ c.channelCreateTxBaseProfile # "" =>
             Len(Q3) = 1 /\ Q3[1] = Do("load", c.channelCreateTxBaseProfile)
       /\ \A i \in 1..Len(Q3) : Q3[i].do = "load"
  <2>1. CASE c.channelCreateTxBaseProfile # ""
    <3>1. PICK y : y = Do("load", c.channelCreateTxBaseProfile)
      OBVIOUS
    <3>2. y \in StepsOf(c) /\ y.do = "load"
      BY <1>8, <3>1, QuietStepsOf, StepTypes
    <3>3. Q3 = <<y>>
      BY <1>3, <2>1, <3>1 DEF LoadBaseProfile, If
    <3>4. Q3 \in Seq(StepsOf(c)) /\ Len(Q3) = 1 /\ Q3[1] = y
      BY <3>2, <3>3, OneOf
    <3>5. \A i \in 1..Len(Q3) : Q3[i].do = "load"
      BY <3>2, <3>4
    <3> QED BY <3>1, <3>2, <3>4, <3>5
  <2>2. CASE c.channelCreateTxBaseProfile = ""
    <3>1. Q3 = <<>>
      BY <1>3, <2>2 DEF LoadBaseProfile, If
    <3>2. Q3 \in Seq(StepsOf(c)) /\ Len(Q3) = 0
      BY <3>1, EmptyOf
    <3>3. \A i \in 1..Len(Q3) : FALSE
      BY <3>2
    <3> QED BY <2>2, <3>2, <3>3
  <2> QED BY <2>1, <2>2
<1>15. Q4 \in Seq(StepsOf(c))
  <2>1. CASE c.outputBlock = ""
    BY <1>4, <2>1, EmptyOf DEF OutputBlock, WriteFile
  <2>2. CASE c.outputBlock # ""
    <3>1. Generates(c)
      BY <2>2 DEF Generates
    <3>2. Message(Block(c.profile)) \in Payloads
      BY GenerationParts DEF Payloads
    <3>3. c.outputBlock \in Outputs(c)
      BY <2>2 DEF Outputs
    <3> QED BY <1>4, <3>1, <3>2, <3>3, WriteFileSteps, GenerationParts DEF OutputBlock
  <2> QED BY <2>1, <2>2
<1>16. Q5 \in Seq(StepsOf(c))
  <2>1. CASE c.outputCreateChannelTx = ""
    BY <1>5, <2>1, EmptyOf DEF OutputChannelTx, WriteFile
  <2>2. CASE c.outputCreateChannelTx # ""
    <3>1. Generates(c)
      BY <2>2 DEF Generates
    <3>2. Message(ChannelTx(c.profile, c.channelCreateTxBaseProfile)) \in Payloads
      <4>1. PICK p : p = <<c.profile, c.channelCreateTxBaseProfile>>
        OBVIOUS
      <4>2. p \in STRING \X STRING /\ p[1] = c.profile /\ p[2] = c.channelCreateTxBaseProfile
        BY <4>1, GenerationParts
      <4> QED BY <4>2 DEF Payloads
    <3>3. c.outputCreateChannelTx \in Outputs(c)
      BY <2>2 DEF Outputs
    <3> QED BY <1>5, <3>1, <3>2, <3>3, WriteFileSteps, GenerationParts DEF OutputChannelTx
  <2> QED BY <2>1, <2>2
<1>17. Q6 \in Seq(StepsOf(c))
  <2>1. /\ If("inspectBlock", c.inspectBlock) \in Seq(StepsOf(c))
        /\ If("inspectChannelTx", c.inspectChannelCreateTx) \in Seq(StepsOf(c))
    BY <1>8, IfSteps
  <2> QED BY <1>6, <2>1, ConcatProperties DEF Inspections
<1>21. PICK H2 : H2 = Q1 \o Q2
  OBVIOUS
<1>22. PICK H : H = H2 \o Q3
  OBVIOUS
<1>23. PICK H4 : H4 = H \o Q4
  OBVIOUS
<1>24. PICK H5 : H5 = H4 \o Q5
  OBVIOUS
<1>25. P = H5 \o Q6
  BY <1>7, <1>21, <1>22, <1>23, <1>24
<1>26. \A s \in StepsOf(c) : s \in Step
  BY DEF StepsOf
<1>27. /\ Q1 \in Seq(Step) /\ Q2 \in Seq(Step) /\ Q3 \in Seq(Step)
       /\ Q4 \in Seq(Step) /\ Q5 \in Seq(Step) /\ Q6 \in Seq(Step)
  BY <1>12, <1>13, <1>14, <1>15, <1>16, <1>17, <1>26, SeqMonotonic
<1>28. P \in Seq(StepsOf(c))
  <2>1. H2 \in Seq(StepsOf(c))
    BY <1>12, <1>13, <1>21, ConcatProperties
  <2>2. H \in Seq(StepsOf(c))
    BY <2>1, <1>14, <1>22, ConcatProperties
  <2>3. H4 \in Seq(StepsOf(c))
    BY <2>2, <1>15, <1>23, ConcatProperties
  <2>4. H5 \in Seq(StepsOf(c))
    BY <2>3, <1>16, <1>24, ConcatProperties
  <2> QED BY <2>4, <1>17, <1>25, ConcatProperties
\* The steps that look for what is required come first, and are all of them.
<1>29. /\ H2 \in Seq(Step) /\ Len(H2) = 1 + Len(Q2)
       /\ H2[1] = x
       /\ \A j \in 1..Len(Q2) : H2[1 + j] = Q2[j]
  <2>1. /\ H2 \in Seq(Step) /\ Len(H2) = Len(Q1) + Len(Q2)
        /\ \A i \in 1..Len(Q1) : H2[i] = Q1[i]
        /\ \A j \in 1..Len(Q2) : H2[Len(Q1) + j] = Q2[j]
    <3>1. Q1 \in Seq(Step) /\ Q2 \in Seq(Step) /\ H2 = Q1 \o Q2
      BY <1>21, <1>27
    <3> QED BY ONLY <3>1, Joined
  <2> QED BY <2>1, <1>12
<1>30. /\ H \in Seq(Step) /\ Len(H) = Len(H2) + Len(Q3)
       /\ \A i \in 1..Len(H2) : H[i] = H2[i]
       /\ \A j \in 1..Len(Q3) : H[Len(H2) + j] = Q3[j]
  <2>1. H2 \in Seq(Step) /\ Q3 \in Seq(Step) /\ H = H2 \o Q3
    BY <1>22, <1>27, <1>29
  <2> QED BY ONLY <2>1, Joined
<1>31. /\ Len(Q2) \in Nat /\ Len(Q3) \in Nat /\ Len(H2) \in Nat /\ Len(H) \in Nat
       /\ Len(Q4) \in Nat /\ Len(Q5) \in Nat /\ Len(Q6) \in Nat
  BY <1>27, <1>29, <1>30, LenProperties
<1>32. /\ Len(P) >= Len(H)
       /\ \A i \in 1..Len(H) : P[i] = H[i]
  <2>1. /\ H4 \in Seq(Step) /\ Len(H4) = Len(H) + Len(Q4)
        /\ \A i \in 1..Len(H) : H4[i] = H[i]
    <3>1. H \in Seq(Step) /\ Q4 \in Seq(Step) /\ H4 = H \o Q4
      BY <1>23, <1>27, <1>30
    <3> QED BY ONLY <3>1, Joined
  <2>2. /\ H5 \in Seq(Step) /\ Len(H5) = Len(H4) + Len(Q5)
        /\ \A i \in 1..Len(H4) : H5[i] = H4[i]
    <3>1. H4 \in Seq(Step) /\ Q5 \in Seq(Step) /\ H5 = H4 \o Q5
      BY <1>24, <1>27, <2>1
    <3> QED BY ONLY <3>1, Joined
  <2>3. /\ Len(P) = Len(H5) + Len(Q6)
        /\ \A i \in 1..Len(H5) : P[i] = H5[i]
    <3>1. H5 \in Seq(Step) /\ Q6 \in Seq(Step) /\ P = H5 \o Q6
      BY <1>25, <1>27, <2>2
    <3> QED BY ONLY <3>1, Joined
  <2>4. Len(H5) \in Nat /\ Len(H4) \in Nat
    BY <2>1, <2>2, LenProperties
  <2>5. Len(P) >= Len(H)
    BY ONLY <1>31, <2>1, <2>2, <2>3, <2>4
  <2>6. ASSUME NEW i \in 1..Len(H) PROVE P[i] = H[i]
    <3>1. i \in 1..Len(H4) /\ i \in 1..Len(H5)
      BY <1>31, <2>1, <2>2, <2>4
    <3> QED BY <2>1, <2>2, <2>3, <3>1
  <2> QED BY <2>5, <2>6
<1>33. ASSUME NEW i \in 1..Len(H) PROVE ~Changes(H[i])
  <2>1. x.do = "require"
    BY <1>8, <1>11, StepTypes
  <2>2. CASE i \in 1..Len(H2)
    <3>1. H[i] = H2[i]
      BY <1>30, <2>2
    <3>2. CASE i = 1
      BY <1>29, <2>1, <3>1, <3>2 DEF Changes
    <3>3. CASE i # 1
      <4>1. i - 1 \in 1..Len(Q2) /\ 1 + (i - 1) = i
        BY <1>29, <1>31, <2>2, <3>3
      <4>2. H2[i] = Q2[i - 1]
        BY <1>29, <4>1
      <4> QED BY <1>13, <3>1, <4>1, <4>2 DEF Changes
    <3> QED BY <3>2, <3>3
  <2>3. CASE i \notin 1..Len(H2)
    <3>1. i - Len(H2) \in 1..Len(Q3) /\ Len(H2) + (i - Len(H2)) = i
      BY <1>30, <1>31, <2>3
    <3>2. H[i] = Q3[i - Len(H2)]
      BY <1>30, <3>1
    <3> QED BY <1>14, <3>1, <3>2 DEF Changes
  <2> QED BY <2>2, <2>3
<1>34. Len(P) >= 1
  BY <1>29, <1>30, <1>31, <1>32
<1>35. ASSUME NEW k \in 1..Len(P), Changes(P[k]),
              \A j \in 1..(k - 1) : Passed(P[j])
       PROVE  Good(c)
  <2>1. P[k] \in StepsOf(c)
    BY <1>28, ElementOfSeq
  <2>2. Generates(c)
    BY <2>1, <1>35 DEF StepsOf
  <2>3. k \notin 1..Len(H)
    BY <1>32, <1>33, <1>35
  <2>4. \A j \in 1..Len(H) : Passed(H[j])
    <3>1. \A j \in 1..Len(H) : j \in 1..(k - 1)
      BY <2>3, <1>31
    <3> QED BY <3>1, <1>32, <1>35
  <2>5. c.channelID
    <3>1. 1 \in 1..Len(H) /\ 1 \in 1..Len(H2)
      BY <1>29, <1>30, <1>31
    <3>2. H[1] = x
      BY <1>29, <1>30, <3>1
    <3>3. x.do = "require" /\ x.of = IF Generates(c) /\ ~c.channelID THEN "missing" ELSE "known"
      BY <1>8, <1>11, StepTypes
    <3>4. x.of = "known"
      BY <2>4, <3>1, <3>2, <3>3 DEF Passed
    <3> QED BY <2>2, <3>3, <3>4
  <2>6. c.profile \in Profiles
    <3>1. Len(Q2) = 1 /\ Q2[1] = Do("load", c.profile)
      BY <1>13, <2>2
    <3>2. 2 \in 1..Len(H) /\ 2 \in 1..Len(H2) /\ 1 \in 1..Len(Q2) /\ 1 + 1 = 2
      BY <1>29, <1>30, <1>31, <3>1
    <3>3. H[2] = Do("load", c.profile)
      BY <1>29, <1>30, <3>1, <3>2
    <3>4. Do("load", c.profile).do = "load" /\ Do("load", c.profile).of = c.profile
      BY <1>8, StepTypes
    <3> QED BY <2>4, <3>2, <3>3, <3>4 DEF Passed
  <2>7. CASE c.channelCreateTxBaseProfile # ""
    <3>1. Len(Q3) = 1 /\ Q3[1] = Do("load", c.channelCreateTxBaseProfile)
      BY <1>14, <2>7
    <3>2. Len(H2) + 1 \in 1..Len(H) /\ 1 \in 1..Len(Q3)
      BY <1>30, <1>31, <3>1
    <3>3. H[Len(H2) + 1] = Do("load", c.channelCreateTxBaseProfile)
      BY <1>30, <3>1, <3>2
    <3>4. /\ Do("load", c.channelCreateTxBaseProfile).do = "load"
          /\ Do("load", c.channelCreateTxBaseProfile).of = c.channelCreateTxBaseProfile
      BY <1>8, StepTypes
    <3>5. c.channelCreateTxBaseProfile \in Profiles
      BY <2>4, <3>2, <3>3, <3>4 DEF Passed
    <3> QED BY <2>5, <2>6, <3>5 DEF Good
  <2>8. CASE c.channelCreateTxBaseProfile = ""
    BY <2>5, <2>6, <2>8 DEF Good
  <2> QED BY <2>7, <2>8
<1> QED BY <1>28, <1>34, <1>35

LEMMA GenerationProgramIs ==
    ASSUME NEW r \in Runs, NEW c \in Menu[r], c.tool = "configtxgen",
           NEW P, P = Program(c)
    PROVE  /\ P \in Seq(StepsOf(c))
           /\ Len(P) >= 1
           /\ \A k \in 1..Len(P) :
                 Changes(P[k]) /\ (\A j \in 1..(k - 1) : Passed(P[j])) => Good(c)
<1>1. PICK S : S = GenerationSteps(c)
  OBVIOUS
<1>2. PICK x : x = LastStep
  OBVIOUS
<1>3. /\ S \in Seq(StepsOf(c)) /\ Len(S) >= 1
      /\ \A k \in 1..Len(S) :
            Changes(S[k]) /\ (\A j \in 1..(k - 1) : Passed(S[j])) => Good(c)
  BY <1>1, GenerationProgram
<1>4. S \in Seq(Step) /\ Len(S) \in Nat
  <2>1. StepsOf(c) \subseteq Step
    BY DEF StepsOf
  <2> QED BY <1>3, <2>1, SeqMonotonic, LenProperties
<1>5. /\ Len(P) = Len(S) + 1
      /\ \A k \in 1..Len(S) : P[k] = S[k]
      /\ P[Len(S) + 1] = x
  <2>1. S = IF c.tool = "configtxgen" THEN GenerationSteps(c) ELSE TranslationSteps(c)
    BY <1>1
  <2> QED BY <1>2, <1>4, <2>1, ReturnsAtLast
<1>6. x \in StepsOf(c) /\ ~Changes(x)
  <2>1. "return" \in Kinds \ {"read", "truncate"} /\ "" \in Names
    BY DEF Kinds, Names
  <2>2. x.do = "return"
    BY <1>2 DEF LastStep, Do
  <2> QED BY <1>2, <2>1, <2>2, QuietStepsOf DEF Changes, LastStep
<1>7. P \in Seq(StepsOf(c))
  <2>1. P = S \o <<x>>
    BY <1>1, <1>2 DEF Program, LastStep
  <2>2. <<x>> \in Seq(StepsOf(c))
    BY <1>6, OneOf
  <2> QED BY <1>3, <2>1, <2>2, ConcatProperties
<1>8. ASSUME NEW k \in 1..Len(P), Changes(P[k]),
             \A j \in 1..(k - 1) : Passed(P[j])
      PROVE  Good(c)
  <2>1. k \in 1..Len(S)
    BY <1>4, <1>5, <1>6, <1>8
  <2>2. \A j \in 1..(k - 1) : j \in 1..Len(S)
    BY <1>4, <2>1
  <2> QED BY <1>3, <1>5, <1>8, <2>1, <2>2
<1>9. Len(P) >= 1
  BY <1>4, <1>5
<1> QED BY <1>7, <1>8, <1>9

-----------------------------------------------------------------------------
(* What files hold                                                         *)

\* The configurations, updates, blocks and transactions that there are, and their parts.
Documents ==
    {SomeFields} \cup {Config(c) : c \in Configs} \cup {Block(p) : p \in Profiles}
    \cup {Update(Config(c[1]), Config(c[2])) : c \in Configs \X Configs}
    \cup {ChannelTx(c[1], c[2]) : c \in Profiles \X (Profiles \cup {""})}

LEMMA ContentsAre ==
    Contents = {Absent, Empty, Torn, Json(NoFields)} \cup {Json(m) : m \in Documents}
               \cup {Message(m) : m \in Documents}
BY DEF Contents, Documents

LEMMA Forms ==
    /\ Absent.form = "absent" /\ Empty.form = "empty" /\ Torn.form = "torn"
    /\ Undone.form = "none"
    /\ \A m : Json(m).form = "json" /\ Json(m).of = m
    /\ \A m : m = NoFields => Message(m) = Empty
    /\ \A m : m # NoFields => Message(m).form = "message" /\ Message(m).of = m
BY DEF Absent, Empty, Torn, Undone, Json, Message

\* A document there is: it parses.
Whole(content) == content \in Contents /\ content \notin {Absent, Torn}

LEMMA WholeOnes ==
    /\ Whole(Empty) /\ Whole(Json(NoFields)) /\ Whole(Fragment)
    /\ \A m \in Documents : Whole(Json(m)) /\ Whole(Message(m))
    /\ Torn \in Contents /\ Torn # Absent
<1>1. Whole(Empty) /\ Whole(Json(NoFields)) /\ Torn \in Contents /\ Torn # Absent
  BY ContentsAre, Forms DEF Whole
<1>2. ASSUME NEW m \in Documents PROVE Whole(Json(m)) /\ Whole(Message(m))
  <2>1. Json(m) \in Contents /\ Message(m) \in Contents
    BY ContentsAre
  <2>2. Json(m) # Absent /\ Json(m) # Torn
    BY Forms
  <2>3. Message(m) # Absent /\ Message(m) # Torn
    <3>1. CASE m = NoFields
      BY <3>1, Forms
    <3>2. CASE m # NoFields
      BY <3>2, Forms
    <3> QED BY <3>1, <3>2
  <2> QED BY <2>1, <2>2, <2>3 DEF Whole
<1>3. Whole(Fragment)
  BY <1>2 DEF Documents, Fragment
<1> QED BY <1>1, <1>2, <1>3

LEMMA JsonContents ==
    ASSUME NEW d \in Contents, d.form = "json"
    PROVE  \E m \in Documents \cup {NoFields} : d = Json(m)
<1>1. CASE \E m \in Documents : d = Message(m)
  <2>1. PICK m \in Documents : d = Message(m)
    BY <1>1
  <2>2. CASE m = NoFields
    BY <2>1, <2>2, Forms
  <2>3. CASE m # NoFields
    BY <2>1, <2>3, Forms
  <2> QED BY <2>2, <2>3
<1>2. CASE \A m \in Documents : d # Message(m)
  BY <1>2, ContentsAre, Forms
<1> QED BY <1>1, <1>2

LEMMA MessageContents ==
    ASSUME NEW d \in Contents, d.form = "message"
    PROVE  \E m \in Documents : d = Message(m) /\ m # NoFields
<1>1. CASE \E m \in Documents : d = Message(m)
  BY <1>1, Forms
<1>2. CASE \A m \in Documents : d # Message(m)
  BY <1>2, ContentsAre, Forms
<1> QED BY <1>1, <1>2

LEMMA Encoded ==
    ASSUME NEW d \in Contents, EncodeProto(d) # Undone
    PROVE  Whole(EncodeProto(d))
<1>1. d.form = "json" /\ EncodeProto(d) = Message(d.of)
  BY DEF EncodeProto
<1>2. PICK m \in Documents \cup {NoFields} : d = Json(m)
  BY <1>1, JsonContents
<1>3. EncodeProto(d) = Message(m)
  BY <1>1, <1>2, Forms
<1> QED BY <1>3, Forms, WholeOnes

LEMMA Decoded ==
    ASSUME NEW d \in Contents, DecodeProto(d) # Undone
    PROVE  Whole(DecodeProto(d))
<1>1. CASE d.form = "message"
  <2>1. DecodeProto(d) = Json(d.of)
    BY <1>1, Forms DEF DecodeProto
  <2>2. PICK m \in Documents : d = Message(m) /\ m # NoFields
    BY <1>1, MessageContents
  <2>3. DecodeProto(d) = Json(m)
    BY <2>1, <2>2, Forms
  <2> QED BY <2>3, WholeOnes
<1>2. CASE d.form # "message" /\ d = Empty
  <2>1. DecodeProto(d) = Json(NoFields)
    BY <1>2, Forms DEF DecodeProto
  <2> QED BY <2>1, WholeOnes
<1>3. CASE d.form # "message" /\ d # Empty
  BY <1>3 DEF DecodeProto
<1> QED BY <1>1, <1>2, <1>3

LEMMA Computed ==
    ASSUME NEW d, NEW e, ComputeUpdt(d, e) # Undone
    PROVE  Whole(ComputeUpdt(d, e)) /\ d # Empty /\ e # Empty
<1>1. /\ {d, e} \subseteq {Message(Config(c)) : c \in Configs}
      /\ ComputeUpdt(d, e) = Message(Update(d.of, e.of))
  BY DEF ComputeUpdt
<1>2. PICK a \in Configs : d = Message(Config(a))
  BY <1>1
<1>3. PICK b \in Configs : e = Message(Config(b))
  BY <1>1
<1>4. \A c : Config(c) # NoFields
  BY DEF Config, NoFields
<1>5. d.of = Config(a) /\ e.of = Config(b) /\ d # Empty /\ e # Empty
  BY <1>2, <1>3, <1>4, Forms
<1>6. Update(Config(a), Config(b)) \in Documents
  <2>1. PICK c : c = <<a, b>>
    OBVIOUS
  <2>2. c \in Configs \X Configs /\ c[1] = a /\ c[2] = b
    BY <2>1
  <2> QED BY <2>2 DEF Documents
<1> QED BY <1>1, <1>5, <1>6, WholeOnes

LEMMA TranslationResult ==
    ASSUME NEW r \in Runs, NEW c \in Menu[r], c.tool = "configtxlator",
           NEW inputs \in Seq(Contents), Len(inputs) = Len(Inputs(c)),
           Translation(c, inputs) # Undone
    PROVE  Whole(Translation(c, inputs))
<1>1. CASE c.command = "compute_update"
  <2>1. Translation(c, inputs) = ComputeUpdt(inputs[1], inputs[2])
    BY <1>1 DEF Translation
  <2> QED BY <2>1, Computed
<1>2. CASE c.command = "proto_encode"
  <2>1. inputs[1] \in Contents
    <3>1. c.command # "compute_update"
      BY <1>2
    <3>2. Len(inputs) = 1
      BY <3>1, InputsAre
    <3> QED BY <3>2, ElementOfSeq
  <2>2. Translation(c, inputs) = EncodeProto(inputs[1])
    BY <1>2 DEF Translation
  <2> QED BY <2>1, <2>2, Encoded
<1>3. CASE c.command = "proto_decode"
  <2>1. inputs[1] \in Contents
    <3>1. c.command # "compute_update"
      BY <1>3
    <3>2. Len(inputs) = 1
      BY <3>1, InputsAre
    <3> QED BY <3>2, ElementOfSeq
  <2>2. Translation(c, inputs) = DecodeProto(inputs[1])
    BY <1>3 DEF Translation
  <2> QED BY <2>1, <2>2, Decoded
<1> QED BY <1>1, <1>2, <1>3, TranslationParts

LEMMA GenerationResult ==
    ASSUME NEW c, Good(c),
           NEW d \in {Message(Block(c.profile)),
                      Message(ChannelTx(c.profile, c.channelCreateTxBaseProfile))}
    PROVE  Whole(d)
<1>1. Block(c.profile) \in Documents
  BY DEF Good, Documents
<1>2. ChannelTx(c.profile, c.channelCreateTxBaseProfile) \in Documents
  <2>1. PICK p : p = <<c.profile, c.channelCreateTxBaseProfile>>
    OBVIOUS
  <2>2. /\ p \in Profiles \X (Profiles \cup {""})
        /\ p[1] = c.profile /\ p[2] = c.channelCreateTxBaseProfile
    BY <2>1 DEF Good
  <2> QED BY <2>2 DEF Documents
<1> QED BY <1>1, <1>2, WholeOnes

\* What is left of a write that breaks off is there, and may be all that was to be written.
LEMMA BeginningsAre ==
    ASSUME NEW d, Whole(d)
    PROVE  /\ \A e \in Beginnings(d) : e \in Contents /\ e # Absent
           /\ d \in Beginnings(d)
<1>1. /\ Empty \in Contents /\ Empty # Absent /\ Torn \in Contents /\ Torn # Absent
      /\ Fragment \in Contents /\ Fragment # Absent
      /\ d \in Contents /\ d # Absent /\ d # Torn
  BY WholeOnes DEF Whole
<1>2. CASE d = Empty
  <2>1. Beginnings(d) = {Empty}
    BY <1>2, Forms DEF Beginnings
  <2> QED BY <1>1, <1>2, <2>1
<1>3. CASE d # Empty /\ d.form = "json"
  <2>1. Beginnings(d) = {Empty, Torn, d}
    BY <1>3, Forms DEF Beginnings
  <2> QED BY <1>1, <2>1
<1>4. CASE d # Empty /\ d.form = "message"
  <2>1. Beginnings(d) = {Empty, Torn, Fragment, d}
    BY <1>4, Forms DEF Beginnings
  <2> QED BY <1>1, <2>1
<1>5. d = Empty \/ d.form = "json" \/ d.form = "message"
  <2>1. CASE \E m \in Documents : d = Message(m)
    BY <2>1, Forms
  <2>2. CASE \A m \in Documents : d # Message(m)
    BY <1>1, <2>2, ContentsAre, Forms
  <2> QED BY <2>1, <2>2
<1> QED BY <1>2, <1>3, <1>4, <1>5

LEMMA Overlaid ==
    ASSUME NEW old \in Contents, NEW new, Whole(new), NEW d \in Overlay(old, new)
    PROVE  /\ d \in Contents
           /\ old # Absent => d # Absent
           /\ old = Empty => d = new
<1>1. CASE new = Empty
  <2>1. Overlay(old, new) = {old}
    BY <1>1 DEF Overlay
  <2> QED BY <1>1, <2>1
<1>2. CASE new # Empty /\ (old = Empty \/ (old = new /\ new.of # SomeFields))
  <2>1. Overlay(old, new) = {new}
    BY <1>2 DEF Overlay
  <2> QED BY <2>1 DEF Whole
<1>3. CASE new # Empty /\ ~(old = Empty \/ (old = new /\ new.of # SomeFields))
  <2>1. Overlay(old, new) = Beginnings(new) \ {Empty}
    BY <1>3 DEF Overlay
  <2> QED BY <1>3, <2>1, BeginningsAre
<1> QED BY <1>1, <1>2, <1>3

-----------------------------------------------------------------------------
(* The invariant                                                           *)

Types ==
    /\ files \in [Files -> Contents]
    /\ cmd \in [Runs -> Commands \cup {None}]
    /\ rest \in [Runs -> Seq(Step)]
    /\ got \in [Runs -> Seq(Contents)]
    /\ outcome \in [Runs -> {"idle", "running", "ok", "failed"}]
    /\ opened \in [Runs -> SUBSET Files]
    /\ held \in [Runs -> [Files -> SUBSET Contents]]
    /\ disturbed \in [Runs -> SUBSET Files]

\* What is left of P after d steps.
Follows(left, P, d) ==
    /\ d \in 0..Len(P)
    /\ Len(left) = Len(P) - d
    /\ \A i \in 1..Len(left) : left[i] = P[d + i]

\* The steps that were taken had what they require; "names" are the files they opened.
Progress(left, names, P, d) ==
    /\ Follows(left, P, d)
    /\ \A j \in 1..d : Passed(P[j])
    /\ \A j \in 1..d : P[j].do = "truncate" => P[j].of \in names
    /\ \A f \in names : \E j \in 1..d : P[j].do = "truncate" /\ P[j].of = f

\* How many of n inputs have been read after d steps, of which m open files.
ReadSoFar(m, n, d) == IF d <= m THEN 0 ELSE IF d <= m + n + 1 THEN d - (m + 1) ELSE n

ReadAfter(c, d) == ReadSoFar(Len(c.order), Len(Inputs(c)), d)

LEMMA ReadBefore ==
    ASSUME NEW m \in Nat, NEW n \in Nat, NEW d \in Nat, d <= m
    PROVE  ReadSoFar(m, n, d) = 0 /\ ReadSoFar(m, n, d + 1) = 0
BY DEF ReadSoFar

LEMMA ReadCount ==
    ASSUME NEW m \in Nat, NEW n \in Nat, NEW d \in Nat, d > m, d < m + n + 1
    PROVE  ReadSoFar(m, n, d) = d - (m + 1) /\ ReadSoFar(m, n, d + 1) = d - m
BY DEF ReadSoFar

LEMMA ReadAll ==
    ASSUME NEW m \in Nat, NEW n \in Nat, NEW d \in Nat, d = m + n + 1
    PROVE  ReadSoFar(m, n, d) = n /\ ReadSoFar(m, n, d + 1) = n
BY DEF ReadSoFar

\* What has been read of an input is what its file held at some time.
Heard(r) == \A j \in 1..Len(got[r]) : got[r][j] \in Seen(r, Inputs(cmd[r])[j])

\* The output is written: m + n + 2 steps are done.
Written(c, d) == d = Len(c.order) + Len(Inputs(c)) + 2

\* Of a run whose output nobody else writes to: it has found nothing there, and neither
\* is there anything before its own result is.
Kept(r, d) ==
    /\ ~Written(cmd[r], d) => \A f \in opened[r] : files[f] = Empty
    /\ Written(cmd[r], d) =>
          /\ files[Output(cmd[r])] = Translation(cmd[r], got[r])
          /\ Translation(cmd[r], got[r]) # Undone
    /\ \A j \in 1..Len(got[r]) :
          cmd[r].file[Inputs(cmd[r])[j]] = Output(cmd[r]) => got[r][j] = Empty

Stage(r, d) ==
    /\ Progress(rest[r], opened[r], Program(cmd[r]), d)
    /\ Running(r) /\ Translates(r) =>
          /\ Len(got[r]) = ReadAfter(cmd[r], d)
          /\ Heard(r)
          /\ OutputIsOurs(r) => Kept(r, d)

RunInv(r) ==
    /\ cmd[r] \in Menu[r] \cup {None}
    /\ cmd[r] = None <=> outcome[r] = "idle"
    /\ cmd[r] = None => opened[r] = {} /\ got[r] = <<>>
    /\ cmd[r] # None => \E d \in 0..Len(Program(cmd[r])) : Stage(r, d)
    /\ Running(r) => rest[r] # <<>> /\ \A f \in Files : files[f] \in held[r][f]
    /\ \A f \in opened[r] : files[f] # Absent

IInv == Types /\ \A r \in Runs : RunInv(r)

LEMMA ProgramSteps ==
    ASSUME NEW r \in Runs, NEW c \in Menu[r], NEW P, P = Program(c)
    PROVE  /\ P \in Seq(Step) /\ Len(P) >= 1
           /\ \A k \in 1..Len(P) :
                 /\ Changes(P[k]) => P[k].of \in Files \cap Outputs(c)
                 /\ P[k].do = "read" => P[k].of \in Files \cup {""}
                 /\ P[k].do = "write" => P[k].of \in Files
<1>1. CASE c.tool = "configtxgen"
  <2>1. P \in Seq(StepsOf(c)) /\ Len(P) >= 1
    BY <1>1, GenerationProgramIs
  <2>2. \A k \in 1..Len(P) : P[k] \in StepsOf(c)
    BY <2>1, ElementOfSeq
  <2>3. P \in Seq(Step)
    <3>1. StepsOf(c) \subseteq Step
      BY DEF StepsOf
    <3> QED BY <2>1, <3>1, SeqMonotonic
  <2> QED BY <2>1, <2>2, <2>3 DEF StepsOf, Changes
<1>2. CASE c.tool = "configtxlator"
  <2>1. PICK m : m = Len(c.order)
    OBVIOUS
  <2>2. PICK n : n = Len(Inputs(c))
    OBVIOUS
  <2>3. /\ m \in Nat /\ n \in Nat /\ P \in Seq(Step)
        /\ Len(P) = m + n + 3 /\ IsTranslation(P, c, m, n)
        /\ P[m + n + 3] = LastStep
    <3>1. IsProgram(P, c, m, n)
      BY <1>2, <2>1, <2>2, TranslationProgramIs
    <3> QED BY <3>1 DEF IsProgram
  <2>4. ASSUME NEW k \in 1..Len(P)
        PROVE  /\ Changes(P[k]) => P[k].of \in Files \cap Outputs(c)
               /\ P[k].do = "read" => P[k].of \in Files \cup {""}
               /\ P[k].do = "write" => P[k].of \in Files
    <3>0. k \in 1..(m + n + 3)
      BY <2>3
    <3>1. StepIs(P, c, m, n, k)
      BY <1>2, <2>1, <2>2, <2>3, <3>0, TranslationStep
    <3>2. \A j \in 1..n : c.file[Inputs(c)[j]] \in Files \cup {""}
      BY <1>2, <2>2, InputsAre
    <3>3. Output(c) \in Files \cap Outputs(c)
      BY <1>2, TranslationParts DEF Outputs
    <3> QED BY <3>1, <3>2, <3>3 DEF Changes, StepIs
  <2>5. Len(P) >= 1
    BY <2>3
  <2> QED BY <2>3, <2>4, <2>5
<1>3. c.tool \in {"configtxgen", "configtxlator"}
  BY MenuAssumption DEF Translations, Generations
<1> QED BY <1>1, <1>2, <1>3

\* Where a run of configtxlator is, by the step that comes next.
Standing(c, left, names, d, m, n) ==
    /\ m \in Nat /\ n \in Nat /\ d \in 0..(m + n + 3)
    /\ Len(Program(c)) = m + n + 3
    /\ names \subseteq {Output(c)}
    /\ d >= m => Output(c) \in names
    /\ d < m + n + 3 =>
          /\ left[1].do = "return" <=> d = m + n + 2
          /\ left[1].do = "write" => d = m + n + 1 /\ left[1].of = Output(c)
          /\ left[1].do = "read" =>
                /\ d > m /\ d < m + n + 1 /\ d - m \in 1..n
                /\ left[1].of = c.file[Inputs(c)[d - m]]
          /\ left[1].do = "truncate" => d < m /\ left[1].of = Output(c)
          /\ left[1].do \notin {"write", "read", "return"} => d <= m

LEMMA TranslationStage ==
    ASSUME NEW r \in Runs, NEW c \in Menu[r], c.tool = "configtxlator",
           NEW left, NEW names, NEW d, Progress(left, names, Program(c), d)
    PROVE  Standing(c, left, names, d, Len(c.order), Len(Inputs(c)))
<1>a. PICK m : m = Len(c.order)
  OBVIOUS
<1>b. PICK n : n = Len(Inputs(c))
  OBVIOUS
<1>0. PICK P : P = Program(c)
  OBVIOUS
<1>1. /\ m \in Nat /\ n \in Nat /\ Len(P) = m + n + 3
      /\ IsTranslation(P, c, m, n) /\ P[m + n + 3] = LastStep
  <2>1. IsProgram(P, c, m, n)
    BY <1>0, <1>a, <1>b, TranslationProgramIs
  <2> QED BY <2>1 DEF IsProgram
<1>2. /\ d \in 0..(m + n + 3) /\ Len(left) = (m + n + 3) - d
      /\ \A i \in 1..Len(left) : left[i] = P[d + i]
      /\ \A j \in 1..d : P[j].do = "truncate" => P[j].of \in names
      /\ \A f \in names : \E j \in 1..d : P[j].do = "truncate" /\ P[j].of = f
  BY <1>0, <1>1 DEF Progress, Follows
<1>3. ASSUME NEW k \in 1..(m + n + 3) PROVE StepIs(P, c, m, n, k)
  BY <1>1, <1>a, <1>b, TranslationStep
<1>4. names \subseteq {Output(c)}
  <2>1. ASSUME NEW f \in names PROVE f = Output(c)
    <3>1. PICK j \in 1..d : P[j].do = "truncate" /\ P[j].of = f
      BY <1>2
    <3>2. j \in 1..(m + n + 3)
      BY <1>1, <1>2
    <3>3. StepIs(P, c, m, n, j)
      BY <1>3, <3>2
    <3> QED BY <3>1, <3>3 DEF StepIs
  <2> QED BY <2>1
<1>5. ASSUME d >= m PROVE Output(c) \in names
  <2>1. PICK i \in 1..m : c.order[i] = "output"
    BY <1>a, TranslationParts
  <2>2. i \in 1..d
    BY <1>1, <1>2, <1>5
  <2>3. /\ i \in 1..(m + n + 3) /\ ~(i > m + 1)
        /\ i # m + 1 /\ i # m + n + 2 /\ i # m + n + 3
    BY <1>1, PlaceOfOutput
  <2>4. P[i].do = "truncate" /\ P[i].of = Output(c)
    <3>1. StepIs(P, c, m, n, i)
      BY <1>3, <2>3
    <3> QED BY <2>1, <2>3, <3>1 DEF StepIs
  <2> QED BY <1>2, <2>2, <2>4
<1>6. ASSUME d < m + n + 3
      PROVE  /\ left[1].do = "return" <=> d = m + n + 2
             /\ left[1].do = "write" => d = m + n + 1 /\ left[1].of = Output(c)
             /\ left[1].do = "read" =>
                   /\ d > m /\ d < m + n + 1 /\ d - m \in 1..n
                   /\ left[1].of = c.file[Inputs(c)[d - m]]
             /\ left[1].do = "truncate" => d < m /\ left[1].of = Output(c)
             /\ left[1].do \notin {"write", "read", "return"} => d <= m
  <2>1. PICK k : k = d + 1
    OBVIOUS
  <2>2. /\ k \in 1..(m + n + 3) /\ k - (m + 1) = d - m
        /\ k \in 1..m => d < m /\ d <= m
        /\ k = m + 1 => d <= m
        /\ k > m + 1 => d > m
        /\ k = m + n + 2 => d = m + n + 1
        /\ k = m + n + 3 <=> d = m + n + 2
        /\ k - (m + 1) \in 1..n => d < m + n + 1
    <3>1. m \in Nat /\ n \in Nat /\ d \in 0..(m + n + 3)
      BY <1>1, <1>2
    <3> QED BY ONLY <1>6, <2>1, <3>1, Successor
  <2>3. left[1] = P[k]
    <3>1. d \in Int /\ m + n + 3 \in Int /\ Len(left) = (m + n + 3) - d
      BY <1>1, <1>2
    <3>2. 1 \in 1..Len(left)
      BY ONLY <1>6, <3>1
    <3> QED BY <1>2, <2>1, <3>2
  <2>4. StepIs(P, c, m, n, k)
    BY <1>3, <2>2
  <2>5. k = m + n + 3 => P[k].do = "return"
    <3>1. LastStep.do = "return"
      BY DEF Do, LastStep
    <3> QED BY <1>1, <3>1
  <2> QED BY <2>2, <2>3, <2>4, <2>5 DEF StepIs
<1>7. Standing(c, left, names, d, m, n)
  BY <1>0, <1>1, <1>2, <1>4, <1>5, <1>6 DEF Standing
<1> QED BY <1>7, <1>a, <1>b

-----------------------------------------------------------------------------
(* Steps                                                                   *)

LEMMA InvInit == Init => IInv
<1> SUFFICES ASSUME Init PROVE IInv
  OBVIOUS
<1>1. Types
  <2>1. <<>> \in Seq(Step) /\ <<>> \in Seq(Contents)
    BY EmptyOf
  <2>2. files \in [Files -> Contents] /\ held \in [Runs -> [Files -> SUBSET Contents]]
    BY InitialAssumption DEF Init
  <2>3. cmd \in [Runs -> Commands \cup {None}]
    BY DEF Init
  <2>4. rest \in [Runs -> Seq(Step)] /\ got \in [Runs -> Seq(Contents)]
    BY <2>1 DEF Init
  <2>5. /\ outcome \in [Runs -> {"idle", "running", "ok", "failed"}]
        /\ opened \in [Runs -> SUBSET Files] /\ disturbed \in [Runs -> SUBSET Files]
    BY DEF Init
  <2> QED BY <2>2, <2>3, <2>4, <2>5 DEF Types
<1>2. ASSUME NEW r \in Runs PROVE RunInv(r)
  BY DEF Init, RunInv, Running
<1> QED BY <1>1, <1>2 DEF IInv

\* What the step of another run leaves as it is.
SameRun(r) ==
    /\ cmd'[r] = cmd[r] /\ rest'[r] = rest[r] /\ got'[r] = got[r]
    /\ outcome'[r] = outcome[r] /\ opened'[r] = opened[r]

\* A file is changed, every other run that is running is disturbed, and all may see it.
Touch(q, f, d) ==
    /\ files' = [files EXCEPT ![f] = d]
    /\ files[f] # Absent => d # Absent
    /\ \A r \in Runs : Running(r) =>
          /\ r # q => disturbed'[r] = disturbed[r] \cup {f}
          /\ \A g \in Files : held'[r][g] = IF g = f THEN held[r][g] \cup {d} ELSE held[r][g]

\* Nothing of it comes to the files of r.
Quiet(r) == files' = files /\ disturbed'[r] = disturbed[r] /\ held'[r] = held[r]

\* A running run sees what the files hold, and forgets nothing.
Watches(r) ==
    \A f \in Files : files'[f] \in held'[r][f] /\ held[r][f] \subseteq held'[r][f]

LEMMA Watching ==
    ASSUME Types, NEW q, NEW r \in Runs, RunInv(r), Running(r),
           Quiet(r) \/ \E f \in Files, d \in Contents : Touch(q, f, d)
    PROVE  Watches(r)
<1>1. \A f \in Files : files[f] \in held[r][f]
  BY DEF RunInv
<1>2. CASE Quiet(r)
  BY <1>1, <1>2 DEF Quiet, Watches
<1>3. CASE \E f \in Files, d \in Contents : Touch(q, f, d)
  <2>1. PICK f \in Files, d \in Contents : Touch(q, f, d)
    BY <1>3
  <2>2. \A g \in Files : files'[g] = IF g = f THEN d ELSE files[g]
    BY <2>1 DEF Touch, Types
  <2>3. \A g \in Files : held'[r][g] = IF g = f THEN held[r][g] \cup {d} ELSE held[r][g]
    BY <2>1 DEF Touch
  <2> QED BY <1>1, <2>2, <2>3 DEF Watches
<1> QED BY <1>2, <1>3

\* What was read stays what was seen.
LEMMA StillHeard ==
    ASSUME NEW r \in Runs, Heard(r), Watches(r), cmd'[r] = cmd[r], got'[r] = got[r],
           cmd[r] \in Menu[r], Translates(r), Len(got[r]) <= Len(Inputs(cmd[r])),
           Len(got[r]) \in Nat
    PROVE  Heard(r)'
<1>1. PICK c : c = cmd[r]
  OBVIOUS
<1>2. c \in Menu[r] /\ c.tool = "configtxlator" /\ cmd[r]' = c
  BY <1>1 DEF Translates
<1>3. Len(Inputs(c)) \in Nat
  BY <1>2, InputsAre, LenProperties
<1>4. Inputs(cmd[r])' = Inputs(c)
  BY <1>1, <1>2 DEF Inputs
<1>5. ASSUME NEW j \in 1..Len(got[r]) PROVE got'[r][j] \in Seen(r, Inputs(c)[j])'
  <2>1. j \in 1..Len(Inputs(c))
    BY <1>1, <1>3
  <2>2. PICK f : f = c.file[Inputs(c)[j]]
    OBVIOUS
  <2>3. f \in Files \cup {""}
    BY <1>2, <2>1, <2>2, InputsAre
  <2>4. got[r][j] \in Seen(r, Inputs(c)[j])
    BY <1>1 DEF Heard
  <2>5. f # "" /\ got[r][j] \in held[r][f]
    BY <1>1, <2>2, <2>4 DEF Seen
  <2>6. got'[r][j] \in held'[r][f]
    BY <2>3, <2>5 DEF Watches
  <2> QED BY <1>2, <2>2, <2>5, <2>6 DEF Seen
<1> QED BY <1>4, <1>5 DEF Heard

LEMMA Others ==
    ASSUME Types, NEW q, NEW r \in Runs, RunInv(r), SameRun(r),
           Quiet(r) \/ (r # q /\ \E f \in Files, d \in Contents : Touch(q, f, d))
    PROVE  RunInv(r)'
<1>1. /\ cmd[r]' = cmd[r] /\ rest[r]' = rest[r] /\ got[r]' = got[r]
      /\ outcome[r]' = outcome[r] /\ opened[r]' = opened[r]
  BY DEF SameRun
<1>2. Running(r)' <=> Running(r)
  BY <1>1 DEF Running
<1>3. Translates(r)' <=> Translates(r)
  BY <1>1 DEF Translates
<1>4. \A f \in opened[r] : files'[f] # Absent
  <2>1. \A f \in opened[r] : f \in Files /\ files[f] # Absent
    BY DEF RunInv, Types
  <2>2. CASE Quiet(r)
    BY <2>1, <2>2 DEF Quiet, RunInv
  <2>3. CASE r # q /\ \E f \in Files, d \in Contents : Touch(q, f, d)
    <3>1. PICK f \in Files, d \in Contents : Touch(q, f, d)
      BY <2>3
    <3>2. \A g \in Files : files'[g] = IF g = f THEN d ELSE files[g]
      BY <3>1 DEF Touch, Types
    <3> QED BY <2>1, <3>1, <3>2 DEF Touch
  <2> QED BY <2>2, <2>3
<1>5. Running(r) => Watches(r)
  BY Watching
<1>6. ASSUME NEW d, Stage(r, d) PROVE Stage(r, d)'
  <2>1. Progress(rest[r], opened[r], Program(cmd[r]), d)'
    <3>1. Progress(rest[r], opened[r], Program(cmd[r]), d)
      BY <1>6 DEF Stage
    <3>2. Program(cmd[r])' = Program(cmd[r])
      BY <1>1 DEF Program, TranslationSteps, GenerationSteps
    <3> QED BY <1>1, <3>1, <3>2
  <2>2. ASSUME Running(r)', Translates(r)'
        PROVE  /\ Len(got[r])' = ReadAfter(cmd[r], d)'
               /\ Heard(r)'
               /\ OutputIsOurs(r)' => Kept(r, d)'
    <3>0. PICK m : m = Len(cmd[r].order)
      OBVIOUS
    <3>a. PICK n : n = Len(Inputs(cmd[r]))
      OBVIOUS
    <3>1. cmd[r] \in Menu[r] /\ cmd[r].tool = "configtxlator"
      BY <1>2, <1>3, <2>2 DEF RunInv, Translates, Running
    <3>2. Standing(cmd[r], rest[r], opened[r], d, m, n)
      BY <1>6, <3>0, <3>1, <3>a, TranslationStage DEF Stage
    <3>3. /\ Len(got[r]) = ReadAfter(cmd[r], d) /\ Heard(r)
          /\ OutputIsOurs(r) => Kept(r, d)
      BY <1>2, <1>3, <1>6, <2>2 DEF Stage
    <3>4. ReadAfter(cmd[r], d)' = ReadAfter(cmd[r], d)
      BY <1>1 DEF ReadAfter, Inputs
    <3>5. Heard(r)'
      <4>1. m \in Nat /\ n \in Nat /\ d \in Nat /\ d <= m + n + 3
        BY <3>2 DEF Standing
      <4>2. ReadAfter(cmd[r], d) = ReadSoFar(m, n, d)
        BY <3>0, <3>a DEF ReadAfter
      <4>3. ReadSoFar(m, n, d) \in Nat /\ ReadSoFar(m, n, d) <= n
        BY <4>1 DEF ReadSoFar
      <4>4. Len(got[r]) \in Nat /\ Len(got[r]) <= Len(Inputs(cmd[r]))
        BY <3>3, <3>a, <4>2, <4>3
      <4> QED BY <1>1, <1>2, <1>3, <1>5, <2>2, <3>1, <3>3, <4>4, StillHeard
    <3>6. ASSUME OutputIsOurs(r)' PROVE Kept(r, d)'
      <4>1. PICK o : o = Output(cmd[r])
        OBVIOUS
      <4>2. o \in Files /\ opened[r] \subseteq {o}
        BY <3>1, <3>2, <4>1, TranslationParts DEF Standing
      <4>3. Output(cmd[r])' = o
        BY <1>1, <4>1 DEF Output
      <4>4. OutputIsOurs(r) /\ files'[o] = files[o]
        <5>1. CASE Quiet(r)
          BY <3>6, <4>1, <4>3, <5>1 DEF Quiet, OutputIsOurs
        <5>2. CASE r # q /\ \E f \in Files, e \in Contents : Touch(q, f, e)
          <6>1. PICK f \in Files, e \in Contents : Touch(q, f, e)
            BY <5>2
          <6>2. disturbed'[r] = disturbed[r] \cup {f}
            BY <1>2, <2>2, <5>2, <6>1 DEF Touch
          <6>3. f # o /\ o \notin disturbed[r]
            BY <3>6, <4>3, <6>2 DEF OutputIsOurs
          <6>4. files'[o] = files[o]
            BY <4>2, <6>1, <6>3 DEF Touch, Types
          <6> QED BY <4>1, <6>3, <6>4 DEF OutputIsOurs
        <5> QED BY <5>1, <5>2
      <4>5. Kept(r, d)
        BY <3>3, <4>4
      <4>6. /\ Inputs(cmd[r])' = Inputs(cmd[r])
            /\ Written(cmd[r], d)' <=> Written(cmd[r], d)
            /\ Translation(cmd[r], got[r])' = Translation(cmd[r], got[r])
        BY <1>1 DEF Inputs, Written, Translation
      <4>7. \A f \in opened[r] : files'[f] = files[f]
        BY <4>2, <4>4
      <4> QED BY <1>1, <4>1, <4>3, <4>4, <4>5, <4>6, <4>7 DEF Kept
    <3> QED BY <1>1, <3>3, <3>4, <3>5, <3>6
  <2> QED BY <2>1, <2>2 DEF Stage
<1>7. Program(cmd[r])' = Program(cmd[r])
  BY <1>1 DEF Program, TranslationSteps, GenerationSteps
<1>8. cmd[r]' # None => \E d \in 0..Len(Program(cmd[r])') : Stage(r, d)'
  <2>1. cmd[r] # None => \E d \in 0..Len(Program(cmd[r])) : Stage(r, d)
    BY DEF RunInv
  <2> QED BY <1>1, <1>6, <1>7, <2>1
<1>9. /\ cmd[r]' \in Menu[r] \cup {None}
      /\ cmd[r]' = None <=> outcome[r]' = "idle"
      /\ cmd[r]' = None => opened[r]' = {} /\ got[r]' = <<>>
      /\ Running(r)' => rest[r]' # <<>>
      /\ \A f \in opened[r]' : files'[f] # Absent
  BY <1>1, <1>2, <1>4 DEF RunInv
<1>10. Running(r)' => \A f \in Files : files'[f] \in held'[r][f]
  BY <1>2, <1>5 DEF Watches
<1> QED BY <1>8, <1>9, <1>10 DEF RunInv

\* A run that is about to take a step.
LEMMA NextStep ==
    ASSUME Types, NEW r \in Runs, RunInv(r), Running(r)
    PROVE  /\ cmd[r] \in Menu[r] /\ rest[r] # <<>>
           /\ rest[r][1] \in Step
           /\ Changes(rest[r][1]) => Of(r) \in Files \cap Outputs(cmd[r])
           /\ At(r, "read") => Of(r) \in Files \cup {""}
           /\ At(r, "write") => Of(r) \in Files
           /\ \E d \in 0..Len(Program(cmd[r])) :
                 /\ Stage(r, d) /\ d < Len(Program(cmd[r]))
                 /\ rest[r][1] = Program(cmd[r])[d + 1]
<1>1. cmd[r] \in Menu[r] /\ rest[r] # <<>>
  BY DEF RunInv, Running
<1>2. PICK P : P = Program(cmd[r])
  OBVIOUS
<1>3. PICK d \in 0..Len(P) : Stage(r, d)
  BY <1>1, <1>2, MenuAssumption DEF RunInv, Running
<1>4. /\ P \in Seq(Step)
      /\ \A k \in 1..Len(P) :
            /\ Changes(P[k]) => P[k].of \in Files \cap Outputs(cmd[r])
            /\ P[k].do = "read" => P[k].of \in Files \cup {""}
            /\ P[k].do = "write" => P[k].of \in Files
  BY <1>1, <1>2, ProgramSteps
<1>5. rest[r] \in Seq(Step) /\ Len(rest[r]) \in Nat /\ Len(rest[r]) # 0 /\ Len(P) \in Nat
  <2>1. rest[r] \in Seq(Step)
    BY DEF Types
  <2>2. Len(rest[r]) # 0
    BY <1>1, <2>1, EmptySeq, SeqEqual
  <2> QED BY <1>4, <2>1, <2>2, LenProperties
<1>6. /\ Len(rest[r]) = Len(P) - d
      /\ \A i \in 1..Len(rest[r]) : rest[r][i] = P[d + i]
  BY <1>2, <1>3 DEF Stage, Progress, Follows
<1>7. d < Len(P) /\ 1 \in 1..Len(rest[r]) /\ d + 1 \in 1..Len(P)
  BY <1>5, <1>6
<1>8. rest[r][1] = P[d + 1] /\ rest[r][1] \in Step
  BY <1>5, <1>6, <1>7, ElementOfSeq
<1> QED BY <1>1, <1>2, <1>3, <1>4, <1>7, <1>8 DEF At, Of

LEMMA Onward ==
    ASSUME Types, NEW r \in Runs, RunInv(r), Running(r), Advance(r), Passed(rest[r][1]),
           NEW P, P \in Seq(Step), NEW d \in 0..Len(P), Progress(rest[r], opened[r], P, d),
           NEW names, names = IF rest[r][1].do = "truncate" THEN opened[r] \cup {Of(r)}
                                                            ELSE opened[r]
    PROVE  /\ d + 1 \in 0..Len(P)
           /\ Progress(rest'[r], names, P, d + 1)
           /\ rest'[r] \in Seq(Step)
           /\ outcome'[r] = IF d + 1 = Len(P) THEN "ok" ELSE "running"
           /\ outcome'[r] = "running" => rest'[r] # <<>>
<1>1. rest[r] # <<>> /\ rest[r] \in Seq(Step)
  BY DEF RunInv, Types
<1>2. rest'[r] = Tail(rest[r])
  BY DEF Advance, Types
<1>3. /\ rest'[r] \in Seq(Step) /\ Len(rest'[r]) = Len(rest[r]) - 1
      /\ \A i \in 1..Len(rest'[r]) : rest'[r][i] = rest[r][i + 1]
  BY <1>1, <1>2, HeadTailProperties
<1>4. /\ Len(rest[r]) = Len(P) - d
      /\ \A i \in 1..Len(rest[r]) : rest[r][i] = P[d + i]
      /\ \A j \in 1..d : Passed(P[j])
      /\ \A j \in 1..d : P[j].do = "truncate" => P[j].of \in opened[r]
      /\ \A f \in opened[r] : \E j \in 1..d : P[j].do = "truncate" /\ P[j].of = f
  BY DEF Progress, Follows
<1>5. Len(rest[r]) \in Nat /\ Len(rest'[r]) \in Nat /\ Len(P) \in Nat /\ d \in Nat
  BY <1>1, <1>3, LenProperties
<1>6. d + 1 \in 0..Len(P) /\ 1 \in 1..Len(rest[r]) /\ Len(rest'[r]) = Len(P) - (d + 1)
  BY <1>3, <1>4, <1>5
<1>7. rest[r][1] = P[d + 1]
  BY <1>4, <1>6
<1>8. ASSUME NEW i \in 1..Len(rest'[r]) PROVE rest'[r][i] = P[(d + 1) + i]
  <2>1. i + 1 \in 1..Len(rest[r]) /\ d + (i + 1) = (d + 1) + i
    BY <1>3, <1>5
  <2> QED BY <1>3, <1>4, <2>1
<1>9. \A j \in 1..(d + 1) : j \in 1..d \/ j = d + 1
  BY <1>5
<1>10. \A j \in 1..(d + 1) : Passed(P[j])
  BY <1>4, <1>7, <1>9
<1>11. \A j \in 1..(d + 1) : P[j].do = "truncate" => P[j].of \in names
  BY <1>4, <1>7, <1>9 DEF Of
<1>12. ASSUME NEW f \in names
       PROVE  \E j \in 1..(d + 1) : P[j].do = "truncate" /\ P[j].of = f
  <2>1. CASE f \in opened[r]
    <3>1. PICK j \in 1..d : P[j].do = "truncate" /\ P[j].of = f
      BY <1>4, <2>1
    <3>2. j \in 1..(d + 1)
      BY <1>5
    <3> QED BY <3>1, <3>2
  <2>2. CASE f \notin opened[r]
    <3>1. rest[r][1].do = "truncate" /\ f = Of(r)
      BY <2>2
    <3>2. d + 1 \in 1..(d + 1)
      BY <1>5
    <3> QED BY <1>7, <3>1, <3>2 DEF Of
  <2> QED BY <2>1, <2>2
<1>13. Progress(rest'[r], names, P, d + 1)
  BY <1>6, <1>8, <1>10, <1>11, <1>12 DEF Progress, Follows
<1>14. outcome'[r] = IF Len(rest[r]) = 1 THEN "ok" ELSE "running"
  BY DEF Advance, Types, Running
<1>15. Len(rest[r]) = 1 <=> d + 1 = Len(P)
  BY <1>4, <1>5
<1>16. ASSUME Len(rest[r]) # 1 PROVE rest'[r] # <<>>
  <2>1. Len(rest'[r]) # 0
    BY <1>3, <1>5, <1>16
  <2> QED BY <2>1, EmptyOf
<1> QED BY <1>3, <1>6, <1>13, <1>14, <1>15, <1>16

LEMMA Aborted ==
    ASSUME Types, NEW r \in Runs, RunInv(r), Running(r), Abort(r),
           cmd'[r] = cmd[r], opened'[r] = opened[r],
           \A f \in opened[r] : files'[f] # Absent
    PROVE  RunInv(r)'
<1>1. outcome'[r] = "failed" /\ rest'[r] = rest[r]
  BY DEF Abort, Types
<1>2. ~Running(r)'
  BY <1>1 DEF Running
<1>3. cmd[r] \in Menu[r] /\ cmd[r] # None
  BY DEF RunInv, Running
<1>4. Program(cmd[r])' = Program(cmd[r])
  BY DEF Program, TranslationSteps, GenerationSteps
<1>5. ASSUME NEW d, Stage(r, d) PROVE Stage(r, d)'
  <2>1. Progress(rest[r], opened[r], Program(cmd[r]), d)
    BY <1>5 DEF Stage
  <2>2. Progress(rest[r], opened[r], Program(cmd[r]), d)'
    BY <1>1, <1>4, <2>1
  <2> QED BY <1>2, <2>2 DEF Stage
<1>6. \E d \in 0..Len(Program(cmd[r])') : Stage(r, d)'
  <2>1. \E d \in 0..Len(Program(cmd[r])) : Stage(r, d)
    BY <1>3 DEF RunInv
  <2> QED BY <1>4, <1>5, <2>1
<1>7. /\ cmd[r]' \in Menu[r] \cup {None} /\ cmd[r]' # None /\ outcome[r]' # "idle"
      /\ \A f \in opened[r]' : files'[f] # Absent
  BY <1>1, <1>3
<1> QED BY <1>2, <1>6, <1>7 DEF RunInv

\* What is to be shown of a run of configtxlator that goes on.
GoesOn(r) ==
    \A d \in 0..Len(Program(cmd[r])) :
        Stage(r, d) /\ outcome'[r] = "running" /\ Translates(r) =>
            /\ Len(got'[r]) = ReadAfter(cmd[r], d + 1)
            /\ Heard(r)'
            /\ OutputIsOurs(r)' => Kept(r, d + 1)'

LEMMA Advanced ==
    ASSUME Types, NEW r \in Runs, RunInv(r), Running(r), Advance(r), Passed(rest[r][1]),
           cmd'[r] = cmd[r],
           opened'[r] = IF rest[r][1].do = "truncate" THEN opened[r] \cup {Of(r)}
                                                      ELSE opened[r],
           \A f \in opened'[r] : files'[f] # Absent,
           Watches(r), GoesOn(r)
    PROVE  RunInv(r)'
<1>1. cmd[r] \in Menu[r] /\ cmd[r] # None
  BY DEF RunInv, Running
<1>2. PICK P : P = Program(cmd[r])
  OBVIOUS
<1>3. P \in Seq(Step)
  BY <1>1, <1>2, ProgramSteps
<1>4. PICK d \in 0..Len(P) : Stage(r, d)
  BY <1>1, <1>2 DEF RunInv
<1>5. Progress(rest[r], opened[r], P, d)
  BY <1>2, <1>4 DEF Stage
<1>6. PICK names : names = IF rest[r][1].do = "truncate" THEN opened[r] \cup {Of(r)}
                                                          ELSE opened[r]
  OBVIOUS
<1>7. /\ d + 1 \in 0..Len(P)
      /\ Progress(rest'[r], names, P, d + 1)
      /\ outcome'[r] = IF d + 1 = Len(P) THEN "ok" ELSE "running"
      /\ outcome'[r] = "running" => rest'[r] # <<>>
  BY <1>3, <1>5, <1>6, Onward
<1>8. opened'[r] = names
  BY <1>6
<1>9. Program(cmd[r])' = P
  BY <1>2 DEF Program, TranslationSteps, GenerationSteps
<1>10. Progress(rest[r], opened[r], Program(cmd[r]), d + 1)'
  BY <1>7, <1>8, <1>9
<1>11. ASSUME Running(r)', Translates(r)'
       PROVE  /\ Len(got[r])' = ReadAfter(cmd[r], d + 1)' /\ Heard(r)'
              /\ OutputIsOurs(r)' => Kept(r, d + 1)'
  <2>1. outcome'[r] = "running" /\ Translates(r)
    BY <1>11 DEF Running, Translates
  <2>2. /\ Len(got'[r]) = ReadAfter(cmd[r], d + 1) /\ Heard(r)'
        /\ OutputIsOurs(r)' => Kept(r, d + 1)'
    BY <1>2, <1>4, <2>1 DEF GoesOn
  <2>3. ReadAfter(cmd[r], d + 1)' = ReadAfter(cmd[r], d + 1)
    BY DEF ReadAfter, Inputs
  <2> QED BY <2>2, <2>3
<1>12. Stage(r, d + 1)'
  BY <1>10, <1>11 DEF Stage
<1>13. \E e \in 0..Len(Program(cmd[r])') : Stage(r, e)'
  BY <1>7, <1>9, <1>12
<1>14. /\ cmd[r]' \in Menu[r] \cup {None} /\ cmd[r]' # None /\ outcome[r]' # "idle"
       /\ Running(r)' => rest[r]' # <<>> /\ \A f \in Files : files'[f] \in held'[r][f]
       /\ \A f \in opened[r]' : files'[f] # Absent
  BY <1>1, <1>7 DEF Running, Watches
<1> QED BY <1>13, <1>14 DEF RunInv

\* What every step of q does: its own run goes on as it should, and the others are left
\* alone or disturbed.
Stepped(q) ==
    /\ Types'
    /\ RunInv(q)'
    /\ \A r \in Runs \ {q} : SameRun(r)
    /\ \/ \A r \in Runs \ {q} : Quiet(r)
       \/ \E f \in Files, d \in Contents : Touch(q, f, d)

LEMMA AdvanceTypes ==
    ASSUME Types, NEW r \in Runs, rest[r] # <<>>, Running(r), Advance(r) \/ Abort(r)
    PROVE  /\ rest' \in [Runs -> Seq(Step)]
           /\ outcome' \in [Runs -> {"idle", "running", "ok", "failed"}]
           /\ \A q \in Runs \ {r} : rest'[q] = rest[q] /\ outcome'[q] = outcome[q]
<1>1. CASE Advance(r)
  <2>1. Tail(rest[r]) \in Seq(Step)
    BY HeadTailProperties DEF Types
  <2>2. rest' = [rest EXCEPT ![r] = Tail(rest[r])]
    BY <1>1 DEF Advance
  <2>3. outcome' = [outcome EXCEPT ![r] = "ok"] \/ outcome' = outcome
    <3>1. CASE Len(rest[r]) = 1
      BY <1>1, <3>1 DEF Advance
    <3>2. CASE Len(rest[r]) # 1
      BY <1>1, <3>2 DEF Advance, Types
    <3> QED BY <3>1, <3>2
  <2> QED BY <2>1, <2>2, <2>3 DEF Types
<1>2. CASE Abort(r)
  BY <1>2 DEF Abort, Types
<1> QED BY <1>1, <1>2

\* Steps that touch no file, and read none.
Silent(r) ==
    /\ Running(r)
    /\ \/ Abort(r)
       \/ /\ Advance(r) /\ Passed(rest[r][1])
          /\ rest[r][1].do \notin {"truncate", "read", "write"}
    /\ UNCHANGED <<files, cmd, got, opened, held, disturbed>>

LEMMA SilentSteps ==
    ASSUME NEW r \in Runs
    PROVE  /\ Open(r) => Silent(r)
           /\ Require(r) => Silent(r)
           /\ Load(r) => Silent(r)
           /\ Inspect(r, "inspectBlock", "block") => Silent(r)
           /\ Inspect(r, "inspectChannelTx", "channel tx") => Silent(r)
           /\ Return(r) => Silent(r)
           /\ Stop(r) => Silent(r)
<1>1. Open(r) => Silent(r)
  BY DEF Open, At, Silent, Passed
<1>2. Require(r) => Silent(r)
  BY DEF Require, At, Of, Silent, Passed
<1>3. Load(r) => Silent(r)
  BY DEF Load, At, Of, Silent, Passed
<1>4. Inspect(r, "inspectBlock", "block") => Silent(r)
  BY DEF Inspect, At, Silent, Passed
<1>5. Inspect(r, "inspectChannelTx", "channel tx") => Silent(r)
  BY DEF Inspect, At, Silent, Passed
<1>6. Stop(r) => Silent(r)
  BY DEF Stop, Silent
<1>7. Return(r) => Silent(r)
  BY DEF Return, At, Silent, Passed
<1> QED BY <1>1, <1>2, <1>3, <1>4, <1>5, <1>6, <1>7

\* How far a run of configtxlator is.
LEMMA Stands ==
    ASSUME Types, NEW r \in Runs, RunInv(r), Running(r), Translates(r),
           NEW d, Stage(r, d)
    PROVE  Standing(cmd[r], rest[r], opened[r], d, Len(cmd[r].order), Len(Inputs(cmd[r])))
<1>1. cmd[r] \in Menu[r] /\ cmd[r].tool = "configtxlator"
  BY DEF RunInv, Running, Translates
<1>2. Progress(rest[r], opened[r], Program(cmd[r]), d)
  BY DEF Stage
<1> QED BY <1>1, <1>2, TranslationStage

LEMMA NotDone ==
    ASSUME Types, NEW r \in Runs, RunInv(r), Running(r),
           NEW d \in 0..Len(Program(cmd[r])), Stage(r, d)
    PROVE  /\ d < Len(Program(cmd[r])) /\ rest[r][1] = Program(cmd[r])[d + 1]
           /\ Len(rest[r]) = 1 <=> d + 1 = Len(Program(cmd[r]))
<1>1. PICK P : P = Program(cmd[r])
  OBVIOUS
<1>2. P \in Seq(Step) /\ rest[r] \in Seq(Step) /\ rest[r] # <<>>
  BY <1>1, NextStep, ProgramSteps DEF Types
<1>3. /\ Len(rest[r]) = Len(P) - d
      /\ \A i \in 1..Len(rest[r]) : rest[r][i] = P[d + i]
  BY <1>1 DEF Stage, Progress, Follows
<1>4. Len(P) \in Nat /\ Len(rest[r]) \in Nat /\ Len(rest[r]) # 0 /\ d \in Nat
  <2>1. Len(rest[r]) # 0
    BY <1>2, EmptySeq, SeqEqual
  <2> QED BY <1>1, <1>2, <2>1, LenProperties
<1>5. d < Len(P) /\ 1 \in 1..Len(rest[r]) /\ (Len(rest[r]) = 1 <=> d + 1 = Len(P))
  BY <1>3, <1>4
<1> QED BY <1>1, <1>3, <1>5

\* A run of configtxlator that has not written yet, nor read anything.
LEMMA FirstSteps ==
    ASSUME Types, NEW r \in Runs, RunInv(r), Running(r), Translates(r),
           NEW d \in 0..Len(Program(cmd[r])), Stage(r, d), d <= Len(cmd[r].order)
    PROVE  /\ Len(got[r]) = 0 /\ ReadAfter(cmd[r], d + 1) = 0
           /\ ~Written(cmd[r], d) /\ ~Written(cmd[r], d + 1)
<1>1. PICK m : m = Len(cmd[r].order)
  OBVIOUS
<1>2. PICK n : n = Len(Inputs(cmd[r]))
  OBVIOUS
<1>3. m \in Nat /\ n \in Nat /\ d \in Nat /\ d <= m
  BY <1>1, <1>2, Stands DEF Standing
<1>4. ReadAfter(cmd[r], d) = 0 /\ ReadAfter(cmd[r], d + 1) = 0
  BY <1>1, <1>2, <1>3, ReadBefore DEF ReadAfter
<1>5. Len(got[r]) = 0
  BY <1>4 DEF Stage
<1>6. d # m + n + 2 /\ d + 1 # m + n + 2
  BY <1>3
<1> QED BY <1>1, <1>2, <1>4, <1>5, <1>6 DEF Written

LEMMA SilentInv ==
    ASSUME IInv, NEW q \in Runs, Silent(q)
    PROVE  Stepped(q)
<1>1. Types /\ RunInv(q) /\ Running(q)
  BY DEF IInv, Silent
<1>2. rest[q] # <<>>
  BY <1>1, NextStep
<1>3. /\ files' = files /\ cmd' = cmd /\ got' = got /\ opened' = opened
      /\ held' = held /\ disturbed' = disturbed
  BY DEF Silent
<1>4. Types'
  BY <1>1, <1>2, <1>3, AdvanceTypes DEF Types, Silent
<1>5. \A r \in Runs \ {q} : SameRun(r)
  BY <1>1, <1>2, <1>3, AdvanceTypes DEF SameRun, Silent
<1>6. \A f \in opened[q] : files'[f] # Absent
  BY <1>1, <1>3 DEF RunInv
<1>9. \A r \in Runs : Quiet(r)
  BY <1>3 DEF Quiet
<1>7. CASE Abort(q)
  <2>1. RunInv(q)'
    BY <1>1, <1>3, <1>6, <1>7, Aborted
  <2> QED BY <1>4, <1>5, <1>9, <2>1 DEF Stepped
<1>8. CASE /\ Advance(q) /\ Passed(rest[q][1])
           /\ rest[q][1].do \notin {"truncate", "read", "write"}
  <2>1. GoesOn(q)
    <3> SUFFICES ASSUME NEW d \in 0..Len(Program(cmd[q])), Stage(q, d),
                        outcome'[q] = "running", Translates(q)
                 PROVE  /\ Len(got'[q]) = ReadAfter(cmd[q], d + 1)
                        /\ Heard(q)'
                        /\ OutputIsOurs(q)' => Kept(q, d + 1)'
      BY DEF GoesOn
    <3>1. d <= Len(cmd[q].order)
      <4>1. d < Len(Program(cmd[q])) /\ (Len(rest[q]) = 1 <=> d + 1 = Len(Program(cmd[q])))
        BY <1>1, NotDone
      <4>2. PICK m : m = Len(cmd[q].order)
        OBVIOUS
      <4>3. PICK n : n = Len(Inputs(cmd[q]))
        OBVIOUS
      <4>4. Standing(cmd[q], rest[q], opened[q], d, m, n)
        BY <1>1, <4>2, <4>3, Stands
      <4>5. Len(rest[q]) # 1
        BY <1>1, <1>8 DEF Advance, Types
      <4>6. d # m + n + 2
        <5>1. m \in Nat /\ n \in Nat /\ d + 1 # m + n + 3
          BY <4>1, <4>4, <4>5 DEF Standing
        <5> QED BY <5>1
      <4> QED BY <1>8, <4>1, <4>2, <4>4, <4>6 DEF Standing
    <3>2. /\ Len(got[q]) = 0 /\ ReadAfter(cmd[q], d + 1) = 0
          /\ ~Written(cmd[q], d) /\ ~Written(cmd[q], d + 1)
      BY <1>1, <3>1, FirstSteps
    <3>3. \A j \in 1..Len(got'[q]) : FALSE
      BY <1>3, <3>2
    <3>4. Heard(q)'
      BY <3>3 DEF Heard
    <3>5. ASSUME OutputIsOurs(q)' PROVE Kept(q, d + 1)'
      <4>1. OutputIsOurs(q)
        BY <1>3, <3>5 DEF OutputIsOurs, Output
      <4>2. Kept(q, d)
        BY <1>1, <4>1 DEF Stage
      <4>3. \A f \in opened'[q] : files'[f] = Empty
        BY <1>3, <3>2, <4>2 DEF Kept
      <4>4. ~Written(cmd[q], d + 1)'
        BY <1>3, <3>2 DEF Written, Inputs
      <4> QED BY <3>3, <4>3, <4>4 DEF Kept
    <3> QED BY <1>3, <3>2, <3>4, <3>5
  <2>2. Watches(q)
    BY <1>1, <1>3 DEF RunInv, Watches
  <2>3. RunInv(q)'
    BY <1>1, <1>3, <1>6, <1>8, <2>1, <2>2, Advanced
  <2> QED BY <1>4, <1>5, <1>9, <2>3 DEF Stepped
<1> QED BY <1>7, <1>8 DEF Silent

LEMMA StartInv ==
    ASSUME IInv, NEW q \in Runs, NEW c \in Menu[q], Start(q, c)
    PROVE  Stepped(q)
<1>1. Types /\ RunInv(q) /\ outcome[q] = "idle" /\ cmd[q] = None
  BY DEF IInv, Start, RunInv
<1>2. c \in Commands /\ c # None
  <2>1. c \in Commands
    BY MenuAssumption DEF Commands
  <2>2. c.tool \in {"configtxlator", "configtxgen"}
    BY <2>1 DEF Commands, Translations, Generations
  <2>3. None.tool = "none"
    BY DEF None
  <2> QED BY <2>1, <2>2, <2>3
<1>3. PICK P : P = Program(c)
  OBVIOUS
<1>4. P \in Seq(Step) /\ Len(P) >= 1 /\ Len(P) \in Nat
  BY <1>3, ProgramSteps, LenProperties
<1>5. /\ outcome' = [outcome EXCEPT ![q] = "running"]
      /\ cmd' = [cmd EXCEPT ![q] = c]
      /\ rest' = [rest EXCEPT ![q] = P]
      /\ held' = [held EXCEPT ![q] = [f \in Files |-> {files[f]}]]
      /\ files' = files /\ got' = got /\ opened' = opened /\ disturbed' = disturbed
  BY <1>3 DEF Start
<1>6. Types'
  <2>1. rest' \in [Runs -> Seq(Step)]
    BY <1>1, <1>4, <1>5 DEF Types
  <2>2. cmd' \in [Runs -> Commands \cup {None}]
    BY <1>1, <1>2, <1>5 DEF Types
  <2>3. held' \in [Runs -> [Files -> SUBSET Contents]]
    <3>1. [f \in Files |-> {files[f]}] \in [Files -> SUBSET Contents]
      BY <1>1 DEF Types
    <3> QED BY <1>1, <1>5, <3>1 DEF Types
  <2>4. outcome' \in [Runs -> {"idle", "running", "ok", "failed"}]
    BY <1>1, <1>5 DEF Types
  <2> QED BY <1>1, <1>5, <2>1, <2>2, <2>3, <2>4 DEF Types
<1>7. \A r \in Runs \ {q} : SameRun(r)
  BY <1>1, <1>5 DEF SameRun, Types
<1>8. /\ cmd'[q] = c /\ rest'[q] = P /\ outcome'[q] = "running"
      /\ \A f \in Files : files'[f] \in held'[q][f]
      /\ got'[q] = <<>> /\ opened'[q] = {}
  BY <1>1, <1>5 DEF Types, RunInv
<1>9. Program(cmd[q])' = P
  BY <1>3, <1>8 DEF Program, TranslationSteps, GenerationSteps
<1>10. Stage(q, 0)'
  <2>1. Progress(P, {}, P, 0)
    BY <1>4 DEF Progress, Follows
  <2>2. Progress(rest[q], opened[q], Program(cmd[q]), 0)'
    BY <1>8, <1>9, <2>1
  <2>3. ASSUME Translates(q)'
        PROVE  /\ Len(got[q])' = ReadAfter(cmd[q], 0)'
               /\ ~Written(cmd[q], 0)'
    <3>1. c.tool = "configtxlator"
      BY <1>8, <2>3 DEF Translates
    <3>2. Len(c.order) \in Nat /\ Len(Inputs(c)) \in Nat
      BY <3>1, TranslationParts, InputsAre, LenProperties
    <3>3. Len(got'[q]) = 0
      BY <1>8, EmptyOf
    <3>4. ReadSoFar(Len(c.order), Len(Inputs(c)), 0) = 0
      BY <3>2, ReadBefore
    <3>5. ReadAfter(cmd[q], 0)' = 0
      BY <1>8, <3>4 DEF ReadAfter, Inputs
    <3>6. 0 # Len(c.order) + Len(Inputs(c)) + 2
      BY <3>2
    <3>7. ~Written(cmd[q], 0)'
      BY <1>8, <3>6 DEF Written, Inputs
    <3> QED BY <3>3, <3>5, <3>7
  <2>4. \A j \in 1..Len(got'[q]) : FALSE
    BY <1>8, EmptyOf
  <2>5. Heard(q)'
    BY <2>4 DEF Heard
  <2>6. ~Written(cmd[q], 0)' => Kept(q, 0)'
    BY <1>8, <2>4 DEF Kept
  <2> QED BY <2>2, <2>3, <2>5, <2>6 DEF Stage
<1>11. P # <<>>
  BY <1>4, EmptyOf
<1>12. RunInv(q)'
  <2>1. \E d \in 0..Len(Program(cmd[q])') : Stage(q, d)'
    BY <1>4, <1>9, <1>10
  <2> QED BY <1>2, <1>8, <1>11, <2>1 DEF RunInv
<1>13. \A r \in Runs \ {q} : Quiet(r)
  BY <1>1, <1>5 DEF Quiet, Types
<1> QED BY <1>6, <1>7, <1>12, <1>13 DEF Stepped

\* A file is changed by run q: what this does to the types and to all runs.
LEMMA ChangeTouches ==
    ASSUME Types, NEW q \in Runs, NEW f \in Files, NEW d \in Contents,
           files[f] # Absent => d # Absent, Change(q, f, d)
    PROVE  /\ files' \in [Files -> Contents]
           /\ held' \in [Runs -> [Files -> SUBSET Contents]]
           /\ disturbed' \in [Runs -> SUBSET Files]
           /\ disturbed'[q] = disturbed[q]
           /\ Touch(q, f, d)
           /\ files'[f] = d
           /\ \A g \in Files : g # f => files'[g] = files[g]
           /\ \A g \in Files : files[g] # Absent => files'[g] # Absent
<1>1. /\ files' = [files EXCEPT ![f] = d]
      /\ held' = [r \in Runs |-> IF Running(r) THEN [held[r] EXCEPT ![f] = held[r][f] \cup {d}]
                                               ELSE held[r]]
      /\ disturbed' = [r \in Runs |-> IF r # q /\ Running(r) THEN disturbed[r] \cup {f}
                                                             ELSE disturbed[r]]
  <2>1. \A r \in Runs : [held[r] EXCEPT ![f] = @ \cup {d}]
                        = [held[r] EXCEPT ![f] = held[r][f] \cup {d}]
    BY DEF Types
  <2> QED BY <2>1 DEF Change
<1>2. /\ files' \in [Files -> Contents]
      /\ \A g \in Files : files'[g] = IF g = f THEN d ELSE files[g]
  BY <1>1 DEF Types
<1>3. disturbed' \in [Runs -> SUBSET Files] /\ disturbed'[q] = disturbed[q]
  BY <1>1 DEF Types
<1>4. ASSUME NEW r \in Runs
      PROVE  /\ held'[r] \in [Files -> SUBSET Contents]
             /\ Running(r) =>
                   \A g \in Files : held'[r][g] = IF g = f THEN held[r][g] \cup {d} ELSE held[r][g]
  <2>1. PICK h : h = held[r]
    OBVIOUS
  <2>2. h \in [Files -> SUBSET Contents]
    BY <2>1 DEF Types
  <2>3. CASE Running(r)
    <3>1. held'[r] = [h EXCEPT ![f] = h[f] \cup {d}]
      BY <1>1, <2>1, <2>3
    <3>2. h[f] \cup {d} \in SUBSET Contents
      BY <2>2
    <3>3. /\ [h EXCEPT ![f] = h[f] \cup {d}] \in [Files -> SUBSET Contents]
          /\ \A g \in Files : [h EXCEPT ![f] = h[f] \cup {d}][g]
                               = IF g = f THEN h[g] \cup {d} ELSE h[g]
      BY <2>2, <3>2
    <3> QED BY <2>1, <3>1, <3>3
  <2>4. CASE ~Running(r)
    BY <1>1, <2>1, <2>2, <2>4
  <2> QED BY <2>3, <2>4
<1>5. held' \in [Runs -> [Files -> SUBSET Contents]]
  BY <1>1, <1>4
<1>6. \A r \in Runs : Running(r) =>
          /\ r # q => disturbed'[r] = disturbed[r] \cup {f}
          /\ \A g \in Files : held'[r][g] = IF g = f THEN held[r][g] \cup {d} ELSE held[r][g]
  BY <1>1, <1>4
<1>7. Touch(q, f, d)
  BY <1>1, <1>6 DEF Touch
<1> QED BY <1>2, <1>3, <1>5, <1>7

LEMMA TruncateInv ==
    ASSUME IInv, NEW q \in Runs, Truncate(q)
    PROVE  Stepped(q)
<1>1. Types /\ RunInv(q) /\ Running(q) /\ rest[q][1].do = "truncate"
  BY DEF IInv, Truncate, At
<1>2. rest[q] # <<>> /\ Of(q) \in Files
  BY <1>1, NextStep DEF Changes
<1>3. PICK f \in Files : f = Of(q)
  BY <1>2
<1>4. /\ Advance(q) /\ Change(q, f, Empty)
      /\ opened' = [opened EXCEPT ![q] = opened[q] \cup {f}]
      /\ cmd' = cmd /\ got' = got
  BY <1>3 DEF Truncate
<1>5. Empty \in Contents /\ Empty # Absent
  BY WholeOnes DEF Whole
<1>6. /\ files' \in [Files -> Contents]
      /\ held' \in [Runs -> [Files -> SUBSET Contents]]
      /\ disturbed' \in [Runs -> SUBSET Files]
      /\ disturbed'[q] = disturbed[q]
      /\ Touch(q, f, Empty)
      /\ files'[f] = Empty
      /\ \A g \in Files : files[g] # Absent => files'[g] # Absent
  BY <1>1, <1>4, <1>5, ChangeTouches
<1>7. opened'[q] = opened[q] \cup {f}
  BY <1>1, <1>4 DEF Types
<1>8. Types'
  <2>1. opened' \in [Runs -> SUBSET Files]
    BY <1>1, <1>4 DEF Types
  <2> QED BY <1>1, <1>2, <1>4, <1>6, <2>1, AdvanceTypes DEF Types
<1>9. \A r \in Runs \ {q} : SameRun(r)
  BY <1>1, <1>2, <1>4, AdvanceTypes DEF SameRun, Types
<1>10. Watches(q)
  BY <1>1, <1>5, <1>6, Watching
<1>11. \A g \in opened'[q] : files'[g] # Absent
  <2>1. \A g \in opened[q] : g \in Files /\ files[g] # Absent
    BY <1>1 DEF RunInv, Types
  <2> QED BY <1>5, <1>6, <1>7, <2>1
<1>12. GoesOn(q)
  <2> SUFFICES ASSUME NEW d \in 0..Len(Program(cmd[q])), Stage(q, d),
                      outcome'[q] = "running", Translates(q)
               PROVE  /\ Len(got'[q]) = ReadAfter(cmd[q], d + 1)
                      /\ Heard(q)'
                      /\ OutputIsOurs(q)' => Kept(q, d + 1)'
    BY DEF GoesOn
  <2>1. PICK m : m = Len(cmd[q].order)
    OBVIOUS
  <2>2. Standing(cmd[q], rest[q], opened[q], d, m, Len(Inputs(cmd[q])))
    BY <1>1, <2>1, Stands
  <2>3. m \in Nat /\ d \in Nat /\ d < m /\ f = Output(cmd[q]) /\ opened[q] \subseteq {f}
    <3>1. d < Len(Program(cmd[q]))
      BY <1>1, NotDone
    <3> QED BY <1>1, <1>3, <2>2, <3>1 DEF Standing, Of
  <2>4. d <= Len(cmd[q].order)
    BY <2>1, <2>3
  <2>5. /\ Len(got[q]) = 0 /\ ReadAfter(cmd[q], d + 1) = 0
        /\ ~Written(cmd[q], d + 1)
    BY <1>1, <2>4, FirstSteps
  <2>6. \A j \in 1..Len(got'[q]) : FALSE
    BY <1>4, <2>5
  <2>7. Heard(q)'
    BY <2>6 DEF Heard
  <2>8. \A g \in opened'[q] : files'[g] = Empty
    BY <1>6, <1>7, <2>3
  <2>9. ~Written(cmd[q], d + 1)'
    BY <1>4, <2>5 DEF Written, Inputs
  <2>10. Kept(q, d + 1)'
    BY <2>6, <2>8, <2>9 DEF Kept
  <2> QED BY <1>4, <2>5, <2>7, <2>10
<1>13. RunInv(q)'
  <2>1. Passed(rest[q][1])
    BY <1>1 DEF Passed
  <2>2. opened'[q] = IF rest[q][1].do = "truncate" THEN opened[q] \cup {Of(q)} ELSE opened[q]
    BY <1>1, <1>3, <1>7
  <2> QED BY <1>1, <1>4, <1>10, <1>11, <1>12, <2>1, <2>2, Advanced
<1> QED BY <1>5, <1>6, <1>8, <1>9, <1>13 DEF Stepped

LEMMA ReadInv ==
    ASSUME IInv, NEW q \in Runs, Read(q)
    PROVE  Stepped(q)
<1>1. Types /\ RunInv(q) /\ Running(q) /\ rest[q][1].do = "read"
  BY DEF IInv, Read, At
<1>2. rest[q] # <<>> /\ Of(q) \in Files \cup {""}
  BY <1>1, NextStep DEF At
<1>3. /\ files' = files /\ cmd' = cmd /\ opened' = opened
      /\ held' = held /\ disturbed' = disturbed
  BY DEF Read
<1>4. \A f \in opened[q] : files'[f] # Absent
  BY <1>1, <1>3 DEF RunInv
<1>5. CASE Of(q) = ""
  <2>1. Silent(q)
    BY <1>1, <1>3, <1>5 DEF Read, Silent
  <2> QED BY <2>1, SilentInv
<1>6. CASE Of(q) # ""
  <2>1. PICK f \in Files : f = Of(q)
    BY <1>2, <1>6
  <2>2. Advance(q) /\ got' = [got EXCEPT ![q] = Append(got[q], files[f])]
    BY <1>6, <2>1 DEF Read
  <2>3. files[f] \in Contents /\ got[q] \in Seq(Contents) /\ files[f] \in held[q][f]
    BY <1>1 DEF Types, RunInv
  <2>4. /\ got'[q] \in Seq(Contents)
        /\ Len(got'[q]) = Len(got[q]) + 1
        /\ \A i \in 1..Len(got[q]) : got'[q][i] = got[q][i]
        /\ got'[q][Len(got[q]) + 1] = files[f]
        /\ Len(got[q]) \in Nat
    <3>1. got'[q] = Append(got[q], files[f])
      BY <1>1, <2>2 DEF Types
    <3> QED BY <2>3, <3>1, AppendProperties, LenProperties
  <2>5. Types'
    <3>1. got' \in [Runs -> Seq(Contents)]
      <4>1. Append(got[q], files[f]) \in Seq(Contents)
        BY <2>3, AppendProperties
      <4> QED BY <1>1, <2>2, <4>1 DEF Types
    <3> QED BY <1>1, <1>2, <1>3, <2>2, <3>1, AdvanceTypes DEF Types
  <2>6. \A r \in Runs \ {q} : SameRun(r)
    BY <1>1, <1>2, <1>3, <2>2, AdvanceTypes DEF SameRun, Types
  <2>a. \A r \in Runs : Quiet(r)
    BY <1>3 DEF Quiet
  <2>b. Watches(q)
    BY <1>1, <1>3 DEF Watches, RunInv
  <2>7. GoesOn(q)
    <3> SUFFICES ASSUME NEW d \in 0..Len(Program(cmd[q])), Stage(q, d),
                        outcome'[q] = "running", Translates(q)
                 PROVE  /\ Len(got'[q]) = ReadAfter(cmd[q], d + 1)
                        /\ Heard(q)'
                        /\ OutputIsOurs(q)' => Kept(q, d + 1)'
      BY DEF GoesOn
    <3>c. PICK c : c = cmd[q]
      OBVIOUS
    <3>1. PICK m : m = Len(c.order)
      OBVIOUS
    <3>a. PICK n : n = Len(Inputs(c))
      OBVIOUS
    <3>2. Standing(c, rest[q], opened[q], d, m, n)
      BY <1>1, <3>c, <3>1, <3>a, Stands
    <3>3. /\ m \in Nat /\ n \in Nat /\ d \in Nat /\ d > m /\ d < m + n + 1 /\ d - m \in 1..n
          /\ f = c.file[Inputs(c)[d - m]]
          /\ opened[q] = {Output(c)}
      <4>1. d < Len(Program(c))
        BY <1>1, <3>c, NotDone
      <4>8. /\ m \in Nat /\ n \in Nat /\ d \in Nat /\ d > m /\ d < m + n + 1 /\ d - m \in 1..n
            /\ f = c.file[Inputs(c)[d - m]]
        BY <1>1, <2>1, <3>2, <4>1 DEF Standing, Of
      <4>9. Output(c) \in opened[q] /\ opened[q] \subseteq {Output(c)}
        BY <3>2, <4>8 DEF Standing
      <4> QED BY <4>8, <4>9
    <3>4. ReadAfter(c, d) = d - (m + 1) /\ ReadAfter(c, d + 1) = d - m
      <4>1. m \in Nat /\ n \in Nat /\ d \in Nat /\ d > m /\ d < m + n + 1
        BY <3>3
      <4>2. ReadSoFar(m, n, d) = d - (m + 1) /\ ReadSoFar(m, n, d + 1) = d - m
        BY ONLY <4>1, ReadCount
      <4> QED BY <3>1, <3>a, <4>2 DEF ReadAfter
    <3>5. Len(got[q]) = d - (m + 1) /\ Heard(q)
      BY <1>1, <3>c, <3>4 DEF Stage
    <3>6. Len(got'[q]) = d - m /\ Len(got[q]) + 1 = d - m
      BY <2>4, <3>3, <3>5
    <3>7. ~Written(c, d) /\ ~Written(c, d + 1)
      <4>1. d # m + n + 2 /\ d + 1 # m + n + 2
        BY <3>3
      <4> QED BY <3>1, <3>a, <4>1 DEF Written
    <3>8. /\ cmd[q]' = c /\ Output(cmd[q])' = Output(c) /\ Inputs(cmd[q])' = Inputs(c)
          /\ ~Written(cmd[q], d + 1)'
      BY <1>3, <3>c, <3>7 DEF Output, Inputs, Written
    <3>9. ASSUME NEW j \in 1..Len(got'[q])
          PROVE  \/ j = d - m /\ got'[q][j] = files[f]
                 \/ j \in 1..Len(got[q]) /\ got'[q][j] = got[q][j]
      <4>1. CASE j = d - m
        BY <2>4, <3>6, <4>1
      <4>2. CASE j # d - m
        <5>1. j \in 1..Len(got[q])
          BY <2>4, <3>6, <4>2
        <5> QED BY <2>4, <5>1
      <4> QED BY <4>1, <4>2
    <3>10. Heard(q)'
      <4>1. ASSUME NEW j \in 1..Len(got'[q])
            PROVE  got'[q][j] \in Seen(q, Inputs(c)[j])'
        <5>1. \A flag : Seen(q, flag)' = Seen(q, flag)
          BY <1>3 DEF Seen
        <5>2. CASE j = d - m /\ got'[q][j] = files[f]
          <6>1. Seen(q, Inputs(c)[j]) = held[q][f]
            BY <1>6, <2>1, <3>c, <3>3, <5>2 DEF Seen
          <6> QED BY <2>3, <5>1, <5>2, <6>1
        <5>3. CASE j \in 1..Len(got[q]) /\ got'[q][j] = got[q][j]
          BY <3>c, <3>5, <5>1, <5>3 DEF Heard
        <5> QED BY <3>9, <5>2, <5>3
      <4> QED BY <3>8, <4>1 DEF Heard
    <3>11. ASSUME OutputIsOurs(q)' PROVE Kept(q, d + 1)'
      <4>1. OutputIsOurs(q)
        BY <1>3, <3>11 DEF OutputIsOurs, Output
      <4>2. Kept(q, d)
        BY <1>1, <4>1 DEF Stage
      <4>3. /\ \A g \in opened[q] : files[g] = Empty
            /\ \A j \in 1..Len(got[q]) : c.file[Inputs(c)[j]] = Output(c) => got[q][j] = Empty
        BY <3>c, <3>7, <4>2 DEF Kept
      <4>4. \A j \in 1..Len(got'[q]) : c.file[Inputs(c)[j]] = Output(c) => got'[q][j] = Empty
        BY <3>3, <3>9, <4>3
      <4>5. \A g \in opened'[q] : files'[g] = Empty
        BY <1>3, <4>3
      <4> QED BY <3>8, <4>4, <4>5 DEF Kept
    <3> QED BY <3>c, <3>4, <3>6, <3>10, <3>11
  <2>8. RunInv(q)'
    <3>1. Passed(rest[q][1])
      BY <1>1 DEF Passed
    <3>2. opened'[q] = IF rest[q][1].do = "truncate" THEN opened[q] \cup {Of(q)} ELSE opened[q]
      BY <1>1, <1>3
    <3>3. \A g \in opened'[q] : files'[g] # Absent
      BY <1>3, <1>4
    <3> QED BY <1>1, <1>3, <2>2, <2>7, <2>b, <3>1, <3>2, <3>3, Advanced
  <2> QED BY <2>5, <2>6, <2>8, <2>a DEF Stepped
<1> QED BY <1>5, <1>6

\* What is written is a whole document, and a run of configtxlator writes it when it has
\* read all its inputs.
LEMMA Writes ==
    ASSUME Types, NEW r \in Runs, RunInv(r), At(r, "write")
    PROVE  /\ Of(r) \in Files
           /\ Result(r) # Undone => Whole(Result(r))
           /\ Translates(r) =>
                 \A d \in 0..Len(Program(cmd[r])) : Stage(r, d) =>
                    /\ Of(r) = Output(cmd[r])
                    /\ opened[r] = {Output(cmd[r])}
                    /\ Len(got[r]) = Len(Inputs(cmd[r]))
                    /\ ReadAfter(cmd[r], d + 1) = Len(Inputs(cmd[r]))
                    /\ ~Written(cmd[r], d) /\ Written(cmd[r], d + 1)
                    /\ Result(r) = Translation(cmd[r], got[r])
<1>1. Running(r) /\ rest[r][1].do = "write"
  BY DEF At
<1>2. cmd[r] \in Menu[r] /\ Of(r) \in Files
  BY <1>1, NextStep
<1>3. PICK P : P = Program(cmd[r])
  OBVIOUS
<1>4. PICK d \in 0..Len(P) : Stage(r, d)
  BY <1>1, <1>2, <1>3, NextStep
<1>5. ASSUME Translates(r), NEW e \in 0..Len(P), Stage(r, e)
      PROVE  /\ Of(r) = Output(cmd[r])
             /\ opened[r] = {Output(cmd[r])}
             /\ Len(got[r]) = Len(Inputs(cmd[r]))
             /\ ReadAfter(cmd[r], e + 1) = Len(Inputs(cmd[r]))
             /\ ~Written(cmd[r], e) /\ Written(cmd[r], e + 1)
             /\ Result(r) = Translation(cmd[r], got[r])
  <2>1. PICK m : m = Len(cmd[r].order)
    OBVIOUS
  <2>2. PICK n : n = Len(Inputs(cmd[r]))
    OBVIOUS
  <2>3. Standing(cmd[r], rest[r], opened[r], e, m, n)
    BY <1>1, <1>5, <2>1, <2>2, Stands
  <2>4. e < Len(P)
    BY <1>1, <1>3, <1>5, NotDone
  <2>5. m \in Nat /\ n \in Nat /\ e = m + n + 1 /\ Of(r) = Output(cmd[r])
    BY <1>1, <1>3, <2>3, <2>4 DEF Standing, Of
  <2>6. e >= m /\ e \in Nat /\ e # m + n + 2 /\ e + 1 = m + n + 2
    BY <2>5
  <2>7. opened[r] = {Output(cmd[r])}
    BY <2>3, <2>6 DEF Standing
  <2>8. ReadAfter(cmd[r], e) = n /\ ReadAfter(cmd[r], e + 1) = n
    <3>1. ReadSoFar(m, n, e) = n /\ ReadSoFar(m, n, e + 1) = n
      BY <2>5, <2>6, ReadAll
    <3> QED BY <2>1, <2>2, <3>1 DEF ReadAfter
  <2>9. Len(got[r]) = n
    BY <1>1, <1>5, <2>8 DEF Stage
  <2>10. ~Written(cmd[r], e) /\ Written(cmd[r], e + 1)
    BY <2>1, <2>2, <2>6 DEF Written
  <2>11. Result(r) = Translation(cmd[r], got[r])
    BY <1>5 DEF Result, Translates
  <2> QED BY <2>2, <2>5, <2>7, <2>8, <2>9, <2>10, <2>11
<1>6. CASE Translates(r)
  <2>1. Len(got[r]) = Len(Inputs(cmd[r])) /\ Result(r) = Translation(cmd[r], got[r])
    BY <1>4, <1>5, <1>6
  <2>2. cmd[r].tool = "configtxlator" /\ got[r] \in Seq(Contents)
    BY <1>6 DEF Translates, Types
  <2>3. Result(r) # Undone => Whole(Result(r))
    BY <1>2, <2>1, <2>2, TranslationResult
  <2> QED BY <1>2, <1>3, <1>5, <2>3
<1>7. CASE ~Translates(r)
  <2>1. cmd[r].tool = "configtxgen"
    BY <1>2, <1>7, MenuAssumption DEF Translates, Translations, Generations
  <2>2. /\ P \in Seq(StepsOf(cmd[r]))
        /\ \A k \in 1..Len(P) :
              Changes(P[k]) /\ (\A j \in 1..(k - 1) : Passed(P[j])) => Good(cmd[r])
    BY <1>2, <1>3, <2>1, GenerationProgramIs
  <2>a. d < Len(P) /\ rest[r][1] = P[d + 1]
    BY <1>1, <1>3, <1>4, NotDone
  <2>3. Len(P) \in Nat
    BY <2>2, LenProperties
  <2>4. d + 1 \in 1..Len(P) /\ (d + 1) - 1 = d
    BY <2>3, <2>a
  <2>5. \A j \in 1..d : Passed(P[j])
    BY <1>3, <1>4 DEF Stage, Progress
  <2>6. P[d + 1] \in StepsOf(cmd[r]) /\ P[d + 1].do = "write" /\ P[d + 1] = rest[r][1]
    BY <1>1, <2>2, <2>4, <2>a, ElementOfSeq
  <2>7. Good(cmd[r])
    BY <2>2, <2>4, <2>5, <2>6 DEF Changes
  <2>8. Result(r) = rest[r][1].content
    BY <2>1 DEF Result
  <2>9. Result(r) \in {Message(Block(cmd[r].profile)),
                       Message(ChannelTx(cmd[r].profile, cmd[r].channelCreateTxBaseProfile))}
    BY <2>6, <2>8 DEF StepsOf
  <2>10. Whole(Result(r))
    BY <2>7, <2>9, GenerationResult
  <2> QED BY <1>2, <1>7, <2>10
<1> QED BY <1>6, <1>7

LEMMA WriteInv ==
    ASSUME IInv, NEW q \in Runs, Write(q)
    PROVE  Stepped(q)
<1>1. Types /\ RunInv(q) /\ Running(q) /\ At(q, "write") /\ rest[q][1].do = "write"
  BY DEF IInv, Write, At
<1>2. rest[q] # <<>> /\ cmd[q] \in Menu[q]
  BY <1>1, NextStep
<1>3. cmd' = cmd /\ got' = got /\ opened' = opened
  BY DEF Write
<1>4. PICK f \in Files : f = Of(q)
  BY <1>1, Writes
<1>5. CASE Result(q) = Undone
  <2>1. Silent(q)
    BY <1>1, <1>3, <1>5 DEF Write, Silent
  <2> QED BY <2>1, SilentInv
<1>6. CASE Result(q) # Undone
  <2>1. PICK e \in Overlay(files[f], Result(q)) : Change(q, f, e)
    BY <1>4, <1>6 DEF Write
  <2>2. Advance(q)
    BY <1>6 DEF Write
  <2>3. /\ e \in Contents /\ (files[f] # Absent => e # Absent)
        /\ files[f] = Empty => e = Result(q)
    <3>1. Whole(Result(q)) /\ files[f] \in Contents
      BY <1>1, <1>6, Writes DEF Types
    <3> QED BY <2>1, <3>1, Overlaid
  <2>4. /\ files' \in [Files -> Contents]
        /\ held' \in [Runs -> [Files -> SUBSET Contents]]
        /\ disturbed' \in [Runs -> SUBSET Files]
        /\ disturbed'[q] = disturbed[q]
        /\ Touch(q, f, e)
        /\ files'[f] = e
        /\ \A g \in Files : files[g] # Absent => files'[g] # Absent
    BY <1>1, <2>1, <2>3, ChangeTouches
  <2>5. Types'
    BY <1>1, <1>2, <1>3, <2>2, <2>4, AdvanceTypes DEF Types
  <2>6. \A r \in Runs \ {q} : SameRun(r)
    BY <1>1, <1>2, <1>3, <2>2, AdvanceTypes DEF SameRun
  <2>a. Watches(q)
    BY <1>1, <2>3, <2>4, Watching
  <2>7. GoesOn(q)
    <3> SUFFICES ASSUME NEW d \in 0..Len(Program(cmd[q])), Stage(q, d),
                        outcome'[q] = "running", Translates(q)
                 PROVE  /\ Len(got'[q]) = ReadAfter(cmd[q], d + 1)
                        /\ Heard(q)'
                        /\ OutputIsOurs(q)' => Kept(q, d + 1)'
      BY DEF GoesOn
    <3>c. PICK c : c = cmd[q]
      OBVIOUS
    <3>1. /\ f = Output(c) /\ opened[q] = {f}
          /\ Len(got[q]) = Len(Inputs(c))
          /\ ReadAfter(c, d + 1) = Len(Inputs(c))
          /\ ~Written(c, d) /\ Written(c, d + 1)
          /\ Result(q) = Translation(c, got[q])
      BY <1>1, <1>4, <3>c, Writes
    <3>2. /\ cmd[q]' = c /\ Output(cmd[q])' = Output(c) /\ Inputs(cmd[q])' = Inputs(c)
          /\ Written(cmd[q], d + 1)' /\ got[q]' = got[q]
          /\ Translation(cmd[q], got[q])' = Translation(c, got[q])
      BY <1>3, <3>1, <3>c DEF Output, Inputs, Written, Translation
    <3>3. Heard(q)
      BY <1>1 DEF Stage
    <3>4. Heard(q)'
      <4>1. Len(Inputs(c)) \in Nat
        <5>1. c \in Menu[q] /\ c.tool = "configtxlator"
          BY <1>2, <3>c DEF Translates
        <5> QED BY <5>1, InputsAre, LenProperties
      <4>2. Len(got[q]) \in Nat /\ Len(got[q]) <= Len(Inputs(cmd[q]))
        BY <3>1, <3>c, <4>1
      <4> QED BY <1>2, <1>3, <2>a, <3>3, <4>2, StillHeard
    <3>5. ASSUME OutputIsOurs(q)' PROVE Kept(q, d + 1)'
      <4>1. OutputIsOurs(q)
        BY <1>3, <2>4, <3>5 DEF OutputIsOurs, Output
      <4>2. Kept(q, d)
        BY <1>1, <4>1 DEF Stage
      <4>3. files[f] = Empty
        BY <3>1, <3>c, <4>2 DEF Kept
      <4>4. files'[Output(c)] = Translation(c, got[q]) /\ Translation(c, got[q]) # Undone
        BY <1>6, <2>3, <2>4, <3>1, <4>3
      <4>5. \A j \in 1..Len(got[q]) : c.file[Inputs(c)[j]] = Output(c) => got[q][j] = Empty
        BY <3>c, <4>2 DEF Kept
      <4> QED BY <3>2, <4>4, <4>5 DEF Kept
    <3> QED BY <1>3, <3>1, <3>c, <3>4, <3>5
  <2>8. RunInv(q)'
    <3>1. Passed(rest[q][1])
      BY <1>1 DEF Passed
    <3>2. \A g \in opened'[q] : files'[g] # Absent
      BY <1>1, <1>3, <2>4 DEF RunInv, Types
    <3>3. opened'[q] = IF rest[q][1].do = "truncate" THEN opened[q] \cup {Of(q)} ELSE opened[q]
      BY <1>1, <1>3
    <3> QED BY <1>1, <1>3, <2>2, <2>7, <2>a, <3>1, <3>2, <3>3, Advanced
  <2> QED BY <2>3, <2>4, <2>5, <2>6, <2>8 DEF Stepped
<1> QED BY <1>5, <1>6

LEMMA WriteBreaksInv ==
    ASSUME IInv, NEW q \in Runs, WriteBreaks(q)
    PROVE  Stepped(q)
<1>1. Types /\ RunInv(q) /\ Running(q) /\ At(q, "write")
  BY DEF IInv, WriteBreaks, At
<1>2. rest[q] # <<>>
  BY <1>1, NextStep
<1>3. PICK f \in Files : f = Of(q)
  BY <1>1, Writes
<1>4. cmd' = cmd /\ got' = got /\ opened' = opened /\ Abort(q) /\ Result(q) # Undone
  BY DEF WriteBreaks
<1>5. PICK e \in {files[f]} \cup (Beginnings(Result(q)) \ {Empty}) : Change(q, f, e)
  BY <1>3 DEF WriteBreaks
<1>6. e \in Contents /\ (files[f] # Absent => e # Absent)
  <2>1. Whole(Result(q)) /\ files[f] \in Contents
    BY <1>1, <1>4, Writes DEF Types
  <2> QED BY <1>5, <2>1, BeginningsAre
<1>7. /\ files' \in [Files -> Contents]
      /\ held' \in [Runs -> [Files -> SUBSET Contents]]
      /\ disturbed' \in [Runs -> SUBSET Files]
      /\ Touch(q, f, e)
      /\ \A g \in Files : files[g] # Absent => files'[g] # Absent
  BY <1>1, <1>5, <1>6, ChangeTouches
<1>8. Types'
  BY <1>1, <1>2, <1>4, <1>7, AdvanceTypes DEF Types
<1>9. \A r \in Runs \ {q} : SameRun(r)
  BY <1>1, <1>2, <1>4, AdvanceTypes DEF SameRun
<1>10. RunInv(q)'
  <2>1. \A g \in opened[q] : files'[g] # Absent
    BY <1>1, <1>7 DEF RunInv, Types
  <2> QED BY <1>1, <1>4, <2>1, Aborted
<1> QED BY <1>6, <1>7, <1>8, <1>9, <1>10 DEF Stepped

LEMMA SteppedInv ==
    ASSUME IInv, NEW q \in Runs, Stepped(q)
    PROVE  IInv'
<1>1. ASSUME NEW r \in Runs PROVE RunInv(r)'
  <2>1. CASE r = q
    BY <2>1 DEF Stepped
  <2>2. CASE r # q
    <3>1. Types /\ RunInv(r) /\ SameRun(r)
      BY <2>2 DEF IInv, Stepped
    <3>2. Quiet(r) \/ \E f \in Files, d \in Contents : Touch(q, f, d)
      BY <2>2 DEF Stepped
    <3> QED BY <2>2, <3>1, <3>2, Others
  <2> QED BY <2>1, <2>2
<1>2. Types'
  BY DEF Stepped
<1> QED BY <1>1, <1>2 DEF IInv

\* The actions of one run.
Acts(q) ==
    \/ \E c \in Menu[q] : Start(q, c)
    \/ Open(q) \/ Truncate(q) \/ Require(q) \/ Load(q) \/ Read(q)
    \/ Inspect(q, "inspectBlock", "block")
    \/ Inspect(q, "inspectChannelTx", "channel tx")
    \/ Write(q) \/ WriteBreaks(q) \/ Return(q) \/ Stop(q)

LEMMA ActsStep ==
    ASSUME IInv, NEW q \in Runs, Acts(q)
    PROVE  Stepped(q)
<1>1. CASE \E c \in Menu[q] : Start(q, c)
  BY <1>1, StartInv
<1>2. CASE \/ Open(q) \/ Require(q) \/ Load(q)
           \/ Inspect(q, "inspectBlock", "block")
           \/ Inspect(q, "inspectChannelTx", "channel tx") \/ Return(q) \/ Stop(q)
  BY <1>2, SilentSteps, SilentInv
<1>3. CASE Truncate(q)
  BY <1>3, TruncateInv
<1>4. CASE Read(q)
  BY <1>4, ReadInv
<1>5. CASE Write(q)
  BY <1>5, WriteInv
<1>6. CASE WriteBreaks(q)
  BY <1>6, WriteBreaksInv
<1> QED BY <1>1, <1>2, <1>3, <1>4, <1>5, <1>6 DEF Acts

LEMMA InvStep == IInv /\ [Next]_vars => IInv'
<1> SUFFICES ASSUME IInv, [Next]_vars PROVE IInv'
  OBVIOUS
<1>1. CASE Next
  <2>1. PICK q \in Runs : Acts(q)
    BY <1>1 DEF Next, Acts
  <2> QED BY <2>1, ActsStep, SteppedInv
<1>2. CASE UNCHANGED vars
  <2>1. /\ files' = files /\ cmd' = cmd /\ rest' = rest /\ got' = got /\ outcome' = outcome
        /\ opened' = opened /\ held' = held /\ disturbed' = disturbed
    BY <1>2 DEF vars
  <2>2. Types'
    BY <2>1 DEF IInv, Types
  <2>3. ASSUME NEW r \in Runs PROVE RunInv(r)'
    <3>1. Types /\ RunInv(r) /\ SameRun(r) /\ Quiet(r)
      BY <2>1 DEF IInv, SameRun, Quiet
    <3> QED BY <3>1, Others
  <2> QED BY <2>2, <2>3 DEF IInv
<1> QED BY <1>1, <1>2

LEMMA Invariant == Spec => []IInv
BY InvInit, InvStep, PTL DEF Spec

-----------------------------------------------------------------------------
(* What holds of every run                                                 *)

\* What a run has opened for writing is an output of its command line.
LEMMA OnlyOutputs ==
    ASSUME NEW r \in Runs, RunInv(r)
    PROVE  opened[r] \subseteq Outputs(cmd[r])
<1>1. CASE cmd[r] = None
  BY <1>1 DEF RunInv
<1>2. CASE cmd[r] # None
  <2>1. PICK P : P = Program(cmd[r])
    OBVIOUS
  <2>2. cmd[r] \in Menu[r]
    BY <1>2 DEF RunInv
  <2>3. PICK d \in 0..Len(P) : Progress(rest[r], opened[r], P, d)
    BY <1>2, <2>1 DEF RunInv, Stage
  <2>4. /\ Len(P) \in Nat
        /\ \A k \in 1..Len(P) : Changes(P[k]) => P[k].of \in Outputs(cmd[r])
    BY <2>1, <2>2, ProgramSteps, LenProperties
  <2>5. ASSUME NEW f \in opened[r] PROVE f \in Outputs(cmd[r])
    <3>1. PICK k \in 1..d : P[k].do = "truncate" /\ P[k].of = f
      BY <2>3 DEF Progress
    <3>2. k \in 1..Len(P)
      BY <2>3, <2>4
    <3> QED BY <2>4, <3>1, <3>2 DEF Changes
  <2> QED BY <2>5
<1> QED BY <1>1, <1>2

\* Every variable keeps its type; a run that is running has steps left, and what it has
\* opened for writing are outputs of its command line, and there.
THEOREM TypeCorrect == Spec => []TypeOK
<1>1. IInv => TypeOK
  <2> SUFFICES ASSUME IInv PROVE TypeOK
    OBVIOUS
  <2>1. /\ files \in [Files -> Contents]
        /\ outcome \in [Runs -> {"idle", "running", "ok", "failed"}]
    BY DEF IInv, Types
  <2>2. ASSUME NEW r \in Runs
        PROVE  /\ cmd[r] \in Menu[r] \cup {None}
               /\ ToSet(got[r]) \subseteq Contents
               /\ held[r] \in [Files -> SUBSET Contents]
               /\ disturbed[r] \subseteq Files
               /\ Running(r) <=> cmd[r] # None /\ outcome[r] \notin {"ok", "failed"}
               /\ Running(r) => rest[r] # <<>>
               /\ opened[r] \subseteq Outputs(cmd[r])
               /\ \A f \in opened[r] : files[f] # Absent
    <3>1. Types /\ RunInv(r)
      BY DEF IInv
    <3>2. got[r] \in Seq(Contents)
      BY <3>1 DEF Types
    <3>3. DOMAIN got[r] = 1..Len(got[r])
      BY <3>2, LenProperties
    <3>4. ToSet(got[r]) \subseteq Contents
      BY <3>2, <3>3, ElementOfSeq DEF ToSet
    <3>5. /\ held[r] \in [Files -> SUBSET Contents] /\ disturbed[r] \subseteq Files
          /\ outcome[r] \in {"idle", "running", "ok", "failed"}
      BY <3>1 DEF Types
    <3>6. Running(r) <=> cmd[r] # None /\ outcome[r] \notin {"ok", "failed"}
      BY <3>1, <3>5 DEF RunInv, Running
    <3>7. opened[r] \subseteq Outputs(cmd[r])
      BY <3>1, OnlyOutputs
    <3> QED BY <3>1, <3>4, <3>5, <3>6, <3>7 DEF RunInv
  <2> QED BY <2>1, <2>2 DEF TypeOK
<1> QED BY <1>1, Invariant, PTL

\* configtxgen touches no file before it has the channel ID, the profile and the base
\* profile, whatever the command line asks for and in whatever order its flags are given.
THEOREM NothingWrittenUnlessLoadedAlways == Spec => []NothingWrittenUnlessLoaded
<1>1. IInv => NothingWrittenUnlessLoaded
  <2> SUFFICES ASSUME IInv, NEW r \in Runs, cmd[r].tool = "configtxgen", opened[r] # {}
               PROVE  Good(cmd[r])
    BY DEF NothingWrittenUnlessLoaded, Good
  <2>1. cmd[r] \in Menu[r] /\ RunInv(r)
    BY DEF IInv, RunInv
  <2>2. PICK P : P = Program(cmd[r])
    OBVIOUS
  <2>3. cmd[r] # None
    BY <2>1 DEF RunInv
  <2>4. PICK d \in 0..Len(P) : Progress(rest[r], opened[r], P, d)
    BY <2>1, <2>2, <2>3 DEF RunInv, Stage
  <2>5. PICK f : f \in opened[r]
    OBVIOUS
  <2>6. PICK k \in 1..d : P[k].do = "truncate"
    BY <2>4, <2>5 DEF Progress
  <2>7. /\ Len(P) \in Nat
        /\ \A k1 \in 1..Len(P) :
              Changes(P[k1]) /\ (\A j \in 1..(k1 - 1) : Passed(P[j])) => Good(cmd[r])
    BY <2>1, <2>2, GenerationProgramIs, LenProperties
  <2>8. k \in 1..Len(P) /\ \A j \in 1..(k - 1) : j \in 1..d
    BY <2>4, <2>6, <2>7
  <2>9. \A j \in 1..d : Passed(P[j])
    BY <2>4 DEF Progress
  <2> QED BY <2>6, <2>7, <2>8, <2>9 DEF Changes
<1> QED BY <1>1, Invariant, PTL

\* The run that ends is the one that takes the step.
LEMMA EndsItself ==
    ASSUME IInv, Next, NEW r \in Runs, Running(r), outcome'[r] # "running"
    PROVE  Acts(r)
<1>1. PICK q \in Runs : Acts(q)
  BY DEF Next, Acts
<1>2. Stepped(q)
  BY <1>1, ActsStep
<1>3. q = r
  BY <1>2 DEF Stepped, SameRun, Running
<1> QED BY <1>1, <1>3

\* Exit code 0 is that of the return of main.
LEMMA SuccessIsReturn ==
    ASSUME IInv, Next, NEW r \in Runs, Translates(r), Succeeds(r)
    PROVE  /\ At(r, "return") /\ files' = files
           /\ \E d \in 0..Len(Program(cmd[r])) : Stage(r, d) /\ Written(cmd[r], d)
<1>1. Types /\ RunInv(r) /\ Running(r) /\ Acts(r)
  BY EndsItself DEF IInv, Succeeds
<1>2. cmd[r] \in Menu[r] /\ rest[r] # <<>>
  BY <1>1, NextStep
<1>3. ASSUME Abort(r) PROVE FALSE
  BY <1>1, <1>3 DEF Abort, Types, Succeeds
<1>4. \A c \in Menu[r] : ~Start(r, c)
  BY <1>1 DEF Start, Running
<1>5. ~WriteBreaks(r) /\ ~Stop(r)
  BY <1>3 DEF WriteBreaks, Stop
<1>6. Advance(r)
  BY <1>1, <1>3, <1>4, <1>5
     DEF Acts, Open, Truncate, Require, Load, Read, Inspect, Write, Return
<1>7. Len(rest[r]) = 1
  BY <1>1, <1>6 DEF Advance, Types, Succeeds, Running
<1>8. PICK d \in 0..Len(Program(cmd[r])) : Stage(r, d)
  BY <1>1, NextStep
<1>9. PICK m : m = Len(cmd[r].order)
  OBVIOUS
<1>10. PICK n : n = Len(Inputs(cmd[r]))
  OBVIOUS
<1>11. Standing(cmd[r], rest[r], opened[r], d, m, n)
  BY <1>1, <1>8, <1>9, <1>10, Stands
<1>12. m \in Nat /\ n \in Nat /\ d < m + n + 3 /\ d + 1 = m + n + 3
  BY <1>1, <1>7, <1>8, <1>11, NotDone DEF Standing
<1>13. d = m + n + 2
  <2>1. d \in Nat
    OBVIOUS
  <2> QED BY <1>12, <2>1
<1>14. rest[r][1].do = "return"
  BY <1>11, <1>12, <1>13 DEF Standing
<1>15. Written(cmd[r], d)
  BY <1>9, <1>10, <1>13 DEF Written
<1>16. ~Truncate(r) /\ ~Write(r) /\ ~Read(r)
  BY <1>14 DEF Truncate, Write, Read, At
<1>17. Silent(r)
  BY <1>1, <1>4, <1>5, <1>16, SilentSteps DEF Acts
<1>18. files' = files
  BY <1>17 DEF Silent
<1> QED BY <1>1, <1>8, <1>14, <1>15, <1>18 DEF At

\* A translation of what was read is one of what the inputs held.
LEMMA ReadIsSeen ==
    ASSUME NEW r \in Runs, cmd[r] \in Menu[r], cmd[r].tool = "configtxlator", Heard(r),
           Len(got[r]) = Len(Inputs(cmd[r])), Translation(cmd[r], got[r]) # Undone
    PROVE  Translation(cmd[r], got[r]) \in Results(r)
<1>1. PICK c : c = cmd[r]
  OBVIOUS
<1>2. PICK g : g = got[r]
  OBVIOUS
<1>3. \A j \in 1..Len(Inputs(c)) : g[j] \in Seen(r, Inputs(c)[j])
  BY <1>1, <1>2 DEF Heard
<1>4. CASE c.command = "compute_update"
  <2>1. Len(Inputs(c)) = 2 /\ Inputs(c)[1] = "original" /\ Inputs(c)[2] = "updated"
    BY <1>1, <1>4, InputsAre
  <2>2. g[1] \in Seen(r, "original") /\ g[2] \in Seen(r, "updated")
    BY <1>3, <2>1
  <2>3. PICK d : d = <<g[1], g[2]>>
    OBVIOUS
  <2>4. d \in Seen(r, "original") \X Seen(r, "updated") /\ d[1] = g[1] /\ d[2] = g[2]
    BY <2>2, <2>3
  <2>5. Translation(c, g) = ComputeUpdt(d[1], d[2])
    BY <1>4, <2>4 DEF Translation
  <2>6. Results(r) = {ComputeUpdt(e[1], e[2]) :
                        e \in Seen(r, "original") \X Seen(r, "updated")} \ {Undone}
    BY <1>1, <1>4 DEF Results
  <2> QED BY <1>1, <1>2, <2>4, <2>5, <2>6
<1>5. CASE c.command = "proto_encode"
  <2>1. Len(Inputs(c)) = 1 /\ Inputs(c)[1] = "input"
    <3>1. c.command # "compute_update"
      BY <1>5
    <3> QED BY <1>1, <3>1, InputsAre
  <2>2. g[1] \in Seen(r, "input")
    BY <1>3, <2>1
  <2>3. Translation(c, g) = EncodeProto(g[1])
    BY <1>5 DEF Translation
  <2>4. Results(r) = {EncodeProto(e) : e \in Seen(r, "input")} \ {Undone}
    BY <1>1, <1>5 DEF Results
  <2> QED BY <1>1, <1>2, <2>2, <2>3, <2>4
<1>6. CASE c.command = "proto_decode"
  <2>1. Len(Inputs(c)) = 1 /\ Inputs(c)[1] = "input"
    <3>1. c.command # "compute_update"
      BY <1>6
    <3> QED BY <1>1, <3>1, InputsAre
  <2>2. g[1] \in Seen(r, "input")
    BY <1>3, <2>1
  <2>3. Translation(c, g) = DecodeProto(g[1])
    BY <1>6 DEF Translation
  <2>4. Results(r) = {DecodeProto(e) : e \in Seen(r, "input")} \ {Undone}
    BY <1>1, <1>6 DEF Results
  <2> QED BY <1>1, <1>2, <2>2, <2>3, <2>4
<1> QED BY <1>1, <1>4, <1>5, <1>6, TranslationParts

\* What is in the output of a run that has written, if nobody else writes to it.
LEMMA WrittenResult ==
    ASSUME Types, NEW r \in Runs, RunInv(r), Running(r), Translates(r), OutputIsOurs(r),
           NEW d \in 0..Len(Program(cmd[r])), Stage(r, d), Written(cmd[r], d)
    PROVE  /\ cmd[r] \in Menu[r] /\ cmd[r].tool = "configtxlator"
           /\ Translation(cmd[r], got[r]) # Undone
           /\ files[Output(cmd[r])] = Translation(cmd[r], got[r])
           /\ files[Output(cmd[r])] \in Results(r)
           /\ Len(got[r]) = Len(Inputs(cmd[r]))
           /\ \A j \in 1..Len(Inputs(cmd[r])) :
                 cmd[r].file[Inputs(cmd[r])[j]] = Output(cmd[r]) => got[r][j] = Empty
<1>1. cmd[r] \in Menu[r] /\ cmd[r].tool = "configtxlator"
  BY NextStep DEF Translates
<1>2. Len(got[r]) = ReadAfter(cmd[r], d) /\ Heard(r) /\ Kept(r, d)
  BY DEF Stage
<1>3. ReadAfter(cmd[r], d) = Len(Inputs(cmd[r]))
  <2>1. PICK m : m = Len(cmd[r].order)
    OBVIOUS
  <2>2. PICK n : n = Len(Inputs(cmd[r]))
    OBVIOUS
  <2>3. m \in Nat /\ n \in Nat /\ d = m + n + 2
    BY <1>1, <2>1, <2>2, TranslationParts, InputsAre, LenProperties DEF Written
  <2>4. ~(d <= m) /\ ~(d <= m + n + 1)
    BY <2>3
  <2> QED BY <2>1, <2>2, <2>4 DEF ReadAfter, ReadSoFar
<1>4. /\ files[Output(cmd[r])] = Translation(cmd[r], got[r])
      /\ Translation(cmd[r], got[r]) # Undone
      /\ \A j \in 1..Len(got[r]) :
            cmd[r].file[Inputs(cmd[r])[j]] = Output(cmd[r]) => got[r][j] = Empty
  BY <1>2 DEF Kept
<1>5. Translation(cmd[r], got[r]) \in Results(r)
  BY <1>1, <1>2, <1>3, <1>4, ReadIsSeen
<1> QED BY <1>1, <1>2, <1>3, <1>4, <1>5

LEMMA SuccessResult ==
    ASSUME IInv, Next, NEW r \in Runs, Translates(r), Succeeds(r), OutputIsOurs(r)
    PROVE  /\ cmd[r] \in Menu[r] /\ cmd[r].tool = "configtxlator"
           /\ Translation(cmd[r], got[r]) # Undone
           /\ files'[Output(cmd[r])] = Translation(cmd[r], got[r])
           /\ files'[Output(cmd[r])] \in Results(r)
           /\ \A j \in 1..Len(Inputs(cmd[r])) :
                 cmd[r].file[Inputs(cmd[r])[j]] = Output(cmd[r]) => got[r][j] = Empty
<1>1. Types /\ RunInv(r) /\ Running(r)
  BY DEF IInv, Succeeds
<1>2. PICK d \in 0..Len(Program(cmd[r])) : Stage(r, d) /\ Written(cmd[r], d)
  BY SuccessIsReturn
<1>3. files' = files
  BY SuccessIsReturn
<1> QED BY <1>1, <1>2, <1>3, WrittenResult

\* A run of configtxlator that exits 0 leaves in its output the translation of contents
\* that its inputs had while it ran, taken by the meaning of their flags.
THEOREM InputsAreTranslated == Spec => TranslatesItsInputs
<1>1. IInv /\ [Next]_vars =>
        [\A r \in Runs :
            Translates(r) /\ Succeeds(r) /\ OutputIsOurs(r)
            => files'[Output(cmd[r])] \in Results(r)]_vars
  BY SuccessResult
<1> QED BY <1>1, Invariant, PTL DEF Spec, TranslatesItsInputs

\* A run that is to write over its own input never exits 0 with something that looks like
\* a result: it fails, or says that the message has no fields.
THEOREM NothingComesOfOverwriting == Spec => InPlaceYieldsNothing
<1>1. IInv /\ [Next]_vars =>
        [\A r \in Runs :
            /\ Translates(r) /\ Succeeds(r) /\ OutputIsOurs(r)
            /\ Output(cmd[r]) \in Sources(cmd[r])
            => files'[Output(cmd[r])] = Json(NoFields)]_vars
  <2> SUFFICES ASSUME IInv, Next, NEW r \in Runs, Translates(r), Succeeds(r),
                      OutputIsOurs(r), Output(cmd[r]) \in Sources(cmd[r])
               PROVE  files'[Output(cmd[r])] = Json(NoFields)
    OBVIOUS
  <2>1. PICK c : c = cmd[r]
    OBVIOUS
  <2>2. /\ c \in Menu[r] /\ c.tool = "configtxlator"
        /\ Translation(c, got[r]) # Undone
        /\ files'[Output(c)] = Translation(c, got[r])
        /\ \A j \in 1..Len(Inputs(c)) :
              c.file[Inputs(c)[j]] = Output(c) => got[r][j] = Empty
    BY <2>1, SuccessResult
  <2>3. PICK k \in 1..Len(Inputs(c)) : c.file[Inputs(c)[k]] = Output(c)
    <3>1. DOMAIN Inputs(c) = 1..Len(Inputs(c))
      BY <2>2, InputsAre, LenProperties
    <3> QED BY <2>1, <3>1 DEF Sources, ToSet
  <2>4. got[r][k] = Empty
    BY <2>2, <2>3
  <2>5. CASE c.command = "compute_update"
    <3>0. Len(Inputs(c)) = 2
      BY <2>2, <2>5, InputsAre
    <3>1. k \in {1, 2}
      BY <2>3, <3>0
    <3>2. Translation(c, got[r]) = ComputeUpdt(got[r][1], got[r][2])
      BY <2>5 DEF Translation
    <3>3. got[r][1] # Empty /\ got[r][2] # Empty
      BY <2>2, <3>2, Computed
    <3> QED BY <2>4, <3>1, <3>3
  <2>6. CASE c.command # "compute_update"
    <3>0. Len(Inputs(c)) = 1
      BY <2>2, <2>6, InputsAre
    <3>1. k = 1
      BY <2>3, <3>0
    <3>2. c.command \in {"proto_encode", "proto_decode"}
      BY <2>2, <2>6, TranslationParts
    <3>3. EncodeProto(Empty) = Undone
      BY Forms DEF EncodeProto
    <3>4. DecodeProto(Empty) = Json(NoFields)
      BY Forms DEF DecodeProto
    <3> QED BY <2>1, <2>2, <2>4, <3>1, <3>2, <3>3, <3>4 DEF Translation
  <2> QED BY <2>5, <2>6
<1> QED BY <1>1, Invariant, PTL DEF Spec, InPlaceYieldsNothing

\* A run of configtxlator that fails after it has opened its output, at whatever step,
\* the moment between the write and the return of main included, leaves there nothing, or
\* a beginning of a translation of what its inputs held meanwhile, or all of one: never
\* an older document.
THEOREM FailuresLeaveNothingStale == Spec => FailureLeavesNothingStale
<1>1. IInv /\ [Next]_vars =>
        [\A r \in Runs :
            Translates(r) /\ Fails(r) /\ OutputIsOurs(r) =>
                \A f \in opened[r] :
                    files'[f] \in {Empty} \cup UNION {Beginnings(d) : d \in Results(r)}]_vars
  <2> SUFFICES ASSUME IInv, Next, NEW r \in Runs, Translates(r), Fails(r), OutputIsOurs(r),
                      NEW f \in opened[r]
               PROVE  files'[f] = Empty \/ \E d \in Results(r) : files'[f] \in Beginnings(d)
    OBVIOUS
  <2>1. Types /\ RunInv(r) /\ Running(r) /\ Acts(r) /\ f \in Files
    BY EndsItself DEF IInv, Fails, Types
  <2>2. PICK d \in 0..Len(Program(cmd[r])) : Stage(r, d)
    BY <2>1, NextStep
  <2>3. Kept(r, d) /\ Heard(r)
    BY <2>1, <2>2 DEF Stage
  <2>4. f = Output(cmd[r])
    BY <2>1, <2>2, Stands DEF Standing
  <2>5. ASSUME Advance(r) PROVE FALSE
    BY <2>1, <2>5 DEF Advance, Types, Fails, Running
  <2>6. CASE files' = files /\ ~Written(cmd[r], d)
    BY <2>3, <2>6 DEF Kept
  <2>7. CASE files' = files /\ Written(cmd[r], d)
    <3>1. /\ files[f] \in Results(r) /\ files[f] = Translation(cmd[r], got[r])
          /\ cmd[r] \in Menu[r] /\ cmd[r].tool = "configtxlator"
          /\ Translation(cmd[r], got[r]) # Undone /\ Len(got[r]) = Len(Inputs(cmd[r]))
      BY <2>1, <2>2, <2>4, <2>7, WrittenResult
    <3>2. got[r] \in Seq(Contents)
      BY <2>1 DEF Types
    <3>3. Whole(files[f])
      BY <3>1, <3>2, TranslationResult
    <3> QED BY <2>7, <3>1, <3>3, BeginningsAre
  <2>8. CASE WriteBreaks(r)
    <3>1. At(r, "write") /\ Result(r) # Undone
      BY <2>8 DEF WriteBreaks
    <3>2. /\ Of(r) = f /\ Len(got[r]) = Len(Inputs(cmd[r])) /\ ~Written(cmd[r], d)
          /\ Result(r) = Translation(cmd[r], got[r])
      BY <2>1, <2>2, <2>4, <3>1, Writes
    <3>3. PICK e \in {files[f]} \cup (Beginnings(Result(r)) \ {Empty}) : Change(r, f, e)
      BY <2>8, <3>2 DEF WriteBreaks
    <3>4. files'[f] = e
      BY <2>1, <3>3 DEF Change, Types
    <3>5. files[f] = Empty
      BY <2>3, <3>2 DEF Kept
    <3>6. cmd[r] \in Menu[r] /\ cmd[r].tool = "configtxlator"
      BY <2>1, NextStep DEF Translates
    <3>7. Result(r) \in Results(r)
      BY <2>3, <3>1, <3>2, <3>6, ReadIsSeen
    <3> QED BY <3>3, <3>4, <3>5, <3>7
  <2>9. CASE Silent(r)
    BY <2>6, <2>7, <2>9 DEF Silent
  <2>10. ~Truncate(r)
    BY <2>5 DEF Truncate
  <2>11. CASE Read(r)
    BY <2>6, <2>7, <2>11 DEF Read
  <2>12. CASE Write(r)
    BY <2>5, <2>6, <2>7, <2>12 DEF Write
  <2>13. \A c \in Menu[r] : ~Start(r, c)
    BY <2>1 DEF Start, Running
  <2> QED BY <2>1, <2>8, <2>9, <2>10, <2>11, <2>12, <2>13, SilentSteps DEF Acts
<1> QED BY <1>1, Invariant, PTL DEF Spec, FailureLeavesNothingStale

=============================================================================
