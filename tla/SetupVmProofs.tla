--------------------------- MODULE SetupVmProofs ----------------------------
(***************************************************************************)
(* Proofs about SetupVm: script and guest take turns until there is a      *)
(* shell, so no line is typed that nobody asked for, and the command with  *)
(* the key is typed to nobody else.                                        *)
(***************************************************************************)
EXTENDS SetupVm, TLAPS

-----------------------------------------------------------------------------
(* Text *)

\* A word that begins in a text is one of its fragments.
LEMMA StartsIn ==
  ASSUME NEW s \in Seq(Fragments), NEW words, NEW i \in Starts(s, words)
  PROVE  i \in 1 .. Len(s) /\ i \in Nat /\ Len(s) \in Nat
BY DEF Starts

\* What a list of words prints: a fragment that begins a word is the first of two.
LEMMA TextOfWords ==
  ASSUME NEW words \in Seq(Words)
  PROVE  /\ TextOf(words) \in Seq(Fragments)
         /\ \A W : \A i \in Starts(TextOf(words), W) :
              \E m \in 1 .. Len(words) : words[m] \in W /\ i = 2 * m - 1
<1> DEFINE n == Len(words)
           f == [i \in 1 .. 2 * n |-> <<words[(i + 1) \div 2], 2 - (i % 2)>>]
<1>1. n \in Nat /\ DOMAIN words = 1 .. n /\ \A m \in 1 .. n : words[m] \in Words
  OBVIOUS
<1>2. TextOf(words) = f
  BY DEF TextOf
<1>3. ASSUME NEW i \in 1 .. 2 * n
      PROVE  /\ (i + 1) \div 2 \in 1 .. n /\ 2 - (i % 2) \in {1, 2}
             /\ 2 - (i % 2) = 1 => i = 2 * ((i + 1) \div 2) - 1
  BY <1>1, <1>3
<1>4. \A i \in 1 .. 2 * n : f[i] \in Fragments
  BY <1>1, <1>3 DEF Fragments
<1>5. 2 * n \in Nat /\ DOMAIN f = 1 .. 2 * n
  BY <1>1
<1>6. f \in Seq(Fragments)
  BY <1>4, <1>5
<1>7. ASSUME NEW W, NEW i \in Starts(f, W)
      PROVE  \E m \in 1 .. n : words[m] \in W /\ i = 2 * m - 1
  <2>1. i \in 1 .. 2 * n /\ \E word \in W : f[i] = <<word, 1>>
    BY <1>5, <1>7 DEF Starts
  <2>2. f[i] = <<words[(i + 1) \div 2], 2 - (i % 2)>>
    BY <2>1
  <2>3. words[(i + 1) \div 2] \in W /\ 2 - (i % 2) = 1
    BY <2>1, <2>2
  <2>4. QED
    BY <1>3, <2>1, <2>3
<1> HIDE DEF f
<1>8. QED
  BY <1>2, <1>6, <1>7

\* Reading moves the first n fragments of what was printed to the buffer.
LEMMA ReadMoves ==
  ASSUME NEW s \in Seq(Fragments), NEW t \in Seq(Fragments), NEW n \in 1 .. Len(t)
  PROVE  /\ s \o SubSeq(t, 1, n) \in Seq(Fragments)
         /\ SubSeq(t, n + 1, Len(t)) \in Seq(Fragments)
         /\ \A W : \A i \in Starts(s \o SubSeq(t, 1, n), W) :
              \/ i \in Starts(s, W)
              \/ i - Len(s) \in Starts(t, W) /\ i - Len(s) <= n
         /\ \A W : \A i \in Starts(SubSeq(t, n + 1, Len(t)), W) :
              i + n \in Starts(t, W) /\ i + n > n
<1> DEFINE a == SubSeq(t, 1, n)
           b == SubSeq(t, n + 1, Len(t))
           c == s \o a
<1>1. /\ Len(s) \in Nat /\ Len(t) \in Nat /\ n \in Nat /\ n <= Len(t)
      /\ DOMAIN s = 1 .. Len(s) /\ DOMAIN t = 1 .. Len(t)
  OBVIOUS
<1>2. /\ a \in Seq(Fragments) /\ Len(a) = n /\ DOMAIN a = 1 .. n
      /\ \A i \in 1 .. n : a[i] = t[i]
  BY <1>1
<1>3. /\ b \in Seq(Fragments) /\ DOMAIN b = 1 .. Len(t) - n
      /\ \A i \in 1 .. Len(t) - n : b[i] = t[i + n]
  BY <1>1
<1> HIDE DEF a, b
<1>4. /\ c \in Seq(Fragments) /\ DOMAIN c = 1 .. Len(s) + n
      /\ \A i \in 1 .. Len(s) : c[i] = s[i]
      /\ \A i \in Len(s) + 1 .. Len(s) + n : c[i] = a[i - Len(s)]
  BY <1>1, <1>2
<1> HIDE DEF c
<1>5. ASSUME NEW W, NEW i \in Starts(c, W)
      PROVE  i \in Starts(s, W) \/ (i - Len(s) \in Starts(t, W) /\ i - Len(s) <= n)
  <2>1. i \in 1 .. Len(s) + n /\ \E word \in W : c[i] = <<word, 1>>
    BY <1>4, <1>5 DEF Starts
  <2>2. CASE i \in 1 .. Len(s)
    BY <1>1, <1>4, <2>1, <2>2 DEF Starts
  <2>3. CASE i \in Len(s) + 1 .. Len(s) + n
    <3>1. i - Len(s) \in 1 .. n /\ i - Len(s) \in DOMAIN t
      BY <1>1, <2>3
    <3>2. c[i] = t[i - Len(s)]
      BY <1>2, <1>4, <2>3, <3>1
    <3>3. QED
      BY <2>1, <3>1, <3>2 DEF Starts
  <2>4. QED
    BY <1>1, <2>1, <2>2, <2>3
<1>6. ASSUME NEW W, NEW i \in Starts(b, W)
      PROVE  i + n \in Starts(t, W) /\ i + n > n
  <2>1. i \in 1 .. Len(t) - n /\ \E word \in W : b[i] = <<word, 1>>
    BY <1>3, <1>6 DEF Starts
  <2>2. i + n \in DOMAIN t /\ i + n > n /\ b[i] = t[i + n]
    BY <1>1, <1>3, <2>1
  <2>3. QED
    BY <2>1, <2>2 DEF Starts
<1>7. QED
  BY <1>3, <1>4, <1>5, <1>6 DEF a, b, c

\* Printing appends words.
LEMMA PrintAppends ==
  ASSUME NEW s \in Seq(Fragments), NEW words \in Seq(Words)
  PROVE  /\ s \o TextOf(words) \in Seq(Fragments)
         /\ \A W : \A i \in Starts(s \o TextOf(words), W) :
              \/ i \in Starts(s, W)
              \/ \E m \in 1 .. Len(words) : words[m] \in W /\ i = Len(s) + 2 * m - 1
<1> DEFINE t == TextOf(words)
           c == s \o t
<1>1. /\ t \in Seq(Fragments)
      /\ \A W : \A i \in Starts(t, W) :
           \E m \in 1 .. Len(words) : words[m] \in W /\ i = 2 * m - 1
  BY TextOfWords
<1> HIDE DEF t
<1>2. /\ Len(s) \in Nat /\ Len(t) \in Nat /\ DOMAIN s = 1 .. Len(s) /\ DOMAIN t = 1 .. Len(t)
      /\ Len(words) \in Nat
  BY <1>1
<1>3. /\ c \in Seq(Fragments) /\ DOMAIN c = 1 .. Len(s) + Len(t)
      /\ \A i \in 1 .. Len(s) : c[i] = s[i]
      /\ \A i \in Len(s) + 1 .. Len(s) + Len(t) : c[i] = t[i - Len(s)]
  BY <1>1, <1>2
<1> HIDE DEF c
<1>4. ASSUME NEW W, NEW i \in Starts(c, W)
      PROVE  \/ i \in Starts(s, W)
             \/ \E m \in 1 .. Len(words) : words[m] \in W /\ i = Len(s) + 2 * m - 1
  <2>1. i \in 1 .. Len(s) + Len(t) /\ \E word \in W : c[i] = <<word, 1>>
    BY <1>3, <1>4 DEF Starts
  <2>2. CASE i \in 1 .. Len(s)
    BY <1>2, <1>3, <2>1, <2>2 DEF Starts
  <2>3. CASE i \in Len(s) + 1 .. Len(s) + Len(t)
    <3>1. i - Len(s) \in DOMAIN t /\ c[i] = t[i - Len(s)]
      BY <1>2, <1>3, <2>3
    <3>2. i - Len(s) \in Starts(t, W)
      BY <2>1, <3>1 DEF Starts
    <3>3. PICK m \in 1 .. Len(words) : words[m] \in W /\ i - Len(s) = 2 * m - 1
      BY <1>1, <3>2
    <3>4. i = Len(s) + 2 * m - 1
      BY <1>2, <2>1, <3>3
    <3>5. QED
      BY <3>3, <3>4
  <2>4. QED
    BY <1>2, <2>1, <2>2, <2>3
<1>5. QED
  BY <1>3, <1>4 DEF c, t

\* A text that contains a word has a place where it begins.
LEMMA ContainsStarts ==
  ASSUME NEW s \in Seq(Fragments), NEW word, Contains(s, word), NEW W, word \in W
  PROVE  Starts(s, W) # {}
<1>1. PICK i \in 1 .. Len(s) - 1 : s[i] = <<word, 1>>
  BY DEF Contains
<1>2. i \in DOMAIN s
  BY <1>1
<1>3. i \in Starts(s, W)
  BY <1>1, <1>2 DEF Starts
<1>4. QED
  BY <1>3

\* An empty text.
LEMMA NothingStarts ==
  ASSUME NEW W
  PROVE  Starts(<<>>, W) = {} /\ <<>> \in Seq(Fragments)
BY DEF Starts
-----------------------------------------------------------------------------
(* The script *)

\* The conjuncts of the invariant that are not consequences of the others.
\* Before there is a shell there is no prompt, and no command is typed.
PromptInStep ==
  PromptIsTheShells /\ (~AtShell => \A i \in DOMAIN typed : typed[i] = "root")

Turns == SetupTypeOK /\ OneQuestion /\ CopyInStep /\ PromptInStep /\ AnswersOnce

Marked == MarkerIsTheShells /\ SaidIsTheShells

LEMMA TurnsSuffice ==
  Turns /\ Marked => SetupInv /\ CommandAtShell /\ SaidIsTheShells
<1> SUFFICES ASSUME Turns PROVE CommandAtShell
  BY DEF Turns, PromptInStep, Marked, SetupInv
<1>1. ASSUME NEW i \in DOMAIN typed, typed[i] = "install", ~AtShell PROVE FALSE
  <2>1. typed[i] = "root"
    BY <1>1 DEF Turns, PromptInStep
  <2>2. QED
    BY <1>1, <2>1
<1>2. QED
  BY <1>1 DEF CommandAtShell

LEMMA InitTurns == Init => Turns
<1> SUFFICES ASSUME Init PROVE Turns
  OBVIOUS
<1>1. /\ pc = "read" /\ output = <<>> /\ text = <<>> /\ printed = <<>> /\ typed = <<>>
      /\ login_done = FALSE /\ guest = "boot"
  BY DEF Init
<1>2. /\ <<>> \in Seq(Fragments) /\ Asked(<<>>) = {} /\ Starts(<<>>, {"root@"}) = {}
  BY NothingStarts DEF Asked
<1>3. typed \in Seq({"root", "install"}) /\ Len(typed) = 0
  BY <1>1
<1>4. SetupTypeOK
  BY <1>1, <1>2, <1>3 DEF SetupTypeOK
<1>5. OneQuestion
  <2>1. Asked(output) = {} /\ Asked(printed) = {} /\ Len(typed) <= 1 /\ typed = <<>>
    BY <1>1, <1>2, <1>3
  <2>2. QED
    BY <2>1 DEF OneQuestion
<1>6. CopyInStep /\ AnswersOnce
  BY <1>1, <1>3 DEF CopyInStep, AnswersOnce
<1>7. PromptInStep
  BY <1>1, <1>2 DEF PromptInStep, PromptIsTheShells
<1>8. QED
  BY <1>4, <1>5, <1>6, <1>7 DEF Turns

\* A read moves text from the console to the buffer: no question is new, and one
\* that was printed is in one of the two only.
LEMMA ReadTurns == Turns /\ Read => Turns'
<1> SUFFICES ASSUME Turns, Read PROVE Turns'
  OBVIOUS
<1>1. PICK n \in 1 .. Len(printed) :
        /\ Look(output \o SubSeq(printed, 1, n))
        /\ printed' = SubSeq(printed, n + 1, Len(printed))
  BY DEF Read
<1>2. /\ output' = output \o SubSeq(printed, 1, n) /\ text' = output'
      /\ pc' = (IF login_done THEN "check" ELSE "login")
      /\ login_done' = login_done /\ guest' = guest /\ typed' = typed
  BY <1>1 DEF Look, Read, guestVars
<1>3. /\ output \in Seq(Fragments) /\ printed \in Seq(Fragments) /\ Len(output) \in Nat
      /\ n \in Nat
  BY DEF Turns, SetupTypeOK
<1>4. /\ output' \in Seq(Fragments) /\ printed' \in Seq(Fragments)
      /\ \A W : \A i \in Starts(output', W) :
           \/ i \in Starts(output, W)
           \/ i - Len(output) \in Starts(printed, W) /\ i - Len(output) <= n
      /\ \A W : \A i \in Starts(printed', W) : i + n \in Starts(printed, W) /\ i + n > n
  BY <1>1, <1>2, <1>3, ReadMoves
<1>5. SetupTypeOK'
  BY <1>2, <1>4 DEF Turns, SetupTypeOK
<1>6. ASSUME ~login_done PROVE OneQuestion'
  <2>1. /\ \A i \in Asked(output') :
             i \in Asked(output) \/ (i - Len(output) \in Asked(printed) /\ i - Len(output) <= n)
        /\ \A i \in Asked(printed') : i + n \in Asked(printed) /\ i + n > n
    BY <1>4 DEF Asked
  <2>2. /\ \A i, j \in Asked(output) : i = j
        /\ \A i, j \in Asked(printed) : i = j
        /\ Asked(output) = {} \/ Asked(printed) = {}
        /\ Len(typed) <= 1
        /\ typed # <<>> \/ guest = "boot" => Asked(output) = {} /\ Asked(printed) = {}
        /\ guest = "boot" => typed = <<>>
    BY <1>6 DEF Turns, OneQuestion
  <2>3. /\ \A i \in Asked(output) \cup Asked(output') : i \in Nat
        /\ \A i \in Asked(printed) \cup Asked(printed') : i \in Nat
    BY <1>3, <1>4, StartsIn DEF Asked
  <2>4. \A i, j \in Asked(output') : i = j
    BY <1>3, <2>1, <2>2, <2>3
  <2>5. \A i, j \in Asked(printed') : i = j
    BY <1>3, <2>1, <2>2, <2>3
  <2>6. Asked(output') = {} \/ Asked(printed') = {}
    <3>1. SUFFICES ASSUME NEW i \in Asked(output'), NEW j \in Asked(printed') PROVE FALSE
      OBVIOUS
    <3>2. j + n \in Asked(printed) /\ j + n > n
      BY <2>1
    <3>3. i - Len(output) \in Asked(printed) /\ i - Len(output) <= n
      BY <2>1, <2>2, <3>2
    <3>4. i - Len(output) = j + n
      BY <2>2, <3>2, <3>3
    <3>5. QED
      BY <1>3, <2>3, <3>2, <3>3, <3>4
  <2>7. (typed # <<>> \/ guest = "boot") => Asked(output') = {} /\ Asked(printed') = {}
    BY <2>1, <2>2
  <2>8. QED
    BY <1>2, <2>2, <2>4, <2>5, <2>6, <2>7 DEF OneQuestion
<1>7. CopyInStep'
  BY <1>2 DEF Turns, SetupTypeOK, CopyInStep
<1>8. PromptInStep'
  <2>1. SUFFICES ASSUME ~AtShell
                 PROVE  /\ ~login_done'
                        /\ \A string \in {output', text', printed'} : Starts(string, {"root@"}) = {}
                        /\ \A i \in DOMAIN typed' : typed'[i] = "root"
    BY <1>2 DEF PromptInStep, PromptIsTheShells, AtShell
  <2>2. /\ ~login_done /\ Starts(output, {"root@"}) = {} /\ Starts(printed, {"root@"}) = {}
        /\ \A i \in DOMAIN typed : typed[i] = "root"
    BY <2>1 DEF Turns, PromptInStep, PromptIsTheShells
  <2>3. Starts(output', {"root@"}) = {} /\ Starts(printed', {"root@"}) = {}
    BY <1>4, <2>2
  <2>4. QED
    BY <1>2, <2>2, <2>3
<1>9. AnswersOnce'
  BY <1>2 DEF Turns, AnswersOnce
<1>10. CASE login_done
  BY <1>2, <1>5, <1>7, <1>8, <1>9, <1>10 DEF Turns, OneQuestion
<1>11. QED
  BY <1>5, <1>6, <1>7, <1>8, <1>9, <1>10 DEF Turns

\* An iteration without new text.
LEMMA ReadNothingTurns == Turns /\ ReadNothing => Turns'
<1> SUFFICES ASSUME Turns, ReadNothing PROVE Turns'
  OBVIOUS
<1>1. /\ output' = output /\ text' = output /\ printed' = printed /\ typed' = typed
      /\ pc' = (IF login_done THEN "check" ELSE "login")
      /\ login_done' = login_done /\ guest' = guest
  BY DEF ReadNothing, Look, guestVars
<1>2. SetupTypeOK' /\ CopyInStep' /\ AnswersOnce'
  BY <1>1 DEF Turns, SetupTypeOK, CopyInStep, AnswersOnce
<1>3. OneQuestion'
  BY <1>1 DEF Turns, OneQuestion
<1>4. PromptInStep'
  BY <1>1 DEF Turns, PromptInStep, PromptIsTheShells, AtShell
<1>5. QED
  BY <1>2, <1>3, <1>4 DEF Turns

\* A line that answers the one question there is leaves no other, and is the only
\* one under way.
LEMMA AnswerTurns ==
  ASSUME Turns, ~login_done, text = output, NEW word \in Questions, Contains(text, word),
         Answer(TRUE, "root"), UNCHANGED <<text, login_done, guestVars, printed>>,
         (pc' = "password" /\ word = "login:") \/ pc' = "shell"
  PROVE  Turns'
<1>1. /\ output' = <<>> /\ typed' = Append(typed, "root")
      /\ text' = text /\ login_done' = login_done /\ guest' = guest /\ printed' = printed
  BY DEF Answer, guestVars
<1>2. /\ output \in Seq(Fragments) /\ printed \in Seq(Fragments)
      /\ typed \in Seq({"root", "install"}) /\ text \in Seq(Fragments)
  BY DEF Turns, SetupTypeOK
<1>3. Asked(output) # {}
  BY <1>2, ContainsStarts DEF Asked
<1>4. typed = <<>> /\ Asked(printed) = {} /\ guest # "boot"
  BY <1>3 DEF Turns, OneQuestion
<1>5. typed' = <<"root">> /\ Len(typed') = 1 /\ typed' \in Seq({"root", "install"})
      /\ \A i \in DOMAIN typed' : typed'[i] = "root"
  BY <1>1, <1>4
<1>6. <<>> \in Seq(Fragments) /\ Asked(<<>>) = {} /\ Starts(<<>>, {"root@"}) = {}
  BY NothingStarts DEF Asked
<1>7. SetupTypeOK'
  BY <1>1, <1>2, <1>5, <1>6 DEF Turns, SetupTypeOK
<1>8. OneQuestion'
  BY <1>1, <1>4, <1>5, <1>6 DEF OneQuestion
<1>9. CopyInStep'
  <2>1. ASSUME word = "login:", NEW j \in Starts(text, {"Password:"}) PROVE FALSE
    <3>1. PICK i \in 1 .. Len(text) - 1 : text[i] = <<"login:", 1>>
      BY <2>1 DEF Contains
    <3>2. i \in Asked(text)
      BY <1>2, <3>1 DEF Asked, Starts, Questions
    <3>3. j \in Asked(text) /\ text[j] = <<"Password:", 1>>
      BY <2>1 DEF Asked, Starts, Questions
    <3>4. i = j
      BY <3>2, <3>3 DEF Turns, OneQuestion
    <3>5. QED
      BY <3>1, <3>3, <3>4
  <2>2. QED
    BY <1>1, <2>1 DEF CopyInStep
<1>10. PromptInStep'
  BY <1>1, <1>5, <1>6 DEF Turns, PromptInStep, PromptIsTheShells, AtShell
<1>11. AnswersOnce'
  BY <1>5 DEF AnswersOnce
<1>12. QED
  BY <1>7, <1>8, <1>9, <1>10, <1>11 DEF Turns

\* Nothing is answered.
LEMMA SilentTurns ==
  ASSUME Turns, UNCHANGED <<output, typed, text, guestVars, printed>>,
         pc \in {"login", "password", "shell"},
         \/ pc' = "password" /\ text = output /\ login_done' = login_done
         \/ pc' = "shell" /\ login_done' = login_done
         \/ pc' = "check" /\ login_done' = FALSE
  PROVE  Turns'
<1>1. /\ output' = output /\ typed' = typed /\ text' = text /\ guest' = guest
      /\ printed' = printed /\ ~login_done /\ ~login_done'
  BY DEF guestVars, Turns, CopyInStep
<1>2. SetupTypeOK' /\ AnswersOnce'
  BY <1>1 DEF Turns, SetupTypeOK, AnswersOnce
<1>3. OneQuestion'
  BY <1>1 DEF Turns, OneQuestion
<1>4. CopyInStep'
  BY <1>1 DEF CopyInStep
<1>5. PromptInStep'
  BY <1>1 DEF Turns, PromptInStep, PromptIsTheShells, AtShell
<1>6. QED
  BY <1>2, <1>3, <1>4, <1>5 DEF Turns

LEMMA SeesLoginTurns == Turns /\ SeesLogin => Turns'
<1> SUFFICES ASSUME Turns, SeesLogin PROVE Turns'
  OBVIOUS
<1>1. /\ ~login_done /\ text = output /\ pc = "login" /\ pc' = "password"
      /\ UNCHANGED <<text, login_done, guestVars, printed>>
  BY DEF SeesLogin, Turns, CopyInStep
<1>2. CASE Contains(text, "login:")
  <2>1. Answer(TRUE, "root")
    BY <1>2 DEF SeesLogin, Answer
  <2>2. "login:" \in Questions
    BY DEF Questions
  <2>3. QED
    BY <1>1, <1>2, <2>1, <2>2, AnswerTurns
<1>3. CASE ~Contains(text, "login:")
  BY <1>1, <1>3, SilentTurns DEF SeesLogin, Answer
<1>4. QED
  BY <1>2, <1>3

LEMMA SeesPasswordTurns == Turns /\ SeesPassword => Turns'
<1> SUFFICES ASSUME Turns, SeesPassword PROVE Turns'
  OBVIOUS
<1>1. /\ ~login_done /\ pc = "password" /\ pc' = "shell"
      /\ text = output \/ Starts(text, {"Password:"}) = {}
      /\ UNCHANGED <<text, login_done, guestVars, printed>>
  BY DEF SeesPassword, Turns, CopyInStep
<1>2. CASE Contains(text, "Password:")
  <2>1. Answer(TRUE, "root")
    BY <1>2 DEF SeesPassword, Answer
  <2>2. "Password:" \in Questions /\ text \in Seq(Fragments)
    BY DEF Questions, Turns, SetupTypeOK
  <2>3. text = output
    BY <1>1, <1>2, <2>2, ContainsStarts
  <2>4. QED
    BY <1>1, <1>2, <2>1, <2>2, <2>3, AnswerTurns
<1>3. CASE ~Contains(text, "Password:")
  BY <1>1, <1>3, SilentTurns DEF SeesPassword, Answer
<1>4. QED
  BY <1>2, <1>3

\* The prompt is a shell's, and the command the second line at most.
LEMMA SeesShellTurns == Turns /\ SeesShell => Turns'
<1> SUFFICES ASSUME Turns, SeesShell PROVE Turns'
  OBVIOUS
<1> DEFINE seen == Contains(text, "root@") /\ Contains(text, "# ")
<1>1. /\ ~login_done /\ pc = "shell" /\ pc' = "check" /\ login_done' = seen
      /\ Answer(seen, "install") /\ UNCHANGED <<text, guestVars, printed>>
  BY DEF SeesShell, Turns, CopyInStep
<1>2. CASE ~seen
  BY <1>1, <1>2, SilentTurns DEF Answer
<1>3. CASE seen
  <2>1. /\ output' = <<>> /\ typed' = Append(typed, "install") /\ login_done' = TRUE
        /\ text' = text /\ guest' = guest /\ printed' = printed
    BY <1>1, <1>3 DEF Answer, guestVars
  <2>2. typed \in Seq({"root", "install"}) /\ text \in Seq(Fragments) /\ Len(typed) <= 1
    BY <1>1 DEF Turns, SetupTypeOK, OneQuestion
  <2>3. AtShell
    BY <1>3, <2>2, ContainsStarts DEF Turns, PromptInStep, PromptIsTheShells
  <2>4. typed' \in Seq({"root", "install"}) /\ Len(typed') <= 2
    BY <2>1, <2>2
  <2>5. SetupTypeOK'
    BY <1>1, <2>1, <2>4, NothingStarts DEF Turns, SetupTypeOK
  <2>6. OneQuestion' /\ CopyInStep' /\ AnswersOnce' /\ PromptInStep'
    BY <1>1, <2>1, <2>3, <2>4
       DEF OneQuestion, CopyInStep, AnswersOnce, PromptInStep, PromptIsTheShells, AtShell
  <2>7. QED
    BY <2>5, <2>6 DEF Turns
<1>4. QED
  BY <1>2, <1>3

\* The rest of an iteration, and what comes after the loop, types nothing and reads
\* nothing into the buffer.
LEMMA RestTurns ==
  Turns /\ (Check \/ ReadEnds \/ TimeIsUp \/ Report \/ CopyToLog) => Turns'
<1> SUFFICES ASSUME Turns, Check \/ ReadEnds \/ TimeIsUp \/ Report \/ CopyToLog
             PROVE  Turns'
  OBVIOUS
<1>1. /\ typed' = typed /\ text' = text /\ guest' = guest /\ login_done' = login_done
      /\ output' \in {output, <<>>} /\ printed' \in {printed, <<>>}
      /\ pc' \in {"read", "report", "forever"}
  BY DEF Check, ReadEnds, TimeIsUp, LeaveLoop, Report, CopyToLog, guestVars, scriptVars
<1>2. /\ <<>> \in Seq(Fragments) /\ Asked(<<>>) = {} /\ Starts(<<>>, {"root@"}) = {}
  BY NothingStarts DEF Asked
<1>3. SetupTypeOK' /\ CopyInStep' /\ AnswersOnce'
  BY <1>1, <1>2 DEF Turns, SetupTypeOK, CopyInStep, AnswersOnce
<1>4. OneQuestion'
  <2>1. Asked(output') \in {Asked(output), {}} /\ Asked(printed') \in {Asked(printed), {}}
    BY <1>1, <1>2
  <2>2. QED
    BY <1>1, <2>1 DEF Turns, OneQuestion
<1>5. PromptInStep'
  <2>1. /\ Starts(output', {"root@"}) \in {Starts(output, {"root@"}), {}}
        /\ Starts(printed', {"root@"}) \in {Starts(printed, {"root@"}), {}}
    BY <1>1, <1>2
  <2>2. QED
    BY <1>1, <2>1 DEF Turns, PromptInStep, PromptIsTheShells, AtShell
<1>6. QED
  BY <1>3, <1>4, <1>5 DEF Turns
-----------------------------------------------------------------------------
(* The guest *)

\* A shell prints words that ask for nothing, and may read a line.
LEMMA ShellTurns ==
  ASSUME Turns, UNCHANGED scriptVars, guest \in {"shell", "install"},
         guest' \in {"shell", "install"},
         typed' = typed \/ (typed # <<>> /\ typed' = Tail(typed)),
         NEW words \in Seq(Words), Prints(words),
         \A m \in 1 .. Len(words) : words[m] \notin Questions
  PROVE  Turns'
<1>1. /\ pc' = pc /\ output' = output /\ text' = text /\ login_done' = login_done
      /\ printed' = printed \o TextOf(words)
  BY DEF scriptVars, Prints
<1>2. printed \in Seq(Fragments) /\ typed \in Seq({"root", "install"})
  BY DEF Turns, SetupTypeOK
<1>3. /\ printed' \in Seq(Fragments)
      /\ \A i \in Asked(printed') : i \in Asked(printed)
  BY <1>1, <1>2, PrintAppends DEF Asked
<1>4. /\ typed' \in Seq({"root", "install"}) /\ Len(typed') <= Len(typed)
      /\ typed' # <<>> => typed # <<>>
      /\ Len(typed) \in Nat /\ Len(typed') \in Nat
  BY <1>2
<1>5. SetupTypeOK' /\ CopyInStep' /\ AnswersOnce'
  BY <1>1, <1>3, <1>4 DEF Turns, SetupTypeOK, CopyInStep, AnswersOnce
<1>6. OneQuestion'
  BY <1>1, <1>3, <1>4 DEF Turns, OneQuestion
<1>7. PromptInStep'
  BY DEF PromptInStep, PromptIsTheShells, AtShell
<1>8. QED
  BY <1>5, <1>6, <1>7 DEF Turns

\* The guest puts its next question when it has read the last line there was, or
\* has just booted.
LEMMA QuestionTurns ==
  ASSUME Turns, UNCHANGED scriptVars, ~AtShell,
         guest' \in {"login", "password", "shell"}, typed' = <<>>,
         guest = "boot" \/ typed # <<>>,
         NEW words \in Seq(Words), Prints(words), words # <<>>,
         \A m \in 2 .. Len(words) : words[m] \notin Questions,
         guest' = "shell" \/ \A m \in 1 .. Len(words) : words[m] # "root@"
  PROVE  Turns'
<1>1. /\ pc' = pc /\ output' = output /\ text' = text /\ login_done' = login_done
      /\ printed' = printed \o TextOf(words)
  BY DEF scriptVars, Prints
<1>2. /\ ~login_done /\ Starts(output, {"root@"}) = {} /\ Starts(text, {"root@"}) = {}
      /\ Starts(printed, {"root@"}) = {} /\ printed \in Seq(Fragments)
  BY DEF Turns, PromptInStep, PromptIsTheShells, SetupTypeOK
<1>3. Asked(output) = {} /\ Asked(printed) = {}
  BY <1>2 DEF Turns, OneQuestion
<1>4. /\ printed' \in Seq(Fragments)
      /\ \A W : \A i \in Starts(printed', W) :
           \/ i \in Starts(printed, W)
           \/ \E m \in 1 .. Len(words) : words[m] \in W /\ i = Len(printed) + 2 * m - 1
  BY <1>1, <1>2, PrintAppends
<1>5. \A i \in Asked(printed') : i = Len(printed) + 1
  <2>1. TAKE i \in Asked(printed')
  <2>2. PICK m \in 1 .. Len(words) : words[m] \in Questions /\ i = Len(printed) + 2 * m - 1
    BY <1>3, <1>4 DEF Asked
  <2>3. m = 1
    BY <2>2
  <2>4. QED
    BY <1>2, <2>2, <2>3
<1>6. typed' \in Seq({"root", "install"}) /\ Len(typed') = 0 /\ DOMAIN typed' = {}
  OBVIOUS
<1>7. SetupTypeOK' /\ CopyInStep' /\ AnswersOnce'
  BY <1>1, <1>4, <1>6 DEF Turns, SetupTypeOK, CopyInStep, AnswersOnce
<1>8. OneQuestion'
  <2>1. /\ \A i, j \in Asked(printed') : i = j
        /\ Asked(output') = {}
    BY <1>1, <1>3, <1>5
  <2>2. QED
    BY <2>1, <1>6 DEF OneQuestion
<1>9. PromptInStep'
  <2>1. SUFFICES ASSUME guest' # "shell" PROVE PromptInStep'
    BY DEF PromptInStep, PromptIsTheShells, AtShell
  <2>2. Starts(printed', {"root@"}) = {}
    BY <1>2, <1>4, <2>1
  <2>3. QED
    BY <1>1, <1>2, <1>6, <2>2 DEF PromptInStep, PromptIsTheShells
<1>10. QED
  BY <1>7, <1>8, <1>9 DEF Turns

\* Two things in a row.
LEMMA Pairs ==
  ASSUME NEW S, NEW a \in S, NEW b \in S
  PROVE  <<a, b>> \in Seq(S) /\ Len(<<a, b>>) = 2 /\ <<a, b>>[1] = a /\ <<a, b>>[2] = b
OBVIOUS

\* One text after the other.
LEMMA Joined ==
  ASSUME NEW S, NEW f \in Seq(S), NEW g \in Seq(S)
  PROVE  /\ f \o g \in Seq(S) /\ Len(f \o g) = Len(f) + Len(g)
         /\ \A i \in 1 .. Len(f) : (f \o g)[i] = f[i]
         /\ \A i \in Len(f) + 1 .. Len(f) + Len(g) : (f \o g)[i] = g[i - Len(f)]
<1>1. f \o g \in Seq(S)
  OBVIOUS
<1>2. Len(f \o g) = Len(f) + Len(g)
  OBVIOUS
<1>3. \A i \in 1 .. Len(f) : (f \o g)[i] = f[i]
  OBVIOUS
<1>4. \A i \in Len(f) + 1 .. Len(f) + Len(g) : (f \o g)[i] = g[i - Len(f)]
  OBVIOUS
<1>5. QED
  BY <1>1, <1>2, <1>3, <1>4

\* A word that is no question is not a question.  (The strings of the prompt are
\* kept from the SMT solver, which cannot name all of them.)
LEMMA PromptWords ==
  /\ ShellPrompt \in Seq(Words) /\ Len(ShellPrompt) = 2
  /\ ShellPrompt[1] \notin Questions /\ ShellPrompt[2] \notin Questions
<1>1. "root@" \in Words /\ "# " \in Words
  BY Zenon DEF Words
<1>2. "root@" \notin Questions /\ "# " \notin Questions
  BY Zenon DEF Questions
<1>3. /\ <<"root@", "# ">> \in Seq(Words) /\ Len(<<"root@", "# ">>) = 2
      /\ <<"root@", "# ">>[1] = "root@" /\ <<"root@", "# ">>[2] = "# "
  BY <1>1, Pairs, Zenon
<1>4. QED
  BY <1>2, <1>3, Zenon DEF ShellPrompt

\* A word and then the prompt: only the word can be a question.
LEMMA WordAndPrompt ==
  ASSUME NEW w \in Words
  PROVE  LET words == <<w>> \o ShellPrompt IN
         /\ words \in Seq(Words) /\ words # <<>> /\ words[1] = w
         /\ \A m \in 1 .. Len(words) : m = 1 \/ words[m] \notin Questions
<1> DEFINE first == <<w>>
           words == first \o ShellPrompt
<1>1. first \in Seq(Words) /\ Len(first) = 1 /\ first[1] = w
  OBVIOUS
<1> HIDE DEF first
<1> DEFINE joined == first \o ShellPrompt
<1>2. /\ joined \in Seq(Words) /\ Len(joined) = Len(first) + Len(ShellPrompt)
      /\ \A i \in 1 .. Len(first) : joined[i] = first[i]
      /\ \A i \in Len(first) + 1 .. Len(first) + Len(ShellPrompt) :
           joined[i] = ShellPrompt[i - Len(first)]
  BY <1>1, PromptWords, Joined
<1>3. words = joined
  OBVIOUS
<1> HIDE DEF joined, words
<1>4. /\ words \in Seq(Words) /\ Len(words) = 3
      /\ words[1] = first[1] /\ words[2] = ShellPrompt[1] /\ words[3] = ShellPrompt[2]
  BY <1>1, <1>2, <1>3, PromptWords
<1>5. words # <<>>
  BY <1>4
<1>6. words[2] \notin Questions /\ words[3] \notin Questions
  BY <1>4, PromptWords
<1>7. \A m \in 1 .. Len(words) : m = 1 \/ m = 2 \/ m = 3
  BY <1>4
<1>8. \A m \in 1 .. Len(words) : m = 1 \/ words[m] \notin Questions
  BY <1>6, <1>7
<1>9. QED
  BY <1>1, <1>4, <1>5, <1>8 DEF first, words

\* What the guest prints is made of words, and asks one thing at most.
LEMMA GuestWords ==
  /\ ShellPrompt \in Seq(Words) /\ \A m \in 1 .. Len(ShellPrompt) : ShellPrompt[m] \notin Questions
  /\ Greeting \in Seq(Words) /\ Greeting # <<>>
  /\ \A m \in 2 .. Len(Greeting) : Greeting[m] \notin Questions
<1>1. \A m \in 1 .. Len(ShellPrompt) : m = 1 \/ m = 2
  BY PromptWords
<1>2. \A m \in 1 .. Len(ShellPrompt) : ShellPrompt[m] \notin Questions
  BY <1>1, PromptWords
<1>3. "login:" \in Words
  BY Zenon DEF Words
<1>4. /\ Greeting \in Seq(Words) /\ Greeting # <<>>
      /\ \A m \in 1 .. Len(Greeting) : m = 1 \/ Greeting[m] \notin Questions
  BY <1>3, WordAndPrompt DEF Greeting
<1>5. \A m \in 2 .. Len(Greeting) : m \in 1 .. Len(Greeting) /\ m # 1
  BY <1>4
<1>6. QED
  BY <1>2, <1>4, <1>5, PromptWords

LEMMA BootsTurns == Turns /\ Boots => Turns'
<1> SUFFICES ASSUME Turns, Boots PROVE Turns'
  OBVIOUS
<1>1. guest = "boot" /\ guest' = "login" /\ Prints(<<"login:">>) /\ UNCHANGED scriptVars
      /\ typed' = typed /\ ~AtShell
  BY DEF Boots, AtShell
<1>2. typed' = <<>>
  BY <1>1 DEF Turns, OneQuestion, PromptInStep, PromptIsTheShells
<1> DEFINE words == <<"login:">>
<1>3. words \in Seq(Words) /\ words # <<>> /\ Len(words) = 1 /\ words[1] = "login:"
  BY DEF Words
<1>4. /\ \A m \in 2 .. Len(words) : words[m] \notin Questions
      /\ \A m \in 1 .. Len(words) : words[m] # "root@"
  BY <1>3
<1> HIDE DEF words
<1>5. Prints(words)
  BY <1>1 DEF words
<1>6. QED
  BY <1>1, <1>2, <1>3, <1>4, <1>5, QuestionTurns

LEMMA ReadsLineTurns == Turns /\ ReadsLine => Turns'
<1> SUFFICES ASSUME Turns, ReadsLine PROVE Turns'
  OBVIOUS
<1>1. typed # <<>> /\ typed' = Tail(typed) /\ UNCHANGED scriptVars
  BY DEF ReadsLine
<1>2. ASSUME guest \in {"login", "password"} PROVE typed' = <<>> /\ ~AtShell
  <2>1. ~AtShell
    BY <1>2 DEF AtShell
  <2>2. Len(typed) <= 1 /\ typed \in Seq({"root", "install"})
    BY <2>1 DEF Turns, SetupTypeOK, PromptInStep, PromptIsTheShells, OneQuestion
  <2>3. QED
    BY <1>1, <2>1, <2>2
<1>3. CASE guest = "login" /\ guest' = "password" /\ Prints(<<"Password:">>)
  <2> DEFINE words == <<"Password:">>
  <2>1. words \in Seq(Words) /\ words # <<>> /\ Len(words) = 1 /\ words[1] = "Password:"
    BY DEF Words
  <2>2. /\ \A m \in 2 .. Len(words) : words[m] \notin Questions
        /\ \A m \in 1 .. Len(words) : words[m] # "root@"
    BY <2>1
  <2> HIDE DEF words
  <2>3. Prints(words)
    BY <1>3 DEF words
  <2>4. QED
    BY <1>1, <1>2, <1>3, <2>1, <2>2, <2>3, QuestionTurns
<1>4. CASE guest \in {"login", "password"} /\ guest' = "shell" /\ Prints(Greeting)
  BY <1>1, <1>2, <1>4, GuestWords, QuestionTurns
<1>5. CASE guest = "shell" /\ guest' = "shell" /\ Prints(ShellPrompt)
  BY <1>1, <1>5, GuestWords, ShellTurns
<1>6. CASE guest = "shell" /\ guest' = "install" /\ Prints(<<"SETUP_DONE">>)
  <2> DEFINE words == <<"SETUP_DONE">>
  <2>1. words \in Seq(Words) /\ Len(words) = 1 /\ words[1] = "SETUP_DONE"
    BY DEF Words
  <2>2. \A m \in 1 .. Len(words) : words[m] \notin Questions
    BY <2>1 DEF Questions
  <2> HIDE DEF words
  <2>3. Prints(words)
    BY <1>6 DEF words
  <2>4. QED
    BY <1>1, <1>6, <2>1, <2>2, <2>3, ShellTurns
<1>7. QED
  BY <1>3, <1>4, <1>5, <1>6 DEF ReadsLine

LEMMA InstallsTurns == Turns /\ Installs => Turns'
<1> SUFFICES ASSUME Turns, Installs PROVE Turns'
  OBVIOUS
<1>1. guest = "install" /\ guest' = "shell" /\ typed' = typed /\ UNCHANGED scriptVars
  BY DEF Installs
<1>2. CASE Prints(ShellPrompt)
  BY <1>1, <1>2, GuestWords, ShellTurns
<1>3. CASE Prints(<<"SETUP_DONE">> \o ShellPrompt)
  <2> DEFINE words == <<"SETUP_DONE">> \o ShellPrompt
  <2>1. "SETUP_DONE" \in Words /\ "SETUP_DONE" \notin Questions
    BY DEF Words, Questions
  <2>2. /\ words \in Seq(Words) /\ words[1] = "SETUP_DONE"
        /\ \A m \in 1 .. Len(words) : m = 1 \/ words[m] \notin Questions
    BY <2>1, WordAndPrompt
  <2> HIDE DEF words
  <2>3. Prints(words)
    BY <1>3 DEF words
  <2>4. \A m \in 1 .. Len(words) : words[m] \notin Questions
    BY <2>1, <2>2
  <2>5. QED
    BY <1>1, <2>2, <2>3, <2>4, ShellTurns
<1>4. QED
  BY <1>2, <1>3 DEF Installs

\* A dead guest keeps what it printed, and what is typed at it is never read.
LEMMA DiesTurns == Turns /\ Dies => Turns'
<1> SUFFICES ASSUME Turns, Dies PROVE Turns'
  OBVIOUS
<1>1. guest' = "dead" /\ UNCHANGED <<pc, output, text, login_done, typed, printed>>
  BY DEF Dies, scriptVars
<1>2. SetupTypeOK' /\ CopyInStep' /\ AnswersOnce'
  BY <1>1 DEF Turns, SetupTypeOK, CopyInStep, AnswersOnce
<1>3. OneQuestion'
  BY <1>1 DEF Turns, OneQuestion
<1>4. PromptInStep'
  BY <1>1 DEF PromptInStep, PromptIsTheShells, AtShell
<1>5. QED
  BY <1>2, <1>3, <1>4 DEF Turns
-----------------------------------------------------------------------------
LEMMA TurnsInductive == Turns /\ [Next]_vars => Turns'
<1> SUFFICES ASSUME Turns, [Next]_vars PROVE Turns'
  OBVIOUS
<1>1. CASE Script
  BY <1>1, ReadTurns, ReadNothingTurns, SeesLoginTurns, SeesPasswordTurns,
     SeesShellTurns, RestTurns DEF Script
<1>2. CASE Guest
  BY <1>2, BootsTurns, ReadsLineTurns, InstallsTurns DEF Guest
<1>3. CASE UNCHANGED vars
  <2>1. UNCHANGED <<pc, output, text, login_done, guest, typed, printed>>
    BY <1>3 DEF vars, scriptVars, guestVars
  <2>2. SetupTypeOK' /\ CopyInStep' /\ AnswersOnce'
    BY <2>1 DEF Turns, SetupTypeOK, CopyInStep, AnswersOnce
  <2>3. OneQuestion' /\ PromptInStep'
    BY <2>1 DEF Turns, OneQuestion, PromptInStep, PromptIsTheShells, AtShell
  <2>4. QED
    BY <2>2, <2>3 DEF Turns
<1>4. QED
  BY <1>1, <1>2, <1>3, RestTurns, DiesTurns DEF Next, Sleeps

-----------------------------------------------------------------------------
(* The marker *)

\* The places in the buffer and on the console where the marker begins.
Done(string) == Starts(string, {"SETUP_DONE"})

\* The words of the prompt are not the marker.
LEMMA PromptIsNoMarker ==
  ShellPrompt[1] # "SETUP_DONE" /\ ShellPrompt[2] # "SETUP_DONE"
<1>1. "root@" # "SETUP_DONE" /\ "# " # "SETUP_DONE"
  BY Zenon
<1>2. "root@" \in Words /\ "# " \in Words
  BY Zenon DEF Words
<1>3. <<"root@", "# ">>[1] = "root@" /\ <<"root@", "# ">>[2] = "# "
  BY <1>2, Pairs, Zenon
<1>4. QED
  BY <1>1, <1>3, Zenon DEF ShellPrompt

\* Nor are those of the greeting.
LEMMA GreetingIsNoMarker ==
  /\ \A m \in 1 .. Len(ShellPrompt) : ShellPrompt[m] # "SETUP_DONE"
  /\ \A m \in 1 .. Len(Greeting) : Greeting[m] # "SETUP_DONE"
<1> DEFINE first == <<"login:">>
           joined == first \o ShellPrompt
<1>1. first \in Seq(Words) /\ Len(first) = 1 /\ first[1] # "SETUP_DONE"
  BY DEF Words
<1>2. joined = Greeting
  BY DEF Greeting
<1> HIDE DEF first
<1>3. /\ Len(joined) = Len(first) + Len(ShellPrompt)
      /\ \A i \in 1 .. Len(first) : joined[i] = first[i]
      /\ \A i \in Len(first) + 1 .. Len(first) + Len(ShellPrompt) :
           joined[i] = ShellPrompt[i - Len(first)]
  BY <1>1, PromptWords, Joined
<1> HIDE DEF joined
<1>4. /\ Len(joined) = 3 /\ joined[1] = first[1]
      /\ joined[2] = ShellPrompt[1] /\ joined[3] = ShellPrompt[2]
  BY <1>1, <1>3, PromptWords
<1>5. \A m \in 1 .. Len(joined) : joined[m] # "SETUP_DONE"
  <2>1. \A m \in 1 .. Len(joined) : m = 1 \/ m = 2 \/ m = 3
    BY <1>4
  <2>2. QED
    BY <1>1, <1>4, <2>1, PromptIsNoMarker
<1>6. \A m \in 1 .. Len(ShellPrompt) : m = 1 \/ m = 2
  BY PromptWords
<1>7. QED
  BY <1>2, <1>5, <1>6, PromptIsNoMarker

\* Printing other words brings no marker.
LEMMA PrintsNoMarker ==
  ASSUME printed \in Seq(Fragments), NEW words \in Seq(Words), Prints(words),
         \A m \in 1 .. Len(words) : words[m] # "SETUP_DONE", Done(printed) = {}
  PROVE  Done(printed') = {}
<1>1. \A i \in Starts(printed \o TextOf(words), {"SETUP_DONE"}) :
        \/ i \in Starts(printed, {"SETUP_DONE"})
        \/ \E m \in 1 .. Len(words) : words[m] \in {"SETUP_DONE"}
  BY PrintAppends
<1>2. QED
  BY <1>1 DEF Prints, Done

\* Reading a line leaves the lines behind it.
LEMMA LinesLeft ==
  ASSUME typed \in Seq({"root", "install"}), typed # <<>>, typed' = Tail(typed),
         \A i, j \in CommandLines : i = j
  PROVE  /\ CommandLines' # {} => CommandLines # {}
         /\ \A i, j \in CommandLines' : i = j
         /\ Head(typed) = "install" => CommandLines # {} /\ CommandLines' = {}
<1>1. /\ DOMAIN typed = 1 .. Len(typed) /\ Len(typed) \in Nat /\ Len(typed) >= 1
      /\ DOMAIN typed' = 1 .. Len(typed) - 1
      /\ \A i \in 1 .. Len(typed) - 1 : typed'[i] = typed[i + 1]
      /\ Head(typed) = typed[1]
  OBVIOUS
<1>2. ASSUME NEW i \in CommandLines' PROVE i \in Nat /\ i >= 1 /\ i + 1 \in CommandLines
  <2>1. i \in 1 .. Len(typed) - 1 /\ typed'[i] = "install"
    BY <1>1 DEF CommandLines
  <2>2. i + 1 \in 1 .. Len(typed) /\ typed[i + 1] = "install" /\ i \in Nat /\ i >= 1
    BY <1>1, <2>1
  <2>3. QED
    BY <1>1, <2>2 DEF CommandLines
<1>3. \A i, j \in CommandLines' : i = j
  <2>1. TAKE i, j \in CommandLines'
  <2>2. i \in Nat /\ j \in Nat /\ i + 1 = j + 1
    BY <1>2
  <2>3. QED
    BY <2>2
<1>4. ASSUME Head(typed) = "install" PROVE CommandLines # {} /\ CommandLines' = {}
  <2>1. 1 \in CommandLines
    BY <1>1, <1>4 DEF CommandLines
  <2>2. ASSUME NEW i \in CommandLines' PROVE FALSE
    <3>1. i \in Nat /\ i >= 1 /\ i + 1 = 1
      BY <1>2, <2>1
    <3>2. QED
      BY <3>1
  <2>3. QED
    BY <2>1, <2>2
<1>5. QED
  BY <1>2, <1>3, <1>4

\* Typing a line that is not the command.
LEMMA LineAdded ==
  ASSUME typed \in Seq({"root", "install"}), NEW line \in {"root", "install"},
         typed' = Append(typed, line)
  PROVE  \A i \in CommandLines' :
           i \in CommandLines \/ (i = Len(typed) + 1 /\ line = "install")
<1>1. /\ DOMAIN typed = 1 .. Len(typed) /\ Len(typed) \in Nat
      /\ DOMAIN typed' = 1 .. Len(typed) + 1
      /\ \A i \in 1 .. Len(typed) : typed'[i] = typed[i]
      /\ typed'[Len(typed) + 1] = line
  OBVIOUS
<1>2. TAKE i \in CommandLines'
<1>3. i \in 1 .. Len(typed) + 1 /\ typed'[i] = "install"
  BY <1>1 DEF CommandLines
<1>4. QED
  BY <1>1, <1>3 DEF CommandLines

\* A step that types no command, prints no marker and ends no shell's command.
LEMMA MarkStays ==
  ASSUME Turns, Marked, login_done' = login_done, guest' # "install" \/ guest' = guest,
         CommandLines' # {} => CommandLines # {},
         \A i, j \in CommandLines' : i = j,
         Done(output') # {} => Done(output) # {} \/ Done(printed) # {},
         Done(printed') # {} => Done(printed) # {},
         setup_done' => setup_done \/ (login_done /\ Done(output) # {})
  PROVE  Marked'
<1>1. /\ CommandLines' # {} => login_done'
      /\ guest' = "install" => login_done' /\ CommandLines' = {}
  BY DEF Marked, MarkerIsTheShells
<1>2. \A s \in {output, printed} : Done(s) # {} => login_done /\ CommandLines = {}
  BY DEF Marked, MarkerIsTheShells, Done
<1>3. \A s \in {output', printed'} : Done(s) # {} => login_done' /\ CommandLines' = {}
  BY <1>2
<1>4. setup_done' => login_done' /\ CommandLines' = {}
  BY <1>2 DEF Marked, SaidIsTheShells
<1>5. QED
  BY <1>1, <1>3, <1>4 DEF Marked, MarkerIsTheShells, SaidIsTheShells, Done

\* Reading the console only moves the marker.
LEMMA ReadMarked ==
  ASSUME Turns, Marked, Read \/ ReadNothing
  PROVE  Marked'
<1>1. /\ login_done' = login_done /\ guest' = guest /\ setup_done' = setup_done
      /\ typed' = typed
  BY DEF Read, ReadNothing, guestVars
<1>2. output \in Seq(Fragments) /\ printed \in Seq(Fragments)
  BY DEF Turns, SetupTypeOK
<1>3. /\ Done(output') # {} => Done(output) # {} \/ Done(printed) # {}
      /\ Done(printed') # {} => Done(printed) # {}
  <2>1. CASE Read
    <3>1. PICK n \in 1 .. Len(printed) :
            /\ output' = output \o SubSeq(printed, 1, n)
            /\ printed' = SubSeq(printed, n + 1, Len(printed))
      BY <2>1 DEF Read, Look
    <3>2. /\ \A i \in Done(output') : i \in Done(output) \/ i - Len(output) \in Done(printed)
          /\ \A i \in Done(printed') : i + n \in Done(printed)
      BY <1>2, <3>1, ReadMoves DEF Done
    <3>3. QED
      BY <3>2
  <2>2. CASE ReadNothing
    BY <2>2 DEF ReadNothing, Look
  <2>3. QED
    BY <2>1, <2>2
<1>4. CommandLines' = CommandLines
  BY <1>1 DEF CommandLines
<1>5. QED
  BY <1>1, <1>3, <1>4, MarkStays DEF Marked, MarkerIsTheShells

\* The answers to the questions are no commands.
LEMMA AnswerMarked ==
  ASSUME Turns, Marked, SeesLogin \/ SeesPassword
  PROVE  Marked'
<1>1. /\ login_done' = login_done /\ guest' = guest /\ setup_done' = setup_done
      /\ printed' = printed /\ output' \in {output, <<>>}
      /\ typed' = typed \/ typed' = Append(typed, "root")
  BY DEF SeesLogin, SeesPassword, Answer, guestVars
<1>2. typed \in Seq({"root", "install"}) /\ Done(<<>>) = {}
  BY NothingStarts DEF Turns, SetupTypeOK, Done
<1>3. \A i \in CommandLines' : i \in CommandLines
  <2>1. CASE typed' = typed
    BY <2>1 DEF CommandLines
  <2>2. CASE typed' = Append(typed, "root")
    BY <1>2, <2>2, LineAdded
  <2>3. QED
    BY <1>1, <2>1, <2>2
<1>4. QED
  BY <1>1, <1>2, <1>3, MarkStays DEF Marked, MarkerIsTheShells

\* The command is typed before there is a marker anywhere.
LEMMA ShellMarked ==
  ASSUME Turns, Marked, SeesShell
  PROVE  Marked'
<1>1. ~login_done /\ pc = "shell"
  BY DEF SeesShell, Turns, CopyInStep
<1>2. /\ Done(output) = {} /\ Done(printed) = {} /\ CommandLines = {}
      /\ ~setup_done /\ guest # "install"
  BY <1>1 DEF Marked, MarkerIsTheShells, SaidIsTheShells, Done
<1>3. /\ guest' = guest /\ setup_done' = setup_done /\ printed' = printed
      /\ output' \in {output, <<>>}
      /\ \/ typed' = typed
         \/ typed' = Append(typed, "install") /\ login_done'
  BY DEF SeesShell, Answer, guestVars
<1>4. typed \in Seq({"root", "install"}) /\ Done(<<>>) = {}
  BY NothingStarts DEF Turns, SetupTypeOK, Done
<1>5. \A i \in CommandLines' : i = Len(typed) + 1 /\ login_done'
  <2>1. CASE typed' = typed
    BY <1>2, <2>1 DEF CommandLines
  <2>2. CASE typed' = Append(typed, "install") /\ login_done'
    BY <1>2, <1>4, <2>2, LineAdded
  <2>3. QED
    BY <1>3, <2>1, <2>2
<1>6. Done(output') = {} /\ Done(printed') = {}
  BY <1>2, <1>3, <1>4
<1>7. QED
  BY <1>2, <1>3, <1>5, <1>6 DEF Marked, MarkerIsTheShells, SaidIsTheShells, Done

\* Success is reported on the marker.
LEMMA RestMarked ==
  ASSUME Turns, Marked,
         Check \/ ReadEnds \/ TimeIsUp \/ Report \/ CopyToLog \/ Dies \/ UNCHANGED vars
  PROVE  Marked'
<1>1. /\ login_done' = login_done /\ typed' = typed /\ guest' \in {guest, "dead"}
      /\ output' \in {output, <<>>} /\ printed' \in {printed, <<>>}
  BY DEF Check, ReadEnds, TimeIsUp, LeaveLoop, Report, CopyToLog, Dies, guestVars, scriptVars,
     vars
<1>2. output \in Seq(Fragments) /\ Done(<<>>) = {}
  BY NothingStarts DEF Turns, SetupTypeOK, Done
<1>3. setup_done' => setup_done \/ (login_done /\ Done(output) # {})
  <2>1. CASE Check
    <3>1. setup_done' => login_done /\ Contains(output, "SETUP_DONE")
      BY <2>1 DEF Check
    <3>2. QED
      BY <1>2, <3>1, ContainsStarts DEF Done
  <2>2. CASE ~Check
    BY <2>2 DEF ReadEnds, TimeIsUp, LeaveLoop, Report, CopyToLog, Dies, scriptVars, vars
  <2>3. QED
    BY <2>1, <2>2
<1>4. CommandLines' = CommandLines
  BY <1>1 DEF CommandLines
<1>5. guest' # "install" \/ guest' = guest
  BY <1>1
<1>6. QED
  BY <1>1, <1>2, <1>3, <1>4, <1>5, MarkStays DEF Marked, MarkerIsTheShells

\* The guest prints the marker when a shell has read the command.
LEMMA GuestMarked ==
  ASSUME Turns, Marked, Guest
  PROVE  Marked'
<1>1. /\ login_done' = login_done /\ output' = output /\ setup_done' = setup_done
      /\ typed \in Seq({"root", "install"}) /\ printed \in Seq(Fragments)
  BY DEF Guest, Boots, ReadsLine, Installs, scriptVars, Turns, SetupTypeOK
<1>2. \A i, j \in CommandLines : i = j
  BY DEF Marked, MarkerIsTheShells
<1>3. ASSUME guest' # "install",
             typed' = typed \/ (typed # <<>> /\ typed' = Tail(typed)),
             NEW words \in Seq(Words), Prints(words),
             \A m \in 1 .. Len(words) : words[m] # "SETUP_DONE"
      PROVE  Marked'
  <2>1. (CommandLines' # {} => CommandLines # {}) /\ \A i, j \in CommandLines' : i = j
    <3>1. CASE typed' = typed
      BY <1>2, <3>1 DEF CommandLines
    <3>2. CASE typed # <<>> /\ typed' = Tail(typed)
      BY <1>1, <1>2, <3>2, LinesLeft
    <3>3. QED
      BY <1>3, <3>1, <3>2
  <2>2. Done(printed') # {} => Done(printed) # {}
    BY <1>1, <1>3, PrintsNoMarker
  <2>3. QED
    BY <1>1, <1>3, <2>1, <2>2, MarkStays
<1>4. CASE guest = "shell" /\ Head(typed) = "install" /\ typed # <<>> /\ typed' = Tail(typed)
  <2>1. CommandLines # {} /\ CommandLines' = {}
    BY <1>1, <1>2, <1>4, LinesLeft
  <2>2. login_done'
    BY <1>1, <2>1 DEF Marked, MarkerIsTheShells
  <2>3. QED
    BY <2>1, <2>2 DEF Marked, MarkerIsTheShells, SaidIsTheShells
<1>5. CASE Installs
  <2>1. login_done /\ CommandLines = {} /\ typed' = typed
    BY <1>5 DEF Installs, Marked, MarkerIsTheShells
  <2>2. CommandLines' = {}
    BY <2>1 DEF CommandLines
  <2>3. QED
    BY <1>1, <2>1, <2>2 DEF Marked, MarkerIsTheShells, SaidIsTheShells
<1>6. CASE Boots
  <2> DEFINE words == <<"login:">>
  <2>1. words \in Seq(Words) /\ Len(words) = 1 /\ words[1] # "SETUP_DONE"
    BY DEF Words
  <2>2. \A m \in 1 .. Len(words) : words[m] # "SETUP_DONE"
    BY <2>1
  <2>3. Prints(words) /\ guest' # "install" /\ typed' = typed
    BY <1>6 DEF Boots
  <2> HIDE DEF words
  <2>4. QED
    BY <1>3, <2>1, <2>2, <2>3
<1>7. CASE ReadsLine /\ guest' = "password" /\ Prints(<<"Password:">>)
  <2> DEFINE words == <<"Password:">>
  <2>1. words \in Seq(Words) /\ Len(words) = 1 /\ words[1] # "SETUP_DONE"
    BY DEF Words
  <2>2. \A m \in 1 .. Len(words) : words[m] # "SETUP_DONE"
    BY <2>1
  <2>3. Prints(words) /\ guest' # "install" /\ typed # <<>> /\ typed' = Tail(typed)
    BY <1>7 DEF ReadsLine
  <2> HIDE DEF words
  <2>4. QED
    BY <1>3, <2>1, <2>2, <2>3
<1>8. CASE ReadsLine /\ guest' = "shell" /\ (Prints(Greeting) \/ Prints(ShellPrompt))
  <2>1. typed # <<>> /\ typed' = Tail(typed)
    BY <1>8 DEF ReadsLine
  <2>2. QED
    BY <1>3, <1>8, <2>1, GuestWords, GreetingIsNoMarker
<1>9. QED
  BY <1>4, <1>5, <1>6, <1>7, <1>8 DEF Guest, ReadsLine

LEMMA MarkedInductive == Turns /\ Marked /\ [Next]_vars => Marked'
BY ReadMarked, AnswerMarked, ShellMarked, RestMarked, GuestMarked DEF Next, Script, Sleeps

LEMMA InitMarked == Init => Marked
<1> SUFFICES ASSUME Init PROVE Marked
  OBVIOUS
<1>1. /\ output = <<>> /\ printed = <<>> /\ typed = <<>> /\ guest = "boot" /\ ~setup_done
  BY DEF Init
<1>2. CommandLines = {} /\ Starts(<<>>, {"SETUP_DONE"}) = {}
  BY <1>1, NothingStarts DEF CommandLines
<1>3. QED
  BY <1>1, <1>2 DEF Marked, MarkerIsTheShells, SaidIsTheShells

LEMMA TurnsMarked == Spec => [](Turns /\ Marked)
<1>1. Init => Turns /\ Marked
  BY InitTurns, InitMarked
<1>2. Turns /\ Marked /\ [Next]_vars => (Turns /\ Marked)'
  BY TurnsInductive, MarkedInductive
<1>3. QED
  BY <1>1, <1>2, PTL DEF Spec

\* Script and guest take turns: the invariant of setup-vm.py with any cutting of the
\* console's text.
THEOREM TakesTurns == Spec => []SetupInv
BY TurnsSuffice, TurnsMarked, PTL

\* A word of the console is answered once, not again in every iteration of the loop
\* while it is still in the buffer.
THEOREM NeverRunsAhead == Spec => []AnswersOnce
<1>1. SetupInv => AnswersOnce
  BY DEF SetupInv
<1>2. QED
  BY <1>1, TakesTurns, PTL

\* The command that installs the key is typed to a shell and to nothing that would
\* take it for a name or a password.
THEOREM CommandIsTheShells == Spec => []CommandAtShell
BY TurnsSuffice, TurnsMarked, PTL

\* When the script says that the key is installed, a shell has read the command, and
\* the script typed it once: the word it takes for success is not a late prompt, not
\* text from before the command, and not printed by login.
THEOREM SaidOnceRead == Spec => []SaidIsTheShells
BY TurnsSuffice, TurnsMarked, PTL
=============================================================================
