---------------------------- MODULE TemplateProofs ----------------------------
(***************************************************************************)
(* Theorems about Template, for any pages, edits, maps and bounds.         *)
(***************************************************************************)
EXTENDS Template, DataInduction

Pair == [keyWord : Key, replaceBy : Value]

\* s is a page from its start, all of it if nobody edits the file.
StartOfPage(s) ==
  \E v \in {Page} \cup Edits : \E n \in 0 .. Len(v) :
    /\ s = SubSeq(v, 1, n)
    /\ edits = 0 => v = Page /\ n = Len(v)

Loop == {"yield", "search", "replace", "finish"}

\* The file is what it was, or was edited; and so is what was read of it.
FileInv ==
  /\ file \in {Page} \cup Edits /\ (edits = 0 => file = Page)
  /\ pc = "read" /\ edits = 0 => size = Len(Page)
  /\ pc \in Loop => StartOfPage(html)

\* The page is in the hands of load_html_template, and replace_regex is busy with an item
\* of the map.
HandInv ==
  /\ page = IF pc \in {"read"} \cup Loop THEN "live" ELSE "none"
  /\ pc \in {"search", "replace"} => item \in 1 .. Len(map)

\* The text that a search has before it.
Ahead == len - offset

\* What is before a search is never more than the page, and a match lies in it, in the page
\* as in a copy that reads as anything.
SearchInv ==
  pc \in {"search", "replace"} =>
    /\ Ahead \in 0 .. Len(html)
    /\ str = "page" => offset = 0
    /\ pc = "replace" => match \in offset + 1 .. len

OutputIsRead == pc = "done" => StartOfPage(output)

IInv == TypeOK /\ FileInv /\ HandInv /\ SearchInv /\ PageFits /\ OutputIsRead

\* A match lies in what is before the search.
LEMMA MatchAhead ==
  ASSUME TypeOK, SearchInv, pc = "search", NEW i \in Matches
  PROVE  i \in Nat /\ i \in offset + 1 .. len
<1>1. PICK l \in Nat, k \in Nat : l = len /\ k = offset
  BY DEF TypeOK
<1>2. CASE str = "page"
  <2>1. k = 0 /\ i \in 1 .. l
    BY <1>1, <1>2 DEF SearchInv, Matches
  <2>2. QED
    BY <1>1, <2>1
<1>3. CASE str # "page"
  <2>1. i \in k + 1 .. l
    BY <1>1, <1>3 DEF Matches
  <2>2. QED
    BY <1>1, <2>1
<1>4. QED
  BY <1>2, <1>3

\* What a replacement at m of a string of length l makes of the counters, if the search
\* had gone on at k: the match and all before it are left behind.
LEMMA LeftBehind ==
  ASSUME NEW l \in Nat, NEW k \in Nat, NEW m \in Nat, NEW r \in Nat, m \in k + 1 .. l
  PROVE  /\ l - 1 + r \in Nat /\ m - 1 + r \in Nat
         /\ (l - 1 + r) - (m - 1 + r) = l - m
         /\ l - m \in Nat /\ l - m < l - k
OBVIOUS

LEMMA InitIInv == Init => IInv
<1> SUFFICES ASSUME Init PROVE IInv
  OBVIOUS
<1>1. TypeOK
  BY TemplateAssumption DEF Init, TypeOK, FirstItem
<1>2. FileInv /\ HandInv /\ SearchInv /\ PageFits /\ OutputIsRead
  BY DEF Init, FileInv, HandInv, SearchInv, PageFits, OutputIsRead, Loop
<1>3. QED
  BY <1>1, <1>2 DEF IInv

-----------------------------------------------------------------------------

\* The others change nothing that the rendering holds.
LEMMA EditStep == ASSUME IInv, Edit PROVE IInv'
<1>1. /\ edits \in Nat /\ edits' = edits + 1 /\ edits < EditBound /\ file' \in Edits
      /\ UNCHANGED <<status, pc, renders, map, item, page, size, html, str, len, offset, match, output>>
  BY DEF IInv, TypeOK, Edit, caller, reading, regex
<1>2. edits' # 0 /\ edits' \in 0 .. EditBound
  BY <1>1, TemplateAssumption
<1>3. TypeOK'
  BY <1>1, <1>2, TemplateAssumption DEF IInv, TypeOK
<1>4. ASSUME NEW s, StartOfPage(s) PROVE StartOfPage(s)'
  BY <1>2, <1>4 DEF StartOfPage
<1>5. FileInv'
  BY <1>1, <1>2, <1>4 DEF IInv, FileInv
<1>6. HandInv' /\ SearchInv' /\ PageFits' /\ OutputIsRead'
  BY <1>1, <1>4 DEF IInv, HandInv, SearchInv, Ahead, PageFits, OutputIsRead
<1>7. QED
  BY <1>3, <1>5, <1>6 DEF IInv

\* A map that is listed is a sequence of pairs.
LEMMA MapsAreLists == Maps \subseteq Seq(Pair)
<1>1. ASSUME NEW m \in 0 .. MapBound PROVE [1 .. m -> Pair] \subseteq Seq(Pair)
  OBVIOUS
<1>2. QED
  BY <1>1 DEF Maps, SeqOf, Pair

LEMMA CallStep ==
  ASSUME IInv, NEW template_map \in Maps, load_html_template(template_map) PROVE IInv'
<1>1. /\ renders \in 0 .. RenderBound /\ renders < RenderBound
      /\ renders' = renders + 1 /\ pc \in {"idle", "done"} /\ pc' = "measure"
      /\ map' = template_map /\ status' \in {status, "dead"}
      /\ UNCHANGED <<file, edits, item, page, size, html, str, len, offset, match, output>>
  BY DEF IInv, TypeOK, load_html_template, world, reading, regex
<1>2. renders' \in 0 .. RenderBound
  BY <1>1, TemplateAssumption
<1>3. map' \in Seq([keyWord : Key, replaceBy : Value])
  BY <1>1, MapsAreLists DEF Pair
<1>4. TypeOK'
  BY <1>1, <1>2, <1>3 DEF IInv, TypeOK
<1>5. FileInv' /\ HandInv' /\ SearchInv' /\ PageFits' /\ OutputIsRead'
  BY <1>1 DEF IInv, FileInv, HandInv, SearchInv, PageFits, OutputIsRead, Loop
<1>6. QED
  BY <1>4, <1>5 DEF IInv

LEMMA FileIsPage == ASSUME IInv PROVE file \in Seq(Piece) /\ Len(file) \in Nat
  BY DEF IInv, TypeOK

LEMMA MeasureStep == ASSUME IInv, Measure PROVE IInv'
<1>1. /\ pc = "measure"
      /\ UNCHANGED <<file, edits, renders, map, item, str, len, offset, match, output>>
  BY DEF Measure, world, caller, regex
<1>2. CASE UNCHANGED <<page, size, html, pc>> /\ status' = "dead"
  <2>1. TypeOK'
    BY <1>1, <1>2 DEF IInv, TypeOK
  <2>2. FileInv' /\ HandInv' /\ SearchInv' /\ PageFits' /\ OutputIsRead'
    BY <1>1, <1>2 DEF IInv, FileInv, HandInv, SearchInv, PageFits, OutputIsRead, Loop
  <2>3. QED
    BY <2>1, <2>2 DEF IInv
<1>3. CASE /\ page' = "live" /\ size' = Len(file) /\ html' = <<>>
           /\ pc' = "read" /\ UNCHANGED status
  <2>1. TypeOK'
    BY <1>1, <1>3, FileIsPage DEF IInv, TypeOK
  <2>2. FileInv' /\ HandInv' /\ SearchInv' /\ OutputIsRead'
    BY <1>1, <1>3 DEF IInv, FileInv, HandInv, SearchInv, OutputIsRead, Loop
  <2>3. PageFits'
    BY <1>3, FileIsPage DEF PageFits
  <2>4. QED
    BY <2>1, <2>2, <2>3 DEF IInv
<1>4. QED
  BY <1>2, <1>3 DEF Measure

\* What fread puts into the buffer.
LEMMA FreadFits ==
  ASSUME NEW v \in Seq(Piece), NEW room \in Nat
  PROVE  \E n \in 0 .. Len(v) :
           /\ Fread(v, room) = SubSeq(v, 1, n) /\ Fread(v, room) \in Seq(Piece)
           /\ Len(Fread(v, room)) = n /\ n <= room
           /\ room = Len(v) => n = Len(v)
<1>1. PICK k \in Nat : k = Len(v)
  OBVIOUS
<1>2. PICK n \in 0 .. k : n = IF room < k THEN room ELSE k
  BY <1>1
<1>3. Fread(v, room) = SubSeq(v, 1, n)
  BY <1>1, <1>2 DEF Fread
<1>4. SubSeq(v, 1, n) \in Seq(Piece) /\ Len(SubSeq(v, 1, n)) = n
  BY <1>1, <1>2
<1>5. n <= room /\ (room = k => n = k)
  BY <1>2
<1>6. QED
  BY <1>1, <1>3, <1>4, <1>5

LEMMA ReadStep == ASSUME IInv, Read PROVE IInv'
<1>1. /\ pc = "read" /\ pc' = "yield" /\ item' = FirstItem /\ html' = Fread(file, size)
      /\ UNCHANGED <<status, file, edits, renders, map, page, size, str, len, offset, match, output>>
  BY DEF Read, world, caller, regex
<1>2. PICK n \in 0 .. Len(file) :
        /\ html' = SubSeq(file, 1, n) /\ html' \in Seq(Piece)
        /\ Len(html') = n /\ n <= size
        /\ size = Len(file) => n = Len(file)
  <2>1. file \in Seq(Piece) /\ size \in Nat
    BY DEF IInv, TypeOK
  <2>2. \E n \in 0 .. Len(file) :
          /\ Fread(file, size) = SubSeq(file, 1, n) /\ Fread(file, size) \in Seq(Piece)
          /\ Len(Fread(file, size)) = n /\ n <= size
          /\ size = Len(file) => n = Len(file)
    BY <2>1, FreadFits, Zenon
  <2>3. QED
    BY <1>1, <2>2, Zenon
<1>3. TypeOK'
  BY <1>1, <1>2 DEF IInv, TypeOK, FirstItem
<1>4. file \in {Page} \cup Edits /\ (edits = 0 => file = Page /\ n = Len(file))
  BY <1>1, <1>2 DEF IInv, FileInv
<1>5. StartOfPage(html')
  BY <1>2, <1>4 DEF StartOfPage
<1>6. StartOfPage(html)'
  BY <1>1, <1>5 DEF StartOfPage
<1>7. FileInv'
  BY <1>1, <1>6 DEF IInv, FileInv
<1>8. HandInv' /\ SearchInv' /\ OutputIsRead'
  BY <1>1 DEF IInv, HandInv, SearchInv, OutputIsRead, Loop
<1>9. PageFits'
  BY <1>1, <1>2 DEF PageFits
<1>10. QED
  BY <1>3, <1>7, <1>8, <1>9 DEF IInv

\* A step of the loop leaves the file and the page alone.
LEMMA LoopStep ==
  ASSUME IInv, pc \in Loop, pc' \in Loop, TypeOK', HandInv', SearchInv',
         UNCHANGED <<file, edits, html, size>>
  PROVE  IInv'
<1>1. FileInv'
  BY DEF IInv, FileInv, StartOfPage, Loop
<1>2. PageFits' /\ OutputIsRead'
  BY DEF IInv, PageFits, OutputIsRead, Loop
<1>3. QED
  BY <1>1, <1>2 DEF IInv

LEMMA YieldItemStep == ASSUME IInv, YieldItem PROVE IInv'
<1>1. /\ pc = "yield" /\ item \in Nat \ {0} /\ map \in Seq(Pair)
      /\ UNCHANGED <<status, file, edits, renders, map, page, size, html, output>>
  BY DEF YieldItem, world, caller, reading, IInv, HandInv, TypeOK, Pair
<1>2. CASE pc' = "finish" /\ UNCHANGED <<item, regex>>
  <2>1. TypeOK' /\ HandInv' /\ SearchInv'
    BY <1>1, <1>2 DEF regex, IInv, TypeOK, HandInv, SearchInv, Loop
  <2>2. QED
    BY <1>1, <1>2, <2>1, LoopStep DEF Loop
<1>3. CASE /\ item <= Len(map) /\ str' = "page" /\ len' = Len(html) /\ offset' = 0
           /\ pc' = "search" /\ UNCHANGED <<item, match>>
  <2>1. item \in 1 .. Len(map)
    BY <1>1, <1>3
  <2>2. PICK l \in Nat : l = Len(html)
    BY DEF IInv, TypeOK
  <2>3. TypeOK' /\ HandInv'
    BY <1>1, <1>3, <2>1, <2>2 DEF IInv, TypeOK, HandInv, Loop
  <2>4. l - 0 \in 0 .. l
    OBVIOUS
  <2>5. SearchInv'
    BY <1>1, <1>3, <2>2, <2>4 DEF SearchInv, Ahead
  <2>6. QED
    BY <1>1, <1>3, <2>3, <2>5, LoopStep DEF Loop
<1>4. CASE item' = item + 1 /\ UNCHANGED <<pc, regex>>
  <2>1. TypeOK' /\ HandInv' /\ SearchInv'
    BY <1>1, <1>4 DEF regex, IInv, TypeOK, HandInv, SearchInv, Loop
  <2>2. QED
    BY <1>1, <1>4, <2>1, LoopStep DEF Loop
<1>5. item > Len(map) \/ item <= Len(map)
  BY <1>1
<1>6. QED
  BY <1>2, <1>3, <1>4, <1>5 DEF YieldItem

LEMMA SearchStep == ASSUME IInv, Search PROVE IInv'
<1>1. /\ pc = "search" /\ item \in Nat \ {0} /\ item \in 1 .. Len(map)
      /\ UNCHANGED <<file, edits, renders, map, page, size, html, output>>
  BY DEF Search, world, caller, reading, IInv, HandInv, TypeOK
<1>2. CASE str = "freed" /\ status' = "undefined" /\ UNCHANGED <<item, pc, regex>>
  <2>1. TypeOK' /\ HandInv' /\ SearchInv'
    BY <1>1, <1>2 DEF regex, IInv, TypeOK, HandInv, SearchInv, Ahead, Loop
  <2>2. QED
    BY <1>1, <1>2, <2>1, LoopStep DEF Loop
<1>3. CASE /\ match' \in Matches /\ pc' = "replace"
           /\ UNCHANGED <<status, item, str, len, offset>>
  <2>1. match' \in Nat /\ match' \in offset + 1 .. len
    BY <1>1, <1>3, MatchAhead DEF IInv
  <2>2. TypeOK' /\ HandInv' /\ SearchInv'
    BY <1>1, <1>3, <2>1 DEF IInv, TypeOK, HandInv, SearchInv, Ahead, Loop
  <2>3. QED
    BY <1>1, <1>3, <2>2, LoopStep DEF Loop
<1>4. CASE Return /\ UNCHANGED status
  <2>1. TypeOK' /\ HandInv' /\ SearchInv'
    BY <1>1, <1>4 DEF Return, IInv, TypeOK, HandInv, SearchInv, Loop
  <2>2. pc' = "yield"
    BY <1>4 DEF Return
  <2>3. QED
    BY <1>1, <2>1, <2>2, LoopStep DEF Loop
<1>5. QED
  BY <1>2, <1>3, <1>4 DEF Search

\* The replacement, and what it makes of the counters.
LEMMA Replaces ==
  ASSUME IInv, Replace
  PROVE  /\ len' \in Nat /\ offset' \in Nat /\ Ahead \in Nat
         /\ Ahead' \in Nat /\ Ahead' < Ahead
<1>1. item \in 1 .. Len(map) /\ map \in Seq(Pair) /\ pc = "replace"
  BY DEF Replace, IInv, HandInv, TypeOK, Pair
<1>2. map[item] \in Pair
  BY <1>1
<1>3. map[item].replaceBy \in Seq(Piece)
  BY <1>2, TemplateAssumption DEF Pair
<1>4. PICK r \in Nat : r = Len(map[item].replaceBy)
  BY <1>3
<1>5. PICK l \in Nat, k \in Nat, m \in Nat :
        l = len /\ k = offset /\ m = match /\ m \in k + 1 .. l /\ l - k \in Nat
  BY <1>1 DEF IInv, TypeOK, SearchInv, Ahead
<1>6. len' = l - 1 + r /\ offset' = m - 1 + r
  BY <1>4, <1>5 DEF Replace, NextOffset
<1>7. /\ l - 1 + r \in Nat /\ m - 1 + r \in Nat
      /\ (l - 1 + r) - (m - 1 + r) = l - m
      /\ l - m \in Nat /\ l - m < l - k
  BY <1>5, LeftBehind
<1>8. Ahead' = l - m /\ Ahead = l - k
  BY <1>5, <1>6, <1>7 DEF Ahead
<1>9. QED
  BY <1>5, <1>6, <1>7, <1>8

LEMMA ReplaceStep == ASSUME IInv, Replace PROVE IInv'
<1>1. /\ pc = "replace" /\ pc' = "search" /\ match' = 0 /\ status' \in {status, "undefined"}
      /\ str' = "freed" /\ page' = page
      /\ UNCHANGED <<file, edits, renders, map, item, size, html, output>>
  BY DEF Replace, FreeString, world, caller
<1>2. TypeOK' /\ HandInv'
  BY <1>1, Replaces DEF IInv, TypeOK, HandInv, Loop
<1>3. PICK l \in Nat : l = Len(html)
  BY DEF IInv, TypeOK
<1>4. PICK a \in Nat, b \in Nat : a = Ahead /\ b = Ahead' /\ b < a
  BY Replaces
<1>5. a <= l
  BY <1>1, <1>3, <1>4 DEF IInv, SearchInv
<1>6. b \in 0 .. l
  BY <1>4, <1>5
<1>7. SearchInv'
  BY <1>1, <1>3, <1>4, <1>6 DEF SearchInv
<1>8. QED
  BY <1>1, <1>2, <1>7, LoopStep DEF Loop

LEMMA FinishStep == ASSUME IInv, Finish PROVE IInv'
<1>1. /\ pc = "finish" /\ page = "live"
      /\ UNCHANGED <<file, edits, renders, map, item, size, html, str, len, offset, match>>
  BY DEF Finish, world, caller, regex, IInv, HandInv, Loop
<1>2. output' = html /\ page' = "none" /\ pc' = "done" /\ UNCHANGED status
  BY <1>1 DEF Finish
<1>3. TypeOK'
  BY <1>1, <1>2 DEF IInv, TypeOK
<1>4. HandInv' /\ SearchInv' /\ PageFits'
  BY <1>1, <1>2 DEF IInv, HandInv, SearchInv, PageFits, Loop
<1>5. FileInv' /\ OutputIsRead'
  BY <1>1, <1>2 DEF IInv, FileInv, OutputIsRead, Loop, StartOfPage
<1>6. QED
  BY <1>3, <1>4, <1>5 DEF IInv

LEMMA NextIInv == IInv /\ [Next]_vars => IInv'
<1> SUFFICES ASSUME IInv, [Next]_vars PROVE IInv'
  OBVIOUS
<1>1. CASE UNCHANGED vars
  BY <1>1 DEF vars, world, caller, reading, regex, IInv, TypeOK, FileInv, HandInv, SearchInv, PageFits,
     OutputIsRead, StartOfPage, Ahead
<1>2. QED
  BY <1>1, EditStep, CallStep, MeasureStep, ReadStep, YieldItemStep, SearchStep,
     ReplaceStep, FinishStep DEF Next, Rendering, Terminated

-----------------------------------------------------------------------------

\* The inductive invariant holds, for any pages, edits, maps and bounds.
THEOREM Invariance == Spec => []IInv
<1>1. QED
  BY InitIInv, NextIInv, PTL DEF Spec

\* Every variable keeps its type (load_html_template, replace_regex).
THEOREM TypeCorrect == Spec => []TypeOK
<1>1. IInv => TypeOK
  BY DEF IInv
<1>2. QED
  BY <1>1, Invariance, PTL

\* What is read fits in the buffer, however often the file is edited (read_file).
THEOREM PageFitsBuffer == Spec => []PageFits
<1>1. IInv => PageFits
  BY DEF IInv
<1>2. QED
  BY <1>1, Invariance, PTL

\* The page is live exactly while it is used, whatever fails (load_html_template,
\* replace_regex).
THEOREM PageIsHeld == Spec => []PageHeld
<1>1. IInv => PageHeld
  BY DEF IInv, HandInv, PageHeld, Loop
<1>2. QED
  BY <1>1, Invariance, PTL

\* What the caller gets is the page as it was read: no replacement ever reaches it
\* (load_html_template, whose comment says otherwise).
THEOREM NothingIsReplaced == Spec => []OutputIsRead
<1>1. IInv => OutputIsRead
  BY DEF IInv
<1>2. QED
  BY <1>1, Invariance, PTL

\* A search never begins behind the end of its string, whatever the freed copies read as
\* and whatever the replacements hold (replace_regex).
THEOREM SearchStaysInside == Spec => []SearchInside
<1>1. IInv => SearchInside
  BY DEF IInv, TypeOK, SearchInv, Ahead, SearchInside
<1>2. QED
  BY <1>1, Invariance, PTL

\* What the caller gets is sound: it is a start of a page with no piece replaced.
THEOREM OutputIsSound == Spec => []OutputSound
<1>1. ASSUME NEW v \in {Page} \cup Edits, NEW n \in 0 .. Len(v)
      PROVE  SubSeq(v, 1, n) \in Renderings(SubSeq(v, 1, n), {})
  <2>1. v \in Seq(Piece)
    BY TemplateAssumption
  <2>2. PICK w \in Seq(Piece) : w = SubSeq(v, 1, n)
    <3>1. SubSeq(v, 1, n) \in Seq(Piece)
      BY <2>1
    <3>2. QED
      BY <3>1
  <2> DEFINE none == [i \in {} |-> <<>>]
             e == [i \in DOMAIN w |-> IF i \in {} THEN none[i] ELSE <<w[i]>>]
  <2>3. none \in [{} -> Value]
    OBVIOUS
  <2>4. FlattenSeq(e) \in Renderings(w, {})
    BY <2>3 DEF Renderings
  <2>5. FlattenSeq(e) = w
    <3>1. PICK m \in Nat : m = Len(w) /\ DOMAIN w = 1 .. m
      OBVIOUS
    <3>2. \A i \in 1 .. m : w[i] \in Piece
      BY <3>1
    <3>3. \A i \in 1 .. m : e[i] = One(w[i])
      BY <3>1 DEF One
    <3>4. e \in [1 .. m -> Text(Piece)]
      BY <3>1, <3>2, <3>3, TextOne
    <3>5. w \in Text(Piece) /\ Size(w) = m
      BY <3>1 DEF Text, Size
    <3> HIDE DEF e
    <3>6. 0 \in 0 .. m /\ m \in 0 .. m /\ 0 + 1 = 1
      BY <3>1
    <3>7. Joined(e, m) = Cat(Joined(e, 0), Part(w, 0 + 1, m))
      <4>1. \A i \in 0 + 1 .. m : e[i] = One(w[i])
        BY <3>3, <3>6
      <4>2. QED
        BY <3>4, <3>5, <3>6, <4>1, JoinedRun
    <3>8. Joined(e, 0) = <<>> /\ Joined(e, m) = FlattenSeq(e)
      BY <3>4, JoinedNone, JoinedAll
    <3>9. Cat(<<>>, Part(w, 1, m)) = w
      <4>1. SubSeq(w, 1, Len(w)) = w /\ <<>> \o w = w
        BY SubSeqFull, ConcatEmptySeq
      <4>2. QED
        BY <3>1, <4>1 DEF Cat, Part
    <3>10. QED
      BY <3>6, <3>7, <3>8, <3>9
  <2>6. QED
    BY <2>2, <2>4, <2>5
<1>2. IInv => OutputSound
  <2>1. SUFFICES ASSUME pc = "done", StartOfPage(output) PROVE OutputSound
    BY DEF IInv, OutputIsRead, OutputSound
  <2>2. PICK v \in {Page} \cup Edits :
          \E n \in 0 .. Len(v) :
            output = SubSeq(v, 1, n) /\ (edits = 0 => v = Page /\ n = Len(v))
    BY <2>1 DEF StartOfPage
  <2>3. PICK n \in 0 .. Len(v) :
          output = SubSeq(v, 1, n) /\ (edits = 0 => v = Page /\ n = Len(v))
    BY <2>2
  <2>4. {} \in SUBSET {i \in 1 .. n : v[i] \in Key}
    OBVIOUS
  <2>5. output \in Renderings(SubSeq(v, 1, n), {})
    BY <1>1, <2>3
  <2>6. QED
    BY <2>3, <2>4, <2>5 DEF OutputSound
<1>3. QED
  BY <1>2, Invariance, PTL

-----------------------------------------------------------------------------
(* A rendering ends. *)

\* More than the steps of a search of the page for one key: two for each match.
Turn == 2 * Len(html) + 3

ItemsLeft == IF item > Len(map) THEN 0 ELSE Len(map) + 1 - item

\* A bound on the steps left of a rendering that has measured its file.
WorkLeft ==
  CASE pc = "read"    -> Len(map) * (2 * size + 3) + 3
    [] pc = "yield"   -> ItemsLeft * Turn + 2
    [] pc = "search"  -> (ItemsLeft - 1) * Turn + 3 + 2 * Ahead
    [] pc = "replace" -> (ItemsLeft - 1) * Turn + 2 + 2 * Ahead
    [] pc = "finish"  -> 1
    [] OTHER          -> 0

LessLeft == WorkLeft \in Nat /\ WorkLeft' \in Nat /\ WorkLeft' < WorkLeft

\* The steps of the rendering bring its end nearer; nobody else's put it off.
Advances ==
  pc # "measure" =>
    /\ Rendering /\ Running' => LessLeft
    /\ WorkLeft' <= WorkLeft

LEMMA OneMatchLess ==
  ASSUME NEW w \in Nat, NEW a \in Nat, NEW c \in Int, c < a
  PROVE  w + 3 + 2 * c < w + 2 + 2 * a
OBVIOUS

LEMMA OneTurnLess ==
  ASSUME NEW w \in Nat, NEW b \in Nat, NEW a \in Nat, 2 * a + 1 < b
  PROVE  w + 3 + 2 * a < w + b + 2
OBVIOUS

\* What the measure is made of.
LEMMA Measured ==
  ASSUME IInv
  PROVE  /\ Len(html) \in Nat /\ size \in Nat /\ Len(map) \in Nat /\ item \in Nat
         /\ Turn \in Nat /\ Turn = 2 * Len(html) + 3 /\ ItemsLeft \in Nat
         /\ pc \in {"search", "replace"} => ItemsLeft >= 1
<1>1. /\ Len(html) \in Nat /\ size \in Nat /\ Len(map) \in Nat /\ item \in Nat
      /\ pc \in {"search", "replace"} => item \in 1 .. Len(map)
  BY DEF IInv, TypeOK, HandInv
<1>2. QED
  BY <1>1 DEF Turn, ItemsLeft

LEMMA WorkIsNatural == IInv => WorkLeft \in Nat
<1> SUFFICES ASSUME IInv PROVE WorkLeft \in Nat
  OBVIOUS
<1>1. PICK b \in Nat : b = Turn
  BY Measured
<1>2. CASE pc = "read"
  <2>1. PICK m \in Nat, s \in Nat : m = Len(map) /\ s = 2 * size + 3
    BY Measured
  <2>2. WorkLeft = m * s + 3
    BY <1>2, <2>1 DEF WorkLeft
  <2>3. m * s \in Nat
    OBVIOUS
  <2>4. QED
    BY <2>2, <2>3
<1>3. CASE pc = "yield"
  <2>1. PICK m \in Nat : m = ItemsLeft
    BY Measured
  <2>2. WorkLeft = m * b + 2 /\ m * b \in Nat
    BY <1>1, <1>3, <2>1 DEF WorkLeft
  <2>3. QED
    BY <2>2
<1>4. CASE pc \in {"search", "replace"}
  <2>1. PICK m \in Nat : m = ItemsLeft - 1
    BY <1>4, Measured
  <2>2. PICK a \in Nat : a = Ahead
    BY <1>4, Measured DEF IInv, SearchInv
  <2>3. m * b \in Nat
    OBVIOUS
  <2>4. WorkLeft = m * b + 3 + 2 * a \/ WorkLeft = m * b + 2 + 2 * a
    BY <1>1, <1>4, <2>1, <2>2 DEF WorkLeft
  <2>5. QED
    BY <2>3, <2>4
<1>5. CASE pc \notin {"read", "yield", "search", "replace"}
  BY <1>5 DEF WorkLeft
<1>6. QED
  BY <1>2, <1>3, <1>4, <1>5

\* The first yield of the map is after the page is read.
LEMMA ReadLess ==
  ASSUME IInv, IInv', Read PROVE WorkLeft' < WorkLeft
<1>1. pc = "read" /\ pc' = "yield" /\ item' = 1 /\ UNCHANGED <<map, size>>
  BY DEF Read, FirstItem, caller
<1>2. PICK m \in Nat, s \in Nat : m = Len(map) /\ s = size
  BY Measured
<1>3. PICK l \in Nat : l = Len(html') /\ l <= s
  BY <1>1, <1>2 DEF IInv, TypeOK, PageFits
<1>4. ItemsLeft' = m
  BY <1>1, <1>2 DEF ItemsLeft
<1>5. Turn' = 2 * l + 3
  BY <1>3 DEF Turn
<1>6. WorkLeft = m * (2 * s + 3) + 3
  BY <1>1, <1>2 DEF WorkLeft
<1>7. WorkLeft' = m * (2 * l + 3) + 2
  BY <1>1, <1>4, <1>5 DEF WorkLeft
<1>8. PICK c \in Nat : s = l + c
  BY <1>3
<1>9. m * (2 * s + 3) = m * (2 * l + 3) + 2 * (m * c)
  BY <1>8
<1>10. m * c \in Nat /\ m * (2 * l + 3) \in Int
  OBVIOUS
<1>11. QED
  BY <1>6, <1>7, <1>9, <1>10

\* An item is left behind by a failed regcomp, taken up by a search, or by its end.
LEMMA YieldLess ==
  ASSUME IInv, IInv', YieldItem PROVE WorkLeft' < WorkLeft
<1>1. pc = "yield" /\ UNCHANGED <<map, html>>
  BY DEF YieldItem, caller, reading
<1>2. PICK b \in Nat : b = Turn /\ b = 2 * Len(html) + 3 /\ Turn' = b
  BY <1>1, Measured DEF Turn
<1>3. PICK n \in Nat, i \in Nat : n = Len(map) /\ i = item
  BY Measured
<1>4. CASE i > n
  <2>1. pc' = "finish"
    BY <1>3, <1>4 DEF YieldItem
  <2>2. WorkLeft' = 1
    BY <2>1 DEF WorkLeft
  <2>3. ItemsLeft = 0
    BY <1>3, <1>4 DEF ItemsLeft
  <2>4. WorkLeft = 0 * b + 2
    BY <1>1, <1>2, <2>3 DEF WorkLeft
  <2>5. QED
    BY <2>2, <2>4
<1>5. CASE ~(i > n)
  <2>1. PICK m \in Nat : m = n - i
    BY <1>5
  <2>2. ItemsLeft = m + 1
    BY <1>3, <1>5, <2>1 DEF ItemsLeft
  <2>3. (m + 1) * b = m * b + b /\ m * b \in Nat
    OBVIOUS
  <2>4. WorkLeft = m * b + b + 2
    BY <1>1, <1>2, <2>2, <2>3 DEF WorkLeft
  <2>5. CASE item' = item + 1 /\ pc' = pc
    <3>1. ItemsLeft' = m
      BY <1>1, <1>3, <1>5, <2>1, <2>5 DEF ItemsLeft
    <3>2. WorkLeft' = m * b + 2
      BY <1>1, <1>2, <2>5, <3>1 DEF WorkLeft
    <3>3. QED
      BY <1>2, <2>3, <2>4, <3>2, Measured
  <2>6. CASE pc' = "search" /\ item' = item
    <3>1. PICK a \in Nat : a = Ahead' /\ a <= Len(html)
      <4>1. Len(html) \in Nat /\ html' = html
        BY <1>1, Measured
      <4>2. Ahead' \in 0 .. Len(html)
        BY <2>6, <4>1 DEF IInv, SearchInv
      <4>3. QED
        BY <4>1, <4>2
    <3>2. ItemsLeft' = m + 1
      BY <1>1, <2>2, <2>6 DEF ItemsLeft
    <3>3. WorkLeft' = ((m + 1) - 1) * b + 3 + 2 * a
      BY <1>2, <2>6, <3>1, <3>2 DEF WorkLeft
    <3>4. (m + 1) - 1 = m
      OBVIOUS
    <3>5. WorkLeft' = m * b + 3 + 2 * a
      BY <3>3, <3>4
    <3>6. 2 * a + 1 < b
      BY <1>2, <3>1, Measured
    <3>7. PICK w \in Nat : w = m * b
      OBVIOUS
    <3>8. w + 3 + 2 * a < w + b + 2
      BY <3>1, <3>6, OneTurnLess
    <3>9. QED
      BY <2>4, <3>5, <3>7, <3>8
  <2>7. QED
    BY <1>3, <1>5, <2>5, <2>6 DEF YieldItem
<1>6. QED
  BY <1>4, <1>5

\* A search ends, or has found a match to replace.
LEMMA SearchLess ==
  ASSUME IInv, Search, Running, Running' PROVE WorkLeft' < WorkLeft
<1>1. pc = "search" /\ UNCHANGED <<map, html>>
  BY DEF Search, caller, reading
<1>2. PICK b \in Nat : b = Turn /\ Turn' = b
  BY <1>1, Measured DEF Turn
<1>3. PICK m \in Nat : m = ItemsLeft - 1 /\ ItemsLeft = m + 1
  BY <1>1, Measured
<1>4. PICK a \in Nat : a = Ahead
  BY <1>1, Measured DEF IInv, SearchInv
<1>5. WorkLeft = m * b + 3 + 2 * a /\ m * b \in Nat
  BY <1>1, <1>2, <1>3, <1>4 DEF WorkLeft
<1>6. CASE Return
  <2>1. item' = item + 1 /\ pc' = "yield"
    BY <1>6 DEF Return
  <2>2. ItemsLeft' = m
    <3>1. PICK i \in Nat, l \in Nat : i = item /\ l = Len(map)
      BY Measured
    <3>2. ItemsLeft = (IF i > l THEN 0 ELSE l + 1 - i)
      BY <3>1 DEF ItemsLeft
    <3>3. ItemsLeft' = (IF i + 1 > l THEN 0 ELSE l + 1 - (i + 1))
      BY <1>1, <2>1, <3>1 DEF ItemsLeft
    <3>4. QED
      BY <1>3, <3>2, <3>3
  <2>3. WorkLeft' = m * b + 2
    BY <1>2, <2>1, <2>2 DEF WorkLeft
  <2>4. QED
    BY <1>5, <2>3
<1>7. CASE pc' = "replace" /\ UNCHANGED <<item, len, offset>>
  <2>1. Ahead' = a /\ ItemsLeft' = m + 1
    BY <1>1, <1>3, <1>4, <1>7 DEF Ahead, ItemsLeft
  <2>2. WorkLeft' = ((m + 1) - 1) * b + 2 + 2 * a
    BY <1>2, <1>7, <2>1 DEF WorkLeft
  <2>3. (m + 1) - 1 = m
    OBVIOUS
  <2>4. QED
    BY <1>5, <2>2, <2>3
<1>8. QED
  BY <1>6, <1>7 DEF Search, Running

\* The search goes on behind the replacement, whatever that holds.
LEMMA ReplaceLess ==
  ASSUME IInv, Replace PROVE WorkLeft' < WorkLeft
<1>1. pc = "replace" /\ pc' = "search" /\ UNCHANGED <<map, item, html>>
  BY DEF Replace, caller
<1>2. PICK b \in Nat : b = Turn /\ Turn' = b
  BY <1>1, Measured DEF Turn
<1>3. PICK m \in Nat : m = ItemsLeft - 1 /\ m = ItemsLeft' - 1
  BY <1>1, Measured DEF ItemsLeft
<1>4. PICK a \in Nat : a = Ahead
  BY <1>1, Measured DEF IInv, SearchInv
<1>5. PICK c \in Int : c = Ahead' /\ c < a
  BY <1>4, Replaces
<1>6. PICK w \in Nat : w = m * b
  OBVIOUS
<1>7. WorkLeft = w + 2 + 2 * a
  BY <1>1, <1>2, <1>3, <1>4, <1>6 DEF WorkLeft
<1>8. WorkLeft' = w + 3 + 2 * c
  BY <1>1, <1>2, <1>3, <1>5, <1>6 DEF WorkLeft
<1>9. w + 3 + 2 * c < w + 2 + 2 * a
  BY <1>5, OneMatchLess
<1>10. QED
  BY <1>7, <1>8, <1>9

\* Nothing that the measure reads has changed.
LEMMA Unmoved ==
  ASSUME UNCHANGED <<pc, map, item, size, html, len, offset>>
  PROVE  WorkLeft' = WorkLeft
BY DEF WorkLeft, Turn, ItemsLeft, Ahead

LEMMA StepAdvances ==
  ASSUME IInv, IInv', WorkLeft \in Nat, WorkLeft' \in Nat, Next
  PROVE  Advances
<1>1. WorkLeft \in Nat /\ WorkLeft' \in Nat
  OBVIOUS
<1>2. ASSUME Rendering, Running', pc # "measure" PROVE WorkLeft' < WorkLeft
  <2>1. CASE Finish
    <3>1. pc = "finish" /\ pc' = "done"
      BY <1>2, <2>1 DEF Finish, Running
    <3>2. QED
      BY <3>1 DEF WorkLeft
  <2>2. CASE Read \/ YieldItem
    BY <2>2, ReadLess, YieldLess
  <2>3. CASE Search \/ Replace
    BY <1>2, <2>3, SearchLess, ReplaceLess DEF Search, Replace
  <2>4. QED
    BY <1>2, <2>1, <2>2, <2>3 DEF Rendering, Measure
<1>3. ASSUME Rendering, ~Running', pc # "measure" PROVE WorkLeft' <= WorkLeft
  <2>1. CASE Search
    <3>1. UNCHANGED <<pc, map, item, size, html, len, offset>>
      BY <1>3, <2>1 DEF Search, Running, caller, reading, regex
    <3>2. QED
      BY <1>1, <3>1, Unmoved
  <2>r. CASE Replace
    BY <1>1, <2>r, ReplaceLess
  <2>2. CASE Finish
    <3>1. UNCHANGED <<pc, map, item, size, html, len, offset>>
      BY <1>3, <2>2 DEF Finish, Running, caller, regex
    <3>2. QED
      BY <1>1, <3>1, Unmoved
  <2>3. ~Read /\ ~YieldItem
    BY <1>3 DEF Read, YieldItem, Running
  <2>4. QED
    BY <1>3, <2>1, <2>r, <2>2, <2>3 DEF Rendering, Measure
<1>4. CASE Edit \/ Terminated
  <2>1. UNCHANGED <<pc, map, item, size, html, len, offset>>
    BY <1>4 DEF Edit, Terminated, vars, caller, reading, regex
  <2>2. QED
    BY <1>1, <1>2, <1>3, <2>1, Unmoved DEF Advances, LessLeft
<1>5. ASSUME NEW m \in Maps, load_html_template(m) PROVE WorkLeft' = 0
  BY <1>5 DEF load_html_template, WorkLeft
<1>6. QED
  BY <1>1, <1>2, <1>3, <1>4, <1>5 DEF Advances, LessLeft, Next

\* Every step of a rendering that has measured its file brings its end nearer, and
\* nobody else's step puts it off: a page of n pieces and a map of m pairs take at most
\* m * (2 * n + 3) + 3 steps, whether the replacements hold keys or not (replace_regex).
THEOREM RenderingAdvances == Spec => [][Advances]_vars
<1> DEFINE Known == IInv /\ WorkLeft \in Nat
<1>1. Known /\ Known' /\ [Next]_vars => [Advances]_vars
  BY StepAdvances
<1>2. IInv => Known
  BY WorkIsNatural
<1> HIDE DEF Known
<1>3. QED
  BY Invariance, <1>1, <1>2, PTL DEF Spec

===============================================================================
