-------------------------------- MODULE Template --------------------------------
(***************************************************************************)
(* A route renders its page: load_html_template (server_piaabo.h) reads    *)
(* the file (file_piaabo.h) and calls replace_regex (util_piaabo.h) for    *)
(* each key of the map the route listed.  A page is a sequence of pieces,  *)
(* some of them the placeholder of a key.                                  *)
(*                                                                         *)
(* Renderings of several threads share the heap and the file: the module   *)
(* follows one, while the file may be edited (Edit).  replace_regex frees  *)
(* the copy it has just made and goes on reading it, which is undefined.   *)
(* From that moment on the copy reads as any text of its length: a search  *)
(* of it finds a match anywhere or none.  All else that may come of it, a  *)
(* text of another length or a crash among it, is the status "undefined",  *)
(* where the behaviour ends.                                               *)
(*                                                                         *)
(* A definition marked "Fault:" is a wrong version of the one below it.    *)
(***************************************************************************)
EXTENDS Integers, SequencesExt

CONSTANTS
  Key, Plain,    \* the pieces of a page: placeholders, and text
  Value,         \* the replacements
  Page,          \* the file at first
  Edits,         \* what it may be edited into
  MayFail,       \* which calls into the system may fail
  MapBound, EditBound, RenderBound

Piece == Key \cup Plain

ASSUME TemplateAssumption ==
  /\ Key \cap Plain = {}
  /\ Value \subseteq Seq(Piece) /\ Page \in Seq(Piece) /\ Edits \subseteq Seq(Piece)
  /\ MayFail \subseteq {"open", "realloc", "regcomp", "malloc"}
  /\ MapBound \in Nat /\ EditBound \in Nat /\ RenderBound \in Nat

VARIABLES
  status,          \* "running", "dead", or "undefined": freed memory was used
  file, edits,
  pc, renders,
  map, item,       \* the template_map, and the generator in it
  page, size,      \* html_contents: "none", "live" or "freed"; and its size
  html,            \* its text
  str, len,        \* replace_regex: str is the "page", or a copy that is "freed"
  offset, match,   \* where the search goes on, and the piece it has found
  output           \* buffer_output

world   == <<file, edits>>
caller  == <<renders, map>>
reading == <<page, size, html>>
regex   == <<str, len, offset, match>>
vars    == <<status, world, pc, caller, item, reading, regex, output>>

Running == status = "running"

\* The outcomes of a call that may fail.
Outcome(what) == {TRUE} \cup {FALSE : w \in MayFail \cap {what}}

\* Fault: the generator starts before the first item.
FirstItem_Before == 0

FirstItem == 1

Init ==
  /\ status = "running" /\ file = Page /\ edits = 0
  /\ pc = "idle" /\ renders = 0 /\ map = <<>> /\ item = FirstItem
  /\ page = "none" /\ size = 0 /\ html = <<>>
  /\ str = "page" /\ len = 0 /\ offset = 0 /\ match = 0
  /\ output = <<>>

-----------------------------------------------------------------------------
(* Someone edits the file. *)

Edit ==
  /\ Running /\ edits < EditBound /\ edits' = edits + 1
  /\ file' \in Edits
  /\ UNCHANGED <<status, pc, caller, item, reading, regex, output>>

-----------------------------------------------------------------------------
(* The call, and read_file: the size first, then the bytes. *)

\* The maps a route may list; the NULL of a route without one replaces nothing.
Maps == SeqOf([keyWord : Key, replaceBy : Value], MapBound)

\* load_html_template and read_text_file up to the opened file.  A file that cannot
\* be opened leaves html_contents NULL, which strlen or strcpy follows.
load_html_template(template_map) ==
  /\ Running /\ pc \in {"idle", "done"} /\ renders < RenderBound
  /\ map' = template_map /\ renders' = renders + 1 /\ pc' = "measure"
  /\ \E ok \in Outcome("open") : status' = IF ok THEN status ELSE "dead"
  /\ UNCHANGED <<world, item, reading, regex, output>>

Measure ==
  /\ Running /\ pc = "measure"
  /\ \E ok \in Outcome("realloc") :
       IF ok THEN /\ page' = "live" /\ size' = Len(file) /\ html' = <<>>
                  /\ pc' = "read" /\ UNCHANGED status
             ELSE status' = "dead" /\ UNCHANGED <<page, size, html, pc>>
  /\ UNCHANGED <<world, caller, item, regex, output>>

\* Fault: the file is not rewound, so nothing is left to read.
Fread_NoRewind(contents, room) == SubSeq(contents, room + 1, Len(contents))

\* Fault: the file is read to its end.
Fread_ToEnd(contents, room) == contents

\* fread into a buffer of zeroes with room for the terminator.
Fread(contents, room) ==
  SubSeq(contents, 1, IF room < Len(contents) THEN room ELSE Len(contents))

Read ==
  /\ Running /\ pc = "read"
  /\ html' = Fread(file, size)
  /\ item' = FirstItem /\ pc' = "yield"
  /\ UNCHANGED <<status, world, caller, page, size, regex, output>>

-----------------------------------------------------------------------------
(* One item of the map after the other; replace_regex for each. *)

\* The next call of queue_yield; the failure of regcomp is not looked at.
YieldItem ==
  /\ Running /\ pc = "yield"
  /\ IF item > Len(map)
       THEN pc' = "finish" /\ UNCHANGED <<item, regex>>
       ELSE \E ok \in Outcome("regcomp") :
              IF ok THEN /\ str' = "page" /\ len' = Len(html) /\ offset' = 0
                         /\ pc' = "search" /\ UNCHANGED <<item, match>>
                    ELSE item' = item + 1 /\ UNCHANGED <<pc, regex>>
  /\ UNCHANGED <<status, world, caller, reading, output>>

\* Where regexec may find the key at or after offset: in the page at its first place, in
\* freed memory anywhere.
Matches ==
  IF str = "page"
    THEN {i \in 1 .. len : /\ html[i] = map[item].keyWord
                           /\ \A j \in 1 .. i - 1 : html[j] # map[item].keyWord}
    ELSE offset + 1 .. len

\* replace_regex returns to the loop of load_html_template, and its variables go.
Return ==
  /\ item' = item + 1 /\ pc' = "yield"
  /\ str' = "page" /\ len' = 0 /\ offset' = 0 /\ match' = 0

\* regexec, and malloc for the new string if there is a match.
Search ==
  /\ Running /\ pc = "search"
  /\ \/ /\ match' \in Matches /\ pc' = "replace"
        /\ UNCHANGED <<status, item, str, len, offset>>
     \/ /\ Matches = {} \/ str = "freed" \/ FALSE \in Outcome("malloc")
        /\ Return /\ UNCHANGED status
     \/ /\ str = "freed" /\ status' = "undefined"
        /\ UNCHANGED <<item, pc, regex>>
  /\ UNCHANGED <<world, caller, reading, output>>

\* Fault: the string that was searched is freed, the caller's page if need be.
FreeString_Old == str' = "freed" /\ page' = IF str = "page" THEN "freed" ELSE page

\* The string freed is the new one, which str already points to.
FreeString == str' = "freed" /\ UNCHANGED page

\* Fault: the search goes on inside the replacement.
NextOffset_AtStart(start, replacement) == start - 1

\* Fault: the match is counted although it is gone.
NextOffset_Past(start, replacement) == start + Len(replacement)

\* The search goes on after the replacement.
NextOffset(start, replacement) == start - 1 + Len(replacement)

\* The new string is the old one around the match, with the replacement in between:
\* strncpy reads str a second time.
Replace ==
  /\ Running /\ pc = "replace"
  /\ len' = len - 1 + Len(map[item].replaceBy)
  /\ offset' = NextOffset(match, map[item].replaceBy)
  /\ FreeString
  /\ match' = 0 /\ pc' = "search"
  /\ status' \in {status} \cup {"undefined" : w \in {str} \cap {"freed"}}
  /\ UNCHANGED <<world, caller, item, size, html, output>>

\* The page is copied to the caller's buffer and freed.
Finish ==
  /\ Running /\ pc = "finish"
  /\ IF page = "freed"
       THEN status' = "undefined" /\ UNCHANGED <<pc, page, output>>
       ELSE output' = html /\ page' = "none" /\ pc' = "done" /\ UNCHANGED status
  /\ UNCHANGED <<world, caller, item, size, html, regex>>

-----------------------------------------------------------------------------

Rendering == Measure \/ Read \/ YieldItem \/ Search \/ Replace \/ Finish

Terminated ==
  /\ Running => pc \in {"idle", "done"} /\ renders = RenderBound
  /\ UNCHANGED vars

Next ==
  \/ Rendering \/ Edit \/ Terminated
  \/ \E template_map \in Maps : load_html_template(template_map)

\* The thread of the route runs.
Spec == Init /\ [][Next]_vars /\ WF_vars(Rendering)

-----------------------------------------------------------------------------
(* Properties. *)

TypeOK ==
  /\ status \in {"running", "dead", "undefined"}
  /\ file \in Seq(Piece) /\ edits \in 0 .. EditBound
  /\ pc \in {"idle", "measure", "read", "yield", "search", "replace", "finish", "done"}
  /\ renders \in 0 .. RenderBound
  /\ map \in Seq([keyWord : Key, replaceBy : Value]) /\ item \in Nat \ {0}
  /\ page \in {"none", "live", "freed"} /\ size \in Nat /\ html \in Seq(Piece)
  /\ str \in {"page", "freed"} /\ len \in Nat /\ offset \in Nat /\ match \in Nat
  /\ output \in Seq(Piece)

\* v with the pieces of S, if they are keys, replaced by a value of theirs.
Renderings(v, S) ==
  {FlattenSeq([i \in DOMAIN v |-> IF i \in S THEN f[i] ELSE <<v[i]>>]) :
     f \in [S -> Value]}

\* What the caller gets is the page, whole if nobody edits the file, with keys
\* replaced or not; never the text of another block and never a part that was not
\* read (load_html_template, read_file).
OutputSound ==
  pc = "done" =>
    \E v \in {Page} \cup Edits : \E n \in 0 .. Len(v) :
      /\ edits = 0 => v = Page /\ n = Len(v)
      /\ \E S \in SUBSET {i \in 1 .. n : v[i] \in Key} :
           output \in Renderings(SubSeq(v, 1, n), S)

\* What is read fits in the buffer, whatever becomes of the file after it was
\* measured (read_file).
PageFits == Len(html) <= size

\* The page is the caller's: it lives from its allocation to the end of
\* load_html_template, and no call of replace_regex frees it, whatever it makes of its
\* copies.
PageHeld == page = "live" <=> pc \in {"read", "yield", "search", "replace", "finish"}

\* Whatever the freed copy reads as, regexec is never sent behind the end of the string
\* it is to search, and the rest that is copied behind a match (len - end) is never less
\* than nothing (replace_regex: offset, len and new_len are of type size_t).
SearchInside == pc = "search" => offset <= len

\* A rendering ends, though a replacement may hold its own key and the freed copy one
\* match after the other.
RendersEnd == pc = "measure" ~> pc = "done" \/ ~Running

\* load_html_template "uses regex to replace the template values {{KEY}}=>Value".
RendersTemplate ==
  pc = "done" =>
    \A i \in DOMAIN output, j \in DOMAIN map : output[i] # map[j].keyWord

================================================================================
