------------------------------ MODULE TextCalls ------------------------------
(***************************************************************************)
(* The calls the loop reads out of the text of a reply                     *)
(* (internal/loop/text_parser.go, parseAndInterceptToolCalls): four        *)
(* notations, tried one after the other.                                   *)
(*                                                                         *)
(* A reply is a sequence of segments, each what one of the parsers finds:  *)
(*   marker  the word /tool_code                                           *)
(*   exec    tool.execute(...)                                             *)
(*   direct  tool(...)                                                     *)
(*   json    an object that names a tool                                   *)
(*   block   a fenced block, with the file the lines around it name        *)
(*   prose   anything else, with the file it mentions                      *)
(* The arguments in parentheses are keywords, positional or unreadable.    *)
(***************************************************************************)
EXTENDS Naturals, Sequences, SequencesExt, FiniteSetsExt

CONSTANTS Tool,     \* registered tools
          Unknown,  \* a name no tool is registered under
          WriteFile, \* the tool a block is written with
          File,     \* files a block may be of
          NoFile,
          MaxSegments, \* bound: segments of a reply
          MaxNative    \* bound: calls the provider itself returned

Args == {"keywords", "positional", "unreadable"}
Segment == [kind : {"marker"}]
           \cup [kind : {"exec", "direct"}, tool : Tool \cup {Unknown}, args : Args]
           \cup [kind : {"json"}, tool : Tool \cup {Unknown}]
           \cup [kind : {"block", "prose"}, file : File \cup {NoFile}]

VARIABLES reply,  \* the segments of the text
          native, \* tool calls of the provider's answer
          calls,  \* msg.ToolCalls, as <<tool, segment>>; segment 0: native
          via,    \* the notation that was read, or none
          pc      \* asked, parsed

vars == <<reply, native, calls, via, pc>>

Init == /\ reply \in UNION {[1..n -> Segment] : n \in 1..MaxSegments}
        /\ native \in UNION {[1..n -> Tool] : n \in 0..MaxNative}
        /\ calls = <<>> /\ via = "none" /\ pc = "asked"

-----------------------------------------------------------------------------
Call(tool, k) == <<tool, k>>

(* The calls read at some places of a text, in the order of the text.       *)
InOrder(tool) ==
    FlattenSeq([k \in DOMAIN reply |->
                   IF k \in DOMAIN tool THEN <<Call(tool[k], k)>> ELSE <<>>])

(* Everything executed after the first marker is a call, whatever it names; *)
(* positional arguments are dropped.                                       *)
ToolCode ==
    LET marked(k) == \E m \in 1..(k-1) : reply[m].kind = "marker"
        read == {k \in DOMAIN reply : /\ reply[k].kind = "exec" /\ marked(k)
                                      /\ reply[k].args # "unreadable"}
    IN InOrder([k \in read |-> reply[k].tool])

(* Deviation: the arguments of a direct call are not looked at.             *)
DirectOfAny(tool) ==
    InOrder([k \in {j \in DOMAIN reply : reply[j].kind = "direct" /\ reply[j].tool = tool}
               |-> tool])

(* The registered tools are looked for one by one, in the order the map     *)
(* gives them: each tool's calls are in the order of the text.             *)
DirectOf(tool) ==
    LET read == {k \in DOMAIN reply : /\ reply[k].kind = "direct" /\ reply[k].tool = tool
                                      /\ reply[k].args = "keywords"}
    IN InOrder([k \in read |-> tool])
Direct == {FlattenSeq([n \in DOMAIN order |-> DirectOf(order[n])]) :
              order \in SetToSeqs(Tool)}

JsonStructured ==
    LET read == {k \in DOMAIN reply : reply[k].kind = "json" /\ reply[k].tool \in Tool}
    IN InOrder([k \in read |-> reply[k].tool])

(* A block becomes a file when the line before it, one of its first lines   *)
(* or, with a single candidate, the whole text names one.                  *)
FileOf(k) ==
    LET named == {reply[j].file : j \in {x \in DOMAIN reply :
                     reply[x].kind \in {"block", "prose"} /\ reply[x].file # NoFile}}
    IN IF reply[k].file # NoFile THEN reply[k].file
       ELSE IF named = {} THEN NoFile
       ELSE IF \A f, g \in named : f = g THEN CHOOSE f \in named : TRUE ELSE NoFile

Markdown ==
    LET read == {k \in DOMAIN reply : reply[k].kind = "block" /\ FileOf(k) # NoFile}
    IN InOrder([k \in read |-> WriteFile])

(* A notation is tried when there is no call yet, but /tool_code always.    *)
Found(own) ==
    LET base == own \o ToolCode
    IN IF base # <<>> THEN {<<base, IF ToolCode = <<>> THEN "none" ELSE "toolcode">>}
       ELSE IF \E d \in Direct : d # <<>> THEN {<<d, "direct">> : d \in Direct}
       ELSE IF JsonStructured # <<>> THEN {<<JsonStructured, "json">>}
       ELSE IF Markdown # <<>> THEN {<<Markdown, "markdown">>}
       ELSE {<<(<<>>), "none">>}

parseAndInterceptToolCalls ==
    /\ pc = "asked" /\ pc' = "parsed"
    /\ \E found \in Found([n \in DOMAIN native |-> Call(native[n], 0)]) :
          calls' = found[1] /\ via' = found[2]
    /\ UNCHANGED <<reply, native>>

Next == parseAndInterceptToolCalls

Spec == Init /\ [][Next]_vars

-----------------------------------------------------------------------------
(* Every variable of the parser has its type.                               *)
TypeOK ==
    /\ pc \in {"asked", "parsed"}
    /\ via \in {"none", "toolcode", "direct", "json", "markdown"}
    /\ \A n \in DOMAIN calls : calls[n][2] \in 0..Len(reply)

(* The calls that were read out of the text.                                *)
Textual == {n \in DOMAIN calls : calls[n][2] # 0}

(* One place of a text becomes one call at most, and the calls of one text  *)
(* are all of one notation; native calls are kept, in front.               *)
OneNotation ==
    pc = "parsed" =>
        /\ \A m, n \in Textual : m # n => calls[m][2] # calls[n][2]
        /\ \A m, n \in Textual : reply[calls[m][2]].kind = reply[calls[n][2]].kind
        /\ DOMAIN calls \ Textual = DOMAIN native
        /\ \A n \in DOMAIN native : calls[n] = Call(native[n], 0)

(* The calls run in the order in which the text has them, but those written *)
(* as plain functions do so only tool by tool.                             *)
TextOrder ==
    pc = "parsed" =>
        \A m, n \in Textual :
            m < n /\ (via = "direct" => calls[m][1] = calls[n][1])
                => calls[m][2] < calls[n][2]

(* Only /tool_code, which asks nobody, calls a tool that is not registered, *)
(* and only it calls one with arguments it could not read by name.         *)
StrangersByToolCodeOnly ==
    via # "toolcode" =>
        \A n \in Textual :
            /\ calls[n][1] \in Tool \cup {WriteFile}
            /\ reply[calls[n][2]].kind = "direct" => reply[calls[n][2]].args = "keywords"

(* What is read out of a text is sound.                                     *)
TextCallsSound == TypeOK /\ OneNotation /\ TextOrder /\ StrangersByToolCodeOnly
=============================================================================
