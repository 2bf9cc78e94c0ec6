----------------------------- MODULE AgentRules -----------------------------
(***************************************************************************)
(* What an agent may do: the capabilities and scopes of                    *)
(* agents/capabilities.rs, the command patterns of agents/skill.rs, the    *)
(* command lines of agents/tool.rs and the mounts of agents/sandbox.rs.    *)
(*                                                                         *)
(* Commands, patterns, scopes and URLs are sequences of letters, "*", "/", *)
(* " ", "{" and "}" among them; a path is a sequence of components.  A     *)
(* capability is a tagged tuple:                                           *)
(*   sql         none read_only read_write                                 *)
(*   http        none any <<"list", parts of URLs>>                        *)
(*   filesystem  none <<"read_only", paths>> <<"read_write", paths>>       *)
(*   tools, agents   none all <<"list", names>>                            *)
(***************************************************************************)
EXTENDS Naturals, Sequences, FiniteSetsExt, SequencesExt

Error == <<"error">>

-----------------------------------------------------------------------------
(* Capabilities and how skill.toml and agent.toml spell them.  A text is   *)
(* <<"str", s>>, <<"num">>, <<"arr", items>> or <<"obj", key, items>>.     *)

Words(kind) ==
  CASE kind = "sql" -> {"none", "read_only", "read_write"}
    [] kind = "http" -> {"none", "any"}
    [] kind = "filesystem" -> {"none"}
    [] OTHER -> {"none", "all"}

Written(c) ==
  CASE c[1] = "list" -> <<"arr", [i \in DOMAIN c[2] |-> <<"str", c[2][i]>>]>>
    [] c[1] \in {"read_only", "read_write"} /\ Len(c) = 2 ->
         <<"obj", c[1], [i \in DOMAIN c[2] |-> <<"str", c[2][i]>>]>>
    [] OTHER -> <<"str", c[1]>>

\* What is not a string is read as the empty one.
Texts(items) == [i \in DOMAIN items |-> IF items[i][1] = "str" THEN items[i][2] ELSE << >>]

ReadCapability(kind, json) ==
  CASE json[1] = "str" /\ json[2] \in Words(kind) -> <<json[2]>>
    [] json[1] = "arr" /\ kind \in {"http", "tools", "agents"} -> <<"list", Texts(json[2])>>
    [] json[1] = "obj" /\ kind = "filesystem" /\ json[2] \in {"read_only", "read_write"} ->
         <<json[2], Texts(json[3])>>
    [] OTHER -> Error

Default == [sql |-> <<"read_write">>, http |-> <<"any">>, filesystem |-> <<"none">>,
            tools |-> <<"all">>, agents |-> <<"all">>]

Occurrences(s, part) == {i \in 1..(Len(s) + 1) : i + Len(part) - 1 <= Len(s)
                                                   /\ SubSeq(s, i, i + Len(part) - 1) = part}

CheckSql(cap, write) == cap = <<"read_write">> \/ (cap = <<"read_only">> /\ ~write)
CheckHttp(cap, url) ==
  \/ cap = <<"any">>
  \/ cap[1] = "list" /\ \E i \in DOMAIN cap[2] : Occurrences(url, cap[2][i]) # {}
CheckName(cap, name) ==
  cap = <<"all">> \/ (cap[1] = "list" /\ \E i \in DOMAIN cap[2] : cap[2][i] = name)
CheckFilesystem(cap, path, write) ==
  /\ cap[1] = "read_write" \/ (cap[1] = "read_only" /\ ~write)
  /\ \E i \in DOMAIN cap[2] : IsPrefix(cap[2][i], path)

-----------------------------------------------------------------------------
(* Scopes. *)

Everywhere(pattern) == pattern \in {<< >>, <<"*">>}

ScopeMatches(pattern, target) ==
  \/ Everywhere(pattern)
  \/ IF IsSuffix(<<"/", "*">>, pattern)
       THEN LET prefix == SubSeq(pattern, 1, Len(pattern) - 2)
            IN target = prefix \/ IsPrefix(prefix \o <<"/">>, target)
     ELSE target = pattern

\* Agents without a scope have the empty one.
Visible(scopes, scope, name) ==
  scopes = << >> \/ \E i \in DOMAIN scopes : ScopeMatches(scopes[i], scope) \/ ScopeMatches(scopes[i], name)

CheckAgentScoped(cap, name, scope, scopes) == CheckName(cap, name) /\ Visible(scopes, scope, name)

-----------------------------------------------------------------------------
(* Command patterns of a skill. *)

Parts(s, sep) ==
  LET cuts == SelectSeq([i \in 1..(Len(s) + 1) |-> i], LAMBDA i : i > Len(s) \/ s[i] = sep)
  IN [n \in DOMAIN cuts |-> SubSeq(s, IF n = 1 THEN 1 ELSE cuts[n - 1] + 1, cuts[n] - 1)]

After(s, n) == SubSeq(s, n + 1, Len(s))

RECURSIVE GlobRest(_, _)
\* An empty part accepts whatever is left; another one is taken at its first place.
GlobRest(parts, rest) ==
  IF parts = << >> THEN rest = << >>
  ELSE LET here == Occurrences(rest, Head(parts))
       IN \/ Head(parts) = << >>
          \/ here # {} /\ GlobRest(Tail(parts), After(rest, Min(here) + Len(Head(parts)) - 1))

GlobMatches(pattern, value) ==
  LET parts == Parts(pattern, "*")
  IN IsPrefix(parts[1], value) /\ GlobRest(Tail(parts), After(value, Len(parts[1])))

CommandAllowed(permissions, command) ==
  /\ \A p \in permissions.deny : ~GlobMatches(p, command)
  /\ permissions.allow = {} \/ \E p \in permissions.allow : GlobMatches(p, command)

Executor(t) == IF t.wasm THEN "wasm" ELSE IF t.command # << >> THEN "cli" ELSE "noop"
Registered(t) == [name |-> t.name, executor |-> Executor(t), command |-> t.command]
Disallowed(skill, t) == t.command # << >> /\ ~CommandAllowed(skill, t.command[1])

\* Mutant: what has a placeholder is left to be checked when it is filled in.
RegisteredToolsLate(skill) ==
  IF \E t \in skill.tools : Disallowed(skill, t) /\ Occurrences(t.command[1], <<"{">>) = {} THEN Error
  ELSE <<"tools", {Registered(t) : t \in skill.tools}>>

\* into_registered_tools: one command that is not allowed, as it is declared, fails
\* the whole skill; a tool with a module of its own runs that.  A tool declares no
\* command, << >>, or one, <<command>>.
RegisteredTools(skill) ==
  IF \E t \in skill.tools : Disallowed(skill, t) THEN Error
  ELSE <<"tools", {Registered(t) : t \in skill.tools}>>

-----------------------------------------------------------------------------
(* The command line of a tool call. *)

SplitCommand(command) == SelectSeq(Parts(command, " "), LAMBDA word : word # << >>)

\* An argument is <<"null">>, <<"bool", b>> or <<"text", letters>>.
ArgText(v) ==
  CASE v[1] = "null" -> Error
    [] v[1] = "bool" -> IF v[2] THEN <<"true">> ELSE <<"false">>
    [] v[1] = "text" -> v[2]

\* A rendered token is one word of the command line, whatever it holds.
WordsOf(text) == <<text>>

RECURSIVE Render(_, _)
Render(token, args) ==
  LET open == Occurrences(token, <<"{">>)
      rest == After(token, Min(open))
      close == Occurrences(rest, <<"}">>)
      key == SubSeq(rest, 1, Min(close) - 1)
      more == Render(After(rest, Min(close)), args)
  IN IF open = {} THEN [ok |-> TRUE, text |-> token, used |-> {}]
     ELSE IF close = {} \/ key \notin DOMAIN args \/ args[key] = <<"null">> \/ ~more.ok
       THEN [ok |-> FALSE, text |-> << >>, used |-> {}]
     ELSE [ok |-> TRUE, used |-> more.used \cup {key},
           text |-> SubSeq(token, 1, Min(open) - 1) \o ArgText(args[key]) \o more.text]

\* The tokens of the command and of the template, then the other arguments as
\* flags; the program itself is not rendered.
CommandLine(command, template, args) ==
  LET words == SplitCommand(command)
      tokens == Tail(words) \o template
      done == [i \in DOMAIN tokens |-> Render(tokens[i], args)]
      others == SetToSeq(DOMAIN args \ UNION {done[i].used : i \in DOMAIN done})
      Flag(k) == <<"-", "-">> \o k
      FlagWords(k) ==
        CASE args[k] \in {<<"null">>, <<"bool", FALSE>>} -> << >>
          [] args[k] = <<"bool", TRUE>> -> <<Flag(k)>>
          [] OTHER -> <<Flag(k), ArgText(args[k])>>
  IN IF words = << >> \/ \E i \in DOMAIN done : ~done[i].ok THEN Error
     ELSE <<"argv", words[1],
            FlattenSeq([i \in DOMAIN done |-> WordsOf(done[i].text)])
              \o FlattenSeq([i \in DOMAIN others |-> FlagWords(others[i])])>>

\* What a call of a registered tool runs, if it runs a command: nothing checks the
\* line again once it is rendered.
ToolLine(tool, args) ==
  IF tool.executor = "cli" THEN CommandLine(tool.command[1], << >>, args) ELSE Error

\* A command line in the letters of the patterns.
Spelled(program, words) ==
  program \o FlattenSeq([i \in DOMAIN words |-> <<" ">> \o words[i]])

-----------------------------------------------------------------------------
(* The sandbox: how a command line is run, and what it sees of the host.   *)

Mount(mode, path) == [mode |-> mode, path |-> path]
SystemMounts(host) ==
  <<Mount("read", <<"usr">>), Mount("read", <<"bin">>), Mount("private", <<"tmp">>),
    Mount("private", <<"proc">>), Mount("private", <<"dev">>)>>
    \o SelectSeq(<<Mount("read", <<"lib">>), Mount("read", <<"lib64">>)>>,
                 LAMBDA m : m.path \in host)

BindMode(cap) == IF cap[1] = "read_write" THEN "write" ELSE "read"

Mounts(cap, host) ==
  SystemMounts(host) \o
    (IF cap[1] = "none" THEN << >>
     ELSE [i \in DOMAIN cap[2] |-> Mount(BindMode(cap), cap[2][i])])

\* execute_sandboxed_argv
HowToRun(config, bwrap) ==
  IF ~config.enabled THEN "plain"
  ELSE IF bwrap THEN "sandbox" ELSE IF config.fallback THEN "plain" ELSE "refuse"

NetworkShared(http) == http # <<"none">>

\* The last mount over a path is what is seen there.
Seen(mounts, path) ==
  LET over == {i \in DOMAIN mounts : IsPrefix(mounts[i].path, path)}
  IN IF over = {} THEN "nothing" ELSE mounts[Max(over)].mode

-----------------------------------------------------------------------------
(* What the rules are for. *)

\* A capability is read as it was written.
ReadAsWritten(kind, cap) == ReadCapability(kind, Written(cap)) = cap

\* `*' stands for any letters.
RECURSIVE Matches(_, _)
Matches(p, v) ==
  IF p = << >> THEN v = << >>
  ELSE IF Head(p) = "*" THEN Matches(Tail(p), v) \/ (v # << >> /\ Matches(p, Tail(v)))
  ELSE v # << >> /\ Head(v) = Head(p) /\ Matches(Tail(p), Tail(v))

\* Two stars in a row accept any end.
Doubled(p) == LET parts == Parts(p, "*") IN \E i \in 2..(Len(parts) - 1) : parts[i] = << >>
\* A last part that comes twice is found too early.
Repeated(p, v) == Cardinality(Occurrences(v, Last(Parts(p, "*")))) > 1

\* A pattern matches what it says, these exceptions apart.
GlobIsGlob(p, v) ==
  /\ GlobMatches(p, v) => Matches(p, v) \/ Doubled(p)
  /\ Matches(p, v) => GlobMatches(p, v) \/ Repeated(p, v)

\* What a scope covers, segment by segment.
Covers(p, t) ==
  LET ps == Parts(p, "/")
      ts == Parts(t, "/")
  IN \/ Everywhere(p)
     \/ IF Len(ps) > 1 /\ ps[Len(ps)] = <<"*">> THEN IsPrefix(Front(ps), ts) ELSE ps = ts

\* A scope sees what is below it and nothing beside it, whatever letters they
\* share, and an agent that looks from a scope reaches what it sees there, among
\* the agents it may call at all.
ScopeIsTree(p, t) ==
  /\ ScopeMatches(p, t) <=> Covers(p, t)
  /\ \A cap \in {<<"none">>, <<"all">>, <<"list", <<t>> >>} :
       CheckAgentScoped(cap, t, << >>, <<p>>) <=> cap # <<"none">> /\ (Covers(p, << >>) \/ Covers(p, t))

\* Who may write may read, below an allowed path all is allowed, "none" allows
\* nothing and the default everything but files; a tool of an agent that may reach
\* a URL has the network.
ChecksAreOrdered(kind, cap) ==
  LET Text == <<"a", "b">>
      Allows == CASE kind = "sql" -> CheckSql(cap, FALSE)
                  [] kind = "http" -> CheckHttp(cap, Text)
                  [] kind = "filesystem" -> CheckFilesystem(cap, Text, FALSE)
                  [] OTHER -> CheckName(cap, Text)
  IN /\ cap = <<"none">> => ~Allows
     /\ cap = Default[kind] => (Allows <=> kind # "filesystem")
     /\ kind = "sql" /\ CheckSql(cap, TRUE) => CheckSql(cap, FALSE)
     /\ kind = "http" /\ Allows => NetworkShared(cap)
     /\ kind = "filesystem" /\ cap[1] # "none" => \A i \in DOMAIN cap[2] :
          /\ CheckFilesystem(cap, Append(cap[2][i], "below"), FALSE)
          /\ CheckFilesystem(cap, cap[2][i], TRUE) <=> cap[1] = "read_write"

\* One space between its words and none around them.
EvenlySpaced(command) ==
  LET words == SplitCommand(command)
  IN words # << >> /\ Spelled(words[1], Tail(words)) = command

\* The text before the only star, at the end of a pattern.
IsOpenEnded(p) == p # << >> /\ Last(p) = "*" /\ Occurrences(Front(p), <<"*">>) = {}
Has(text, letter) == Occurrences(text, <<letter>>) # {}

\* Patterns are compared with the command as it is declared (skill.rs:211-222), and
\* what runs is that command filled in, with flags added (tool.rs:270-331).  Of an
\* evenly spaced command this is still sure, whatever the arguments: what runs with
\* nothing filled in or added obeys the patterns, but for what GlobIsGlob excepts;
\* a pattern that denies a program (no space, an open end) denies all that runs;
\* and when only texts without a placeholder, with an open end, are allowed, then
\* what runs begins with one of them.
SkillRunsAllowed(skill, args) ==
  LET loaded == RegisteredTools(skill)
  IN loaded # Error => \A t \in loaded[2] :
       LET line == ToolLine(t, args)
           ran == Spelled(line[2], line[3])
       IN /\ t.executor = "noop" => t.command = << >>
          /\ line # Error /\ EvenlySpaced(t.command[1]) =>
               /\ ran = t.command[1] =>
                    /\ \A p \in skill.deny : ~Matches(p, ran) \/ Repeated(p, ran)
                    /\ skill.allow = {} \/ \E p \in skill.allow : Matches(p, ran) \/ Doubled(p)
               /\ \A p \in skill.deny : IsOpenEnded(p) /\ ~Has(p, " ") => ~Matches(p, ran)
               /\ skill.allow # {} /\ (\A p \in skill.allow : IsOpenEnded(p) /\ ~Has(p, "{")) =>
                    \E p \in skill.allow : Matches(p, ran)

\* What runs is allowed by the patterns of the skill, as the code reads them.
RunsWhitelisted(skill, args) ==
  LET loaded == RegisteredTools(skill)
  IN loaded # Error => \A t \in loaded[2] :
       LET line == ToolLine(t, args)
       IN line # Error => CommandAllowed(skill, Spelled(line[2], line[3]))

\* A tool runs outside the sandbox only where the configuration lets it out.
SandboxIsKept(config, bwrap) ==
  HowToRun(config, bwrap) = "plain" => ~config.enabled \/ config.fallback

\* What runs has the words of the declared command, and an argument is never
\* more than one word of it.
ArgumentsStayWords(command, template, args) ==
  LET line == CommandLine(command, template, args)
      own == SplitCommand(command)
      flags == {k \in DOMAIN args : args[k][1] = "text" \/ args[k] = <<"bool", TRUE>>}
  IN line # Error =>
       /\ line[2] = own[1]
       /\ Len(line[3]) <= Len(own) - 1 + Len(template) + 2 * Cardinality(flags)
       /\ \A i \in DOMAIN own \ {1} : Occurrences(own[i], <<"{">>) = {} => line[3][i - 1] = own[i]
       /\ \A k \in DOMAIN args : args[k][1] = "text" =>
            \E i \in DOMAIN line[3] : Occurrences(line[3][i], args[k][2]) # {}

\* In the sandbox a tool sees of the host what check_filesystem lets its agent
\* see, and changes what it lets it change, the system directories apart.
SandboxAgrees(cap, host, path) ==
  LET seen == Seen(Mounts(cap, host), path)
      system == {SystemMounts(host)[i].path : i \in DOMAIN SystemMounts(host)}
      own == \E s \in system : IsPrefix(s, path)
  IN /\ seen = "write" <=> CheckFilesystem(cap, path, TRUE)
     /\ own \/ (seen \in {"read", "write"} <=> CheckFilesystem(cap, path, FALSE))
=============================================================================
