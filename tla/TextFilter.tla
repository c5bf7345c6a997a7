----------------------------- MODULE TextFilter -----------------------------
(***************************************************************************)
(* The word filter of the hall: backend/internal/textfilter and the        *)
(* settings it is compiled from (hall/filter_config.go).                   *)
(*                                                                         *)
(* A text is a sequence of runes, and a rune a member of a small alphabet  *)
(* of the kinds the code tells apart.  One rune stands for a whole top     *)
(* level domain, for "http://" and for a hint such as "qq"; the regular    *)
(* expressions are the sets of spans that match them, found leftmost and   *)
(* longest.  Hyphens, ports and "www" have no rune.                        *)
(***************************************************************************)
EXTENDS FiniteSetsExt, Naturals, SequencesExt

CONSTANTS
    Letters, Digits,   \* ASCII, in lower case
    OtherLetters,      \* the rest that counts as letters or digits
    Numerals,          \* runes read as a digit besides Digits
    Folds,             \* full-width and capital forms, to the plain ones
    Invisible,         \* zero-width runes
    Separators, Hints, TLDs,
    Scheme, Dot, DotWord, Space, At, Slash, Mask,
    Builtin,           \* builtinAd, builtinPorn, builtinGambling
    DefaultDomains,    \* defaultAllowDomains of the deployment
    MaxWordRunes, MaxWords, MaxDomains,
    LongRun, HintRun, AccountRun, HandleRun,  \* 9, 5, 5 and 5 in the code
    Inputs, Texts      \* bound: the settings and texts FilterIsExact looks at

Alnum == Letters \cup Digits

ASSUME TextFilterAssumption ==
    /\ TLDs \subseteq Letters /\ Hints \subseteq Letters \cup OtherLetters
    /\ Alnum \cap OtherLetters = {}
    /\ {MaxWordRunes, MaxWords, MaxDomains, LongRun, HintRun, AccountRun, HandleRun}
         \subseteq Nat \ {0}

AllCategories == {"ad", "link", "porn", "gambling", "contact"}

-----------------------------------------------------------------------------
(***************************************************************************)
(* Views of a text.                                                        *)
(***************************************************************************)
Fold(r) == IF r \in DOMAIN Folds THEN Folds[r] ELSE r

\* letters and digits, which the compact view keeps
compactRune(r) == Fold(r) \in Alnum \cup OtherLetters

Folded(t) == [i \in DOMAIN t |-> Fold(t[i])]

NormalizeWord(w) == Folded(SelectSeq(w, compactRune))

compactIdx(t) == SelectSeq([i \in DOMAIN t |-> i], LAMBDA i : compactRune(t[i]))

\* The link view has the text's length.  The word for a dot is a dot where it
\* stands, spaces aside, after a letter or digit and before a letter.
linkView(t) ==
    LET l == [i \in DOMAIN t |-> IF t[i] \in Invisible THEN Space ELSE Fold(t[i])]
        before(i) == {p \in 1..(i - 1) : l[p] # Space}
        after(i) == {p \in (i + 1)..Len(l) : l[p] # Space}
    IN [i \in DOMAIN l |->
          IF /\ l[i] = DotWord /\ before(i) # {} /\ after(i) # {}
             /\ l[Max(before(i))] \in Alnum /\ l[Min(after(i))] \in Letters
          THEN Dot ELSE l[i]]

isASCIIWord(w) == \A i \in DOMAIN w : w[i] \in Alnum

\* no ASCII letter or digit touches positions s to e of the compact view c
asciiBoundary(c, s, e) ==
    /\ s > 1 => c[s - 1] \notin Alnum
    /\ e < Len(c) => c[e + 1] \notin Alnum

-----------------------------------------------------------------------------
(***************************************************************************)
(* The automaton of Aho and Corasick.  A node is the prefix it stands for. *)
(***************************************************************************)
Goto(nodes, fail, q, r) ==
    LET walk[f \in nodes] ==
            IF f = <<>> \/ Append(f, r) \in nodes THEN f ELSE walk[fail[f]]
        next == Append(walk[q], r)
    IN IF next \in nodes THEN next ELSE <<>>

\* faulty: a node's output is only the word that ends there.
OwnWordsOnly(pats) ==
    LET nodes == {<<>>} \cup UNION {Prefixes(p.word) : p \in pats}
        fail[n \in nodes] ==
            IF Len(n) <= 1 THEN <<>>
            ELSE Goto(nodes, fail, fail[Front(n)], Last(n))
    IN [nodes |-> nodes, fail |-> fail, out |-> [n \in nodes |-> {p \in pats : p.word = n}]]

\* The output of a node has that of the node its failure leads to.
buildAutomaton(pats) ==
    LET nodes == {<<>>} \cup UNION {Prefixes(p.word) : p \in pats}
        fail[n \in nodes] ==
            IF Len(n) <= 1 THEN <<>>
            ELSE Goto(nodes, fail, fail[Front(n)], Last(n))
        out[n \in nodes] ==
            {p \in pats : p.word = n} \cup (IF n = <<>> THEN {} ELSE out[fail[n]])
    IN [nodes |-> nodes, fail |-> fail, out |-> out]

\* the patterns found in c, each with the position where it ends
scan(a, c) ==
    LET state[i \in 0..Len(c)] ==
            IF i = 0 THEN <<>> ELSE Goto(a.nodes, a.fail, state[i - 1], c[i])
    IN UNION {{<<p, e>> : p \in a.out[state[e]]} : e \in DOMAIN c}

\* the spans of the original text that words of an automaton take up
wordSpans(a, t) ==
    LET c == NormalizeWord(t)
        idx == compactIdx(t)
        start(f) == f[2] - Len(f[1].word) + 1
    IN {[cat |-> f[1].cat, s |-> idx[start(f)], e |-> idx[f[2]]] :
          f \in {g \in scan(a, c) :
                   isASCIIWord(g[1].word) => asciiBoundary(c, start(g), g[2])}}

-----------------------------------------------------------------------------
(***************************************************************************)
(* Links and contacts, on the link view l.                                 *)
(***************************************************************************)
spansOf(l) == {m \in (1..Len(l)) \X (1..Len(l)) : m[1] <= m[2]}

\* FindAllStringIndex: of all matches the leftmost, longest, without overlaps
FindAll(l, matches) ==
    LET n == Len(l)
        find[i \in 1..(n + 1)] ==
            IF i > n THEN {}
            ELSE LET ends == {e \in i..n : <<i, e>> \in matches}
                 IN IF ends = {} THEN find[i + 1]
                    ELSE {<<i, Max(ends)>>} \cup find[Max(ends) + 1]
    IN find[1]

\* labels with dots between them, a space allowed on each side of a dot
HostAt(l, s, e) ==
    LET label(i, j) == l[i] \in Alnum \/ (l[i] = Space /\ l[j] \in Alnum)
    IN /\ s < e /\ l[s] \in Alnum
       /\ l[e] \in TLDs /\ l[e - 1] \in {Dot, Space}
       /\ \A i \in (s + 1)..(e - 1) :
            \/ l[i] \in Alnum
            \/ l[i] = Dot /\ label(i - 1, i - 2) /\ label(i + 1, i + 2)
            \/ l[i] = Space /\ Dot \in {l[i - 1], l[i + 1]}

DomainAt(l, s, e) ==
    \E h \in s..e :
        /\ HostAt(l, s, h)
        /\ e > h => l[h + 1] = Slash /\ \A i \in (h + 2)..e : l[i] # Space

UrlAt(l, s, e) == l[s] = Scheme /\ e > s /\ \A i \in (s + 1)..e : l[i] # Space

\* what follows the first scheme, up to the path
withoutPath(u) ==
    LET schemes == {i \in DOMAIN u : u[i] = Scheme}
        rest == IF schemes = {} THEN u ELSE SubSeq(u, Min(schemes) + 1, Len(u))
        slashes == {i \in DOMAIN rest : rest[i] = Slash}
    IN IF slashes = {} THEN rest ELSE SubSeq(rest, 1, Min(slashes) - 1)

withoutDots(u) ==
    LET kept == {i \in DOMAIN u : u[i] # Dot}
    IN IF kept = {} THEN <<>> ELSE SubSeq(u, Min(kept), Max(kept))

hostOf(u) ==
    LET host == withoutPath(SelectSeq(u, LAMBDA r : r # Space))
        ats == {i \in DOMAIN host : host[i] = At}
    IN withoutDots(IF ats = {} THEN host ELSE SubSeq(host, Max(ats) + 1, Len(host)))

allowedHost(domains, host) ==
    host # <<>> /\ \E d \in domains : host = d \/ IsSuffix(<<Dot>> \o d, host)

linkHits(domains, l) ==
    LET foreign(m) == ~allowedHost(domains, hostOf(SubSeq(l, m[1], m[2])))
        urls == {m \in FindAll(l, {x \in spansOf(l) : UrlAt(l, x[1], x[2])}) : foreign(m)}
        hosts == {m \in FindAll(l, {x \in spansOf(l) : DomainAt(l, x[1], x[2])}) :
                    /\ ~\E u \in urls : u[1] <= m[1] /\ m[2] <= u[2]
                    /\ m[1] > 1 => l[m[1] - 1] \notin Alnum \cup {At, Dot}
                    /\ foreign(m)}
    IN {[cat |-> "link", s |-> m[1], e |-> m[2]] : m \in urls \cup hosts}

\* between a hint and what it announces
HintGap == 6

AccountAt(l, s, e) ==
    /\ l[s] \in Hints
    /\ \E a \in (s + 1)..(s + 1 + HintGap) :
         /\ \A i \in (s + 1)..(a - 1) : i <= Len(l) /\ l[i] = Space
         /\ e - a + 1 >= AccountRun /\ \A i \in a..e : l[i] \in Alnum

EmailAt(l, s, e) ==
    \E a \in (s + 1)..(e - 1) :
        /\ l[a] = At /\ \A i \in s..(a - 1) : l[i] \in Alnum \cup {Dot}
        /\ HostAt(l, a + 1, e) /\ \A i \in a..e : l[i] # Space

HandleAt(l, s, e) ==
    /\ l[s] = At /\ e - s >= HandleRun /\ l[s + 1] \in Letters
    /\ \A i \in (s + 2)..e : l[i] \in Alnum

digitValue(r) == Fold(r) \in Digits \cup Numerals
isDigitSeparator(r) == Fold(r) \in Separators

\* Digits with at most two separators between neighbours, from left to right
digitRuns(t) ==
    LET n == Len(t)
        after(i) == {k \in (i + 1)..(i + 3) :
                       /\ k <= n /\ digitValue(t[k])
                       /\ \A j \in (i + 1)..(k - 1) : isDigitSeparator(t[j])}
        end[i \in 1..n] == IF after(i) = {} THEN i ELSE end[Min(after(i))]
        find[i \in 1..(n + 1)] ==
            IF i > n THEN {}
            ELSE IF ~digitValue(t[i]) THEN find[i + 1]
            ELSE {<<i, end[i]>>} \cup find[end[i] + 1]
    IN find[1]

\* Many digits, or fewer after a hint
isContactRun(t, l, m) ==
    LET cnt == Cardinality({i \in m[1]..m[2] : digitValue(t[i])})
        hinted == \E h \in 1..(m[1] - 1) :
                     /\ l[h] \in Hints /\ m[1] - h <= 1 + HintGap
                     /\ \A i \in (h + 1)..(m[1] - 1) : l[i] = Space
    IN cnt >= LongRun \/ (cnt >= HintRun /\ hinted)

contactHits(t, l) ==
    LET free(m, runes) == m[1] > 1 => l[m[1] - 1] \notin runes
        accounts == {m \in FindAll(l, {x \in spansOf(l) : AccountAt(l, x[1], x[2])}) :
                       free(m, Alnum)}
        emails == FindAll(l, {x \in spansOf(l) : EmailAt(l, x[1], x[2])})
        handles == {m \in FindAll(l, {x \in spansOf(l) : HandleAt(l, x[1], x[2])}) :
                      free(m, Alnum \cup {Dot})}
        runs == {m \in digitRuns(t) : isContactRun(t, l, m)}
    IN {[cat |-> "contact", s |-> m[1], e |-> m[2]] :
          m \in accounts \cup emails \cup handles \cup runs}

-----------------------------------------------------------------------------
(***************************************************************************)
(* Filter.Check                                                            *)
(***************************************************************************)
Patterns(words, cat) ==
    {[word |-> NormalizeWord(w), cat |-> cat] : w \in words} \ {[word |-> <<>>, cat |-> cat]}

\* the words of a configuration, by category
Keywords(cfg) ==
    Patterns(cfg.custom, "custom")
      \cup UNION {Patterns(Builtin[c], c) : c \in cfg.categories \cap DOMAIN Builtin}

Compile(cfg) ==
    [cfg |-> cfg, keywords |-> buildAutomaton(Keywords(cfg)),
     allow |-> buildAutomaton(Patterns(cfg.allow, "custom"))]

\* the hits that do not lie in an exempted word
Unexempted(hits, allowed) ==
    {h \in hits : ~\E a \in allowed : a.s <= h.s /\ h.e <= a.e}

Hits(f, t) ==
    LET l == linkView(t)
        hits == wordSpans(f.keywords, t)
                  \cup (IF "link" \in f.cfg.categories THEN linkHits(f.cfg.domains, l) ELSE {})
                  \cup (IF "contact" \in f.cfg.categories THEN contactHits(t, l) ELSE {})
    IN Unexempted(hits, wordSpans(f.allow, t))

\* Spans that overlap or touch are replaced by one mask.
Masked(t, hidden) ==
    LET rest[i \in 1..(Len(t) + 1)] ==
            IF i > Len(t) THEN <<>>
            ELSE IF i \notin hidden THEN <<t[i]>> \o rest[i + 1]
            ELSE IF i + 1 \in hidden THEN rest[i + 1]
            ELSE <<Mask>> \o rest[i + 1]
    IN rest[1]

\* a text as it is shown, with what is hidden
Shown(mode, t, hidden) ==
    IF hidden = {} THEN t
    ELSE IF mode = "whole" THEN <<Mask>> ELSE Masked(t, hidden)

Places(hits) == UNION {h.s..h.e : h \in hits}

Check(f, t) ==
    LET hidden == Places(IF f.cfg.enabled THEN Hits(f, t) ELSE {})
    IN [filtered |-> hidden # {}, masked |-> Shown(f.cfg.mode, t, hidden)]

-----------------------------------------------------------------------------
(***************************************************************************)
(* The settings: what an administrator submits, what is stored by key and  *)
(* what is read from it.                                                   *)
(***************************************************************************)
Trimmed(w) ==
    LET kept == {i \in DOMAIN w : w[i] # Space}
    IN IF kept = {} THEN <<>> ELSE SubSeq(w, Min(kept), Max(kept))

\* Of the words that normalise alike the first is kept.
cleanWords(list) ==
    LET words == SelectSeq([i \in DOMAIN list |-> Trimmed(list[i])], LAMBDA w : w # <<>>)
        first == {i \in DOMAIN words :
                    \A j \in 1..(i - 1) : NormalizeWord(words[j]) # NormalizeWord(words[i])}
    IN [ok |-> /\ \A i \in DOMAIN words : /\ Len(words[i]) <= MaxWordRunes
                                          /\ NormalizeWord(words[i]) # <<>>
               /\ Cardinality(first) <= MaxWords,
        words |-> {words[i] : i \in first}]

normalizeDomain(raw) ==
    LET folded == Trimmed([i \in DOMAIN raw |-> IF Fold(raw[i]) \in Letters
                                                THEN Fold(raw[i]) ELSE raw[i]])
        d == withoutDots(withoutPath(folded))
    IN [ok |-> /\ Dot \in ToSet(d) /\ ToSet(d) \subseteq Alnum \cup {Dot}
               /\ \A i \in 1..(Len(d) - 1) : ~(d[i] = Dot /\ d[i + 1] = Dot),
        domain |-> d]

cleanDomains(list) ==
    LET given == {w \in ToSet(list) : Trimmed(w) # <<>>}
        domains == {normalizeDomain(w).domain : w \in given}
    IN [ok |-> (\A w \in given : normalizeDomain(w).ok) /\ Cardinality(domains) <= MaxDomains,
        domains |-> domains]

ValidateFilterInput(in) ==
    [ok |-> /\ in.mode \in {"mask", "whole"}
            /\ in.categories \subseteq AllCategories
            /\ cleanWords(in.custom).ok /\ cleanWords(in.allow).ok
            /\ cleanDomains(in.domains).ok,
     cfg |-> [enabled |-> in.enabled, mode |-> in.mode, categories |-> in.categories,
              custom |-> cleanWords(in.custom).words, allow |-> cleanWords(in.allow).words,
              domains |-> cleanDomains(in.domains).domains]]

\* stored as one setting per key, the sets as lists
filterKV(cfg) ==
    [enabled |-> cfg.enabled, mode |-> cfg.mode, categories |-> cfg.categories,
     custom |-> SetToSeq(cfg.custom), allow |-> SetToSeq(cfg.allow),
     domains |-> SetToSeq(cfg.domains)]

\* A key that is missing or holds no valid value is read as its default.
parseFilterSettings(m) ==
    LET has(k, valid) == k \in DOMAIN m /\ m[k] \in valid
        words(k) == IF k \in DOMAIN m /\ cleanWords(m[k]).ok THEN cleanWords(m[k]).words ELSE {}
    IN [enabled |-> IF has("enabled", BOOLEAN) THEN m.enabled ELSE TRUE,
        mode |-> IF has("mode", {"mask", "whole"}) THEN m.mode ELSE "mask",
        categories |-> IF "categories" \in DOMAIN m THEN m.categories \cap AllCategories
                       ELSE AllCategories,
        custom |-> words("custom"), allow |-> words("allow"),
        domains |-> IF "domains" \in DOMAIN m
                    THEN {normalizeDomain(w).domain :
                            w \in {v \in ToSet(m.domains) : normalizeDomain(v).ok}}
                    ELSE DefaultDomains]

-----------------------------------------------------------------------------
(***************************************************************************)
(* The reference: what is to be hidden, by plain search.                   *)
(***************************************************************************)
\* Every place where a word occurs in the compact view, whatever others do
PlainSpans(pats, t) ==
    LET c == NormalizeWord(t)
        idx == compactIdx(t)
        end(f) == f[2] + Len(f[1].word) - 1
    IN {[cat |-> f[1].cat, s |-> idx[f[2]], e |-> idx[end(f)]] :
          f \in {g \in pats \X (1..Len(c)) :
                   /\ end(g) <= Len(c) /\ SubSeq(c, g[2], end(g)) = g[1].word
                   /\ isASCIIWord(g[1].word) => asciiBoundary(c, g[2], end(g))}}

\* The longest stretches of digits in which no three runes in a row are
\* without a digit and all that is not a digit is a separator
PlainRuns(t) ==
    LET stretch(i, j) ==
            /\ digitValue(t[i]) /\ digitValue(t[j])
            /\ \A k \in i..j : digitValue(t[k]) \/ isDigitSeparator(t[k])
            /\ \A k \in i..(j - 2) : \E x \in k..(k + 2) : digitValue(t[x])
        all == {m \in spansOf(t) : stretch(m[1], m[2])}
    IN {m \in all : ~\E w \in all : w # m /\ w[1] <= m[1] /\ m[2] <= w[2]}

\* the contacts of a text: those that are no digits, and the plain runs
PlainContacts(t, l) ==
    {h \in contactHits(t, l) : <<h.s, h.e>> \notin digitRuns(t)}
      \cup {[cat |-> "contact", s |-> m[1], e |-> m[2]] :
              m \in {r \in PlainRuns(t) : isContactRun(t, l, r)}}

\* what a submitted setting finds in a text t with the link view l
PlainHits(in, t, l) ==
    PlainSpans(Keywords([in EXCEPT !.custom = ToSet(@)]), t)
      \cup (IF "link" \in in.categories THEN linkHits(cleanDomains(in.domains).domains, l) ELSE {})
      \cup (IF "contact" \in in.categories THEN PlainContacts(t, l) ELSE {})

\* what a text should look like under a submitted setting
Enforced(in, t) ==
    Shown(in.mode, t,
          IF ~in.enabled THEN {}
          ELSE Places(Unexempted(PlainHits(in, t, linkView(t)),
                                 PlainSpans(Patterns(ToSet(in.allow), "custom"), t))))

\* the inputs and texts of which the filter makes something else
Differences ==
    UNION {LET f == Compile(parseFilterSettings(filterKV(ValidateFilterInput(in).cfg)))
           IN {<<in, t>> : t \in {u \in Texts : Check(f, u).masked # Enforced(in, u)}} :
             in \in {i \in Inputs : ValidateFilterInput(i).ok}}

=============================================================================
