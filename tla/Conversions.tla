----------------------------- MODULE Conversions ----------------------------
(***************************************************************************)
(* What the two servers do to data on its way: the tokens the Lexer makes  *)
(* of a file, the folder of an upload, and the server key.  Characters are *)
(* ASCII codes.  Right_X(in, out) is what X is for.                        *)
(***************************************************************************)
EXTENDS Integers
LOCAL INSTANCE SequencesExt
LOCAL INSTANCE Bitwise

CONSTANTS Width,        \* characters fgets takes at most: 455
          ByteBits,     \* bits of a byte of the session key: 8
          KeyBytes,     \* bytes of the server key: 32
          HashValues,   \* the values of a size_t: 2^64
          Buckets       \* of the set of stop words

ASSUME ConversionAssumption == /\ Width \in Nat \ {0} /\ ByteBits \in Nat \ {0} /\ KeyBytes \in Nat
                               /\ HashValues \in Nat \ {0} /\ Buckets \in Nat \ {0}

-----------------------------------------------------------------------------
\* lexer.cpp.  The coordinator: lines as fgets cuts them, without their newline.
FgetsLines(file) ==
    LET lines[text \in Seq(Nat)] ==
          IF text = <<>> THEN <<>>
          ELSE LET newline == SelectInSeq(text, LAMBDA c : c = 10)
                   len == IF newline \in 1..Width THEN newline ELSE Min({Width, Len(text)})
                   line == SubSeq(text, 1, len)
               IN <<IF Last(line) = 10 THEN Front(line) ELSE line>> \o lines[SubSeq(text, len + 1, Len(text))]
    IN lines[file]

\* A worker: what stands between two spaces, the end of the line being one, without blanks
\* and punctuation and in small letters.
Cleaned(token) ==
    LET kept == SelectSeq(token, LAMBDA c : c \notin 9..13 \cup {32} /\ c \notin (33..47 \cup 58..64 \cup 91..96 \cup 123..126))
    IN [i \in DOMAIN kept |-> IF kept[i] \in 65..90 THEN kept[i] + 32 ELSE kept[i]]
\* Mutant: only a space ends a token, so that the last one of a line is lost.
TokensOfLineNoLast(line) ==
    LET seps == <<0>> \o SelectSeq([i \in DOMAIN line |-> i], LAMBDA i : line[i] = 32)
    IN [k \in 1..Len(seps) - 1 |-> SubSeq(line, seps[k] + 1, seps[k + 1] - 1)]
TokensOfLine(line) ==
    LET seps == <<0>> \o SelectSeq([i \in DOMAIN line |-> i], LAMBDA i : line[i] = 32) \o <<Len(line) + 1>>
    IN [k \in 1..Len(seps) - 1 |-> SubSeq(line, seps[k] + 1, seps[k + 1] - 1)]
Lexed(in) ==                            \* the file in[1], with the stop words in[2]
    LET tokens == FlattenSeq([l \in DOMAIN FgetsLines(in[1]) |-> TokensOfLine(FgetsLines(in[1])[l])])
    IN SelectSeq([t \in DOMAIN tokens |-> Cleaned(tokens[t])],
                 LAMBDA token : token # <<>> /\ token \notin in[2])

\* The words of the file, as long as its lines fit; a longer line is cut, and only cut: with
\* no stop words every letter comes through, in order.
Right_Lexed(in, out) ==
    LET text == Append(in[1], 10)
        ends == SelectSeq([i \in DOMAIN text |-> i], LAMBDA i : text[i] \in {32, 10})
        word(k) == Cleaned(SubSeq(text, IF k = 1 THEN 1 ELSE ends[k - 1] + 1, ends[k] - 1))
        words == SelectSeq([k \in DOMAIN ends |-> word(k)], LAMBDA w : w # <<>> /\ w \notin in[2])
        fits == \A i \in DOMAIN in[1] : i > Width => \E j \in i - Width..i : in[1][j] = 10
    IN /\ fits => out = words
       /\ in[2] = {} => FlattenSeq(out) = Cleaned(in[1])

\* splitLine, which nobody calls any more: from one space that find finds to the next.
SplitLine(line) ==
    LET from[start \in 1..Len(line) + 1] ==
          LET spaces == {i \in start..Len(line) : line[i] = 32} IN
          IF spaces = {} THEN <<SubSeq(line, start, Len(line))>>
          ELSE <<SubSeq(line, start, Min(spaces) - 1)>> \o from[Min(spaces) + 1]
    IN from[1]
Right_SplitLine(line, out) == out = TokensOfLine(line)

-----------------------------------------------------------------------------
\* stopwords.hpp: a set that hashes and compares without regard to case.
Lower(c) == IF c \in 65..90 THEN c + 32 ELSE c
ci_hash(word) == FoldLeft(LAMBDA h, c : (h * 31 + Lower(c)) % HashValues, 0, word)
ci_equal(lhs, rhs) == /\ Len(lhs) = Len(rhs)
                      /\ \A i \in DOMAIN lhs : Lower(lhs[i]) = Lower(rhs[i])
\* find looks in the bucket of the word's hash only; in[2] are the stop words.
IsStopWord(in) ==
    /\ in[1] # <<>>
    /\ \E stop \in in[2] : /\ ci_hash(stop) % Buckets = ci_hash(in[1]) % Buckets
                           /\ ci_equal(stop, in[1])
\* No spelling of a stop word gets by, and nothing else is held back.
Right_IsStopWord(in, out) ==
    LET letters(word) == [i \in DOMAIN word |-> IF word[i] \in 97..122 THEN word[i] - 32 ELSE word[i]]
    IN out <=> letters(in[1]) \in {letters(stop) : stop \in in[2]} \ {<<>>}

\* store.cpp and Engine::Search: the documents added under a key, for a query in any case;
\* in[1] are the pairs AddSearchIndex was called with, in[2] is the query.
Searched(in) ==
    LET searchIndex == FoldLeft(LAMBDA index, added : [index EXCEPT ![added[1]] = Append(@, added[2])],
                                [k \in {added[1] : added \in ToSet(in[1])} |-> <<>>], in[1])
        query == [i \in DOMAIN in[2] |-> Lower(in[2][i])]
    IN IF query \in DOMAIN searchIndex THEN searchIndex[query] ELSE <<>>
\* In the order they were added; what was added under a key with a capital is never found.
Right_Searched(in, out) ==
    LET found == SelectSeq(in[1], LAMBDA added : ci_equal(added[1], in[2]) /\ \A i \in DOMAIN added[1] : added[1][i] \notin 65..90)
    IN out = [i \in DOMAIN found |-> found[i][2]]

-----------------------------------------------------------------------------
\* The object store's Store: sessions come in as [key, expiresAt], each at a time now.
TryInsertNewSession(attempts) ==
    FoldLeft(LAMBDA s, a : IF a.key \in s.current \/ a.now > a.expiresAt
                             THEN [s EXCEPT !.answers = Append(@, FALSE)]
                             ELSE [current |-> s.current \cup {a.key}, answers |-> Append(s.answers, TRUE)],
             [current |-> {}, answers |-> <<>>], attempts).answers
\* A session is let in once, and not after it has expired, if a live attempt is ever made.
Right_TryInsertNewSession(attempts, out) ==
    \A i \in DOMAIN attempts :
      LET live == {j \in DOMAIN attempts : /\ attempts[j].key = attempts[i].key
                                           /\ attempts[j].now <= attempts[j].expiresAt}
      IN out[i] <=> live # {} /\ i = Min(live)

-----------------------------------------------------------------------------
\* placementmanager.cpp.  The session key is a UUID of version 7, whose first six bytes are
\* the time in ms, most significant first.
TimeStampMs(bytes) == FoldLeft(LAMBDA timestamp, byte : timestamp * 2 ^ ByteBits + byte, 0, bytes)

\* <chrono>: the days before a year and before a month of it, from 1970-01-01 on.
IsLeap(y) == y % 4 = 0 /\ (y % 100 # 0 \/ y % 400 = 0)
YearStart(y) == 365 * (y - 1970) + Cardinality({l \in 1970..y - 1 : IsLeap(l)})
MonthStart(y, m) == <<0, 31, 59, 90, 120, 151, 181, 212, 243, 273, 304, 334>>[m]
                    + (IF m > 2 /\ IsLeap(y) THEN 1 ELSE 0)

\* MsTimeStampToUTC_ writes year, month and day, and a time that nobody reads; with dayMs
\* milliseconds a day.
MsTimeStampToUTC(timestamp, dayMs) ==
    LET days  == timestamp \div dayMs
        year  == Max({y \in 1970..1970 + days \div 365 : YearStart(y) <= days})
        month == Max({m \in 1..12 : YearStart(year) + MonthStart(year, m) <= days})
    IN <<year, month, days - YearStart(year) - MonthStart(year, month) + 1>>

\* WeekdayFromUTC_ reads the date back; 1970-01-01 was a Thursday, and Sunday is 0.
WeekdayFromUTC(date) ==
    (YearStart(date[1]) + MonthStart(date[1], date[2]) + date[3] - 1 + 4) % 7
iso_number(weekday) == IF weekday = 0 THEN 7 ELSE weekday

FolderPlacement(in) ==                  \* the key's bytes in[1], with in[2] ms a day
    iso_number(WeekdayFromUTC(MsTimeStampToUTC(TimeStampMs(in[1]), in[2])))

\* One of seven folders: Thursday's for the first day, and each day the one after the
\* folder of the day before, through the ends of months and leap years.
Right_FolderPlacement(in, out) ==
    LET ms == TimeStampMs(in[1])
        earlier == <<(ms - in[2]) \div 2 ^ ByteBits, (ms - in[2]) % 2 ^ ByteBits>>
    IN /\ out \in 1..7
       /\ IF ms < in[2] THEN out = 4
          ELSE out = (FolderPlacement(<<earlier, in[2]>>) % 7) + 1

-----------------------------------------------------------------------------
\* crypto.hpp: hex[byte >> 4], hex[byte & 0x0f], as in make_object_id.
HexOf(bytes) ==
    LET hex(nibble) == IF nibble < 10 THEN 48 + nibble ELSE 97 + nibble - 10
    IN FlattenSeq([i \in DOMAIN bytes |-> <<hex(bytes[i] \div 16), hex(bytes[i] % 16)>>])

\* main.cpp, LoadServerKey: it wants 2 * KeyBytes hexadecimal digits, in either case.
LoadServerKey(env) ==
    LET nibble(c) == CASE c \in 48..57 -> c - 48 [] c \in 97..102 -> c - 97 + 10
                       [] c \in 65..70 -> c - 65 + 10 [] OTHER -> -1
        hi(i) == nibble(env[2 * i - 1])
        lo(i) == nibble(env[2 * i])
    IN IF Len(env) # 2 * KeyBytes THEN <<"throws">>
       ELSE IF \E i \in 1..KeyBytes : hi(i) < 0 \/ lo(i) < 0 THEN <<"throws">>
       ELSE <<"key", [i \in 1..KeyBytes |-> 16 * hi(i) + lo(i)]>>

\* It is the inverse of writing bytes as hex digits, and refuses whatever is no such text.
Right_LoadServerKey(env, out) ==
    LET small == [i \in DOMAIN env |-> IF env[i] \in 65..70 THEN env[i] + 32 ELSE env[i]]
    IN IF out[1] = "key" THEN HexOf(out[2]) = small
       ELSE \/ Len(env) # 2 * KeyBytes
            \/ \E i \in DOMAIN env : small[i] \notin {HexOf(<<b>>)[1] : b \in 0..255}

\* secure_compare looks at every byte, whatever it has seen.
SecureCompare(ab) ==
    LET a == ab[1] b == ab[2] IN
    /\ Len(a) = Len(b)
    /\ FoldLeft(LAMBDA diff, i : diff | (a[i] ^^ b[i]), 0, [i \in DOMAIN a |-> i]) = 0
Right_SecureCompare(ab, out) == out <=> ab[1] = ab[2]
=============================================================================
