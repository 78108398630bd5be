----------------------------- MODULE ConfigFile -----------------------------
(***************************************************************************)
(* config_load: the settings that a configuration file leaves behind.      *)
(* The sizes of the line, key and value buffers are left out.              *)
(***************************************************************************)
EXTENDS CharText

CONSTANTS IntKeys,   \* settings that config_save_value converts with atoi
          TextKeys,  \* settings that it copies
          Defaults   \* Defaults[key]: the value without a configuration file

Settings == IntKeys \cup TextKeys

ASSUME ConfigAssumption ==
    /\ IntKeys \cap TextKeys = {}
    /\ <<>> \notin Settings
    /\ Defaults = [key \in Settings |-> Defaults[key]]

\* What begins a comment.
Hash == "#"

Digits == <<"0", "1", "2">>
DigitValue(c) == (CHOOSE d \in DOMAIN Digits : Digits[d] = c) - 1
IsDigit(c) == \E d \in DOMAIN Digits : Digits[d] = c

\* Leading spaces, then digits up to the first other character.
atoi(s) ==
    LET step(st, c) ==
          IF st.over THEN st
          ELSE IF IsDigit(c)
          THEN [st EXCEPT !.n = 10 * @ + DigitValue(c), !.digits = TRUE]
          ELSE [st EXCEPT !.over = st.digits \/ c # SP]
    IN FoldLeft(step, [n |-> 0, digits |-> FALSE, over |-> FALSE], s).n

config_load_default == Defaults

\* Mutant: a setting that was made is kept.
config_save_value_once(key, value, conf) ==
    IF key \notin Settings \/ conf[key] # Defaults[key] THEN conf
    ELSE [conf EXCEPT ![key] = IF key \in IntKeys THEN atoi(value) ELSE value]

\* A key that is none of ours is reported and ignored.
config_save_value(key, value, conf) ==
    IF key \notin Settings THEN conf
    ELSE [conf EXCEPT ![key] = IF key \in IntKeys THEN atoi(value) ELSE value]

\* The rest of the line is not looked at.
Comment(st) == [st EXCEPT !.next = TRUE]

\* Only the first equals sign of a line ends the key; a later one is dropped.
EqualsSign(st) == [st EXCEPT !.is_key = FALSE]

\* One character of a line; next: a comment has begun.
ScanCharacter(st, c) ==
    IF st.next \/ c \in {TAB, CR, LF} THEN st
    ELSE IF c = Hash THEN Comment(st)
    ELSE IF c = "=" THEN EqualsSign(st)
    ELSE IF st.is_key
    THEN IF c = SP THEN st ELSE [st EXCEPT !.key = Append(@, c)]
    ELSE IF c = SP /\ st.value = <<>> THEN st
    ELSE [st EXCEPT !.value = Append(@, c)]

\* The scan of a line after each of its characters.
ScanLine(line) ==
    LET scan[n \in 0 .. Len(line)] ==
          IF n = 0 THEN [key |-> <<>>, value |-> <<>>, is_key |-> TRUE, next |-> FALSE]
          ELSE ScanCharacter(scan[n - 1], line[n])
    IN scan

\* fgets: where the lines of the file begin, and a line with its LF.
LineStarts(file) == {i \in DOMAIN file : i = 1 \/ file[i - 1] = LF}

LineAt(file, i) ==
    LET line == UpTo(file, i, {LF})
    IN IF i + Len(line) <= Len(file) THEN Append(line, LF) ELSE line

\* The settings after the line that begins at i.
LoadLine(file, i, conf) ==
    LET line == LineAt(file, i)
        st == ScanLine(line)[Len(line)]
    IN IF Len(line) > 1 /\ st.key # <<>> /\ st.value # <<>>
       THEN config_save_value(st.key, st.value, conf) ELSE conf

\* The settings after the lines that begin at n or before.
Loaded(file, conf) ==
    LET loaded[n \in 0 .. Len(file)] ==
          IF n = 0 THEN conf
          ELSE IF n \in LineStarts(file) THEN LoadLine(file, n, loaded[n - 1])
          ELSE loaded[n - 1]
    IN loaded

config_load(file, conf) == Loaded(file, conf)[Len(file)]

-----------------------------------------------------------------------------
(* Reference: what the file says, by its last line for a key *)

\* A line up to its comment, without its LF.
Setting(file, i) == UpTo(UpTo(file, i, {LF}), 1, {Hash})

SaysKey(file, i) == Without(UpTo(Setting(file, i), 1, {"="}), {SP, TAB, CR})

\* Behind the equals sign and the blanks that follow it, without tabs and CRs.
SaysValue(file, i) ==
    LET s == Setting(file, i)
        from == Len(UpTo(s, 1, {"="})) + 2
    IN Pick(s, {j \in from .. Len(s) :
                   s[j] \notin {TAB, CR} /\ \E k \in from .. j : s[k] \notin {SP, TAB, CR}})

RefConfig(file, conf, key) ==
    LET lines == {i \in LineStarts(file) :
                     SaysKey(file, i) = key /\ SaysValue(file, i) # <<>>}
        last == SaysValue(file, Max(lines))
    IN IF lines = {} THEN conf[key]
       ELSE IF key \in IntKeys THEN atoi(last) ELSE last

\* No value holds an equals sign, which the code would drop, nor a NUL, which
\* would end its line.
PlainValues(file) ==
    /\ \A i \in LineStarts(file) : LET s == Setting(file, i) IN
          \A j, k \in DOMAIN s : s[j] = "=" /\ s[k] = "=" => j = k
    /\ \A i \in DOMAIN file : file[i] # NUL
=============================================================================
