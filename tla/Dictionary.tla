------------------------------ MODULE Dictionary ------------------------------
(***************************************************************************)
(* The dictionary of the word games (src/dictionary/c_dictionary.c) behind *)
(* its bindings for Lua and for the browser.  The words of a file, sorted, *)
(* lie one after the other in frames of a fixed size; a frame ends with a  *)
(* zero byte where the next word would begin.                              *)
(*                                                                         *)
(* A word is its rank in the alphabet; its length, frequency and metadata  *)
(* go with it.  Times, logging and the parsing of numbers are left out.    *)
(***************************************************************************)
EXTENDS Naturals, Sequences, FiniteSets, FiniteSetsExt, SequencesExt

CONSTANTS Words,         \* the ranks, from 1
          WordLen,       \* the length of each
          WordFreq,      \* its frequency, from 1
          WordMeta,      \* its metadata: 1 for a weird or vulgar word
          FrameSize,     \* sizeof(frame->data)
          FreshMemory,   \* subset of BOOLEAN: may memory from malloc be zero
          DictClients    \* subset of {"c", "web"}

\* What the constants must satisfy.
DictionaryAssumption ==
  /\ IsFiniteSet(Words) /\ Words \subseteq Nat \ {0} /\ WordLen \in [Words -> Nat \ {0}]
  /\ WordFreq \in [Words -> Nat \ {0}] /\ WordMeta \in [Words -> {0, 1}]
  /\ FreshMemory \subseteq BOOLEAN /\ FrameSize \in Nat
  /\ DictClients \subseteq {"c", "web"}
  /\ \A w \in Words : WordLen[w] + 7 <= FrameSize

VARIABLES dictClient, \* which bindings are used
          garbage,    \* what uninitialized memory happens to read as
          file,       \* the lines of words-en.txt
          line,       \* how many are read
          frames,     \* the list of frames
          handle,     \* "null", "building" or "dict"
          answer,     \* the word a script was given last; 0: none
          asked,      \* what it asked for
          dead        \* an assertion failed or a number was divided by zero

vars == <<dictClient, garbage, file, line, frames, handle, answer, asked, dead>>

\* get_default_params, and what a script may put in their place.
get_default_params == [min_length |-> 0, max_length |-> 99, min_freq |-> 0,
                       include_weird_or_vulgar |-> FALSE]
Params == [min_length : {0, 2}, max_length : {1, 2, 99}, min_freq : {0, 2},
           include_weird_or_vulgar : {FALSE}]

\* Files are sorted (build_word_list_w_freq.py) and name no word twice.
Sorted(ws) == \A i, j \in DOMAIN ws : i < j => ws[i] < ws[j]
Files == {ws \in UNION {[1 .. n -> Words] : n \in 0 .. Cardinality(Words)} : Sorted(ws)}

Init ==
  /\ dictClient \in DictClients /\ garbage \in Words
  /\ file = <<>> /\ line = 0 /\ frames = <<>>
  /\ handle = "null" /\ answer = 0 /\ asked = get_default_params /\ dead = "no"

-----------------------------------------------------------------------------
\* create_frame; zero says whether a zero byte lies where the words end.
create_frame(zero) == [words |-> <<>>, pos |-> 0, zero |-> zero]

\* The word, its zero, a float, one byte of metadata.
entry_size(w) == WordLen[w] + 1 + 4 + 1

\* add_word_to_frame refuses unless a zero fits in behind the entry.
fits(frame, w) == frame.pos + entry_size(w) + 1 <= FrameSize
add_word_to_frame(frame, w) ==
  [frame EXCEPT !.words = Append(@, w), !.pos = @ + entry_size(w)]

\* add_word_to_frames: into the last frame, or that one is ended and the entry
\* begins a new one.
add_word_to_frames(fs, w, zero) ==
  IF fits(Last(fs), w) THEN Front(fs) \o <<add_word_to_frame(Last(fs), w)>>
  ELSE Front(fs) \o <<[Last(fs) EXCEPT !.zero = TRUE],
                      add_word_to_frame(create_frame(zero), w)>>

\* build_word_dict_from_file: opens the file, or there is no dictionary.
dict_init(zero) ==
  /\ handle = "null" /\ frames = <<>>
  /\ file' \in Files
  /\ frames' = <<create_frame(zero)>> /\ handle' = "building"
  /\ UNCHANGED <<dictClient, garbage, line, answer, asked, dead>>

\* ... reads a line of it,
ReadLine(zero) ==
  /\ handle = "building" /\ line < Len(file)
  /\ line' = line + 1
  /\ frames' = add_word_to_frames(frames, file[line'], zero)
  /\ UNCHANGED <<dictClient, garbage, file, handle, answer, asked, dead>>

\* ... and returns at its end.
EndOfFile ==
  /\ handle = "building" /\ line = Len(file)
  /\ handle' = "dict"
  /\ UNCHANGED <<dictClient, garbage, file, line, frames, answer, asked, dead>>

-----------------------------------------------------------------------------
\* get_next_word_from_frame, until it returns false: the words, and one more if
\* no zero follows them.
scan(frame) == IF frame.zero THEN frame.words ELSE Append(frame.words, garbage)

first_word(frame) == IF scan(frame) = <<>> THEN 0 ELSE Head(scan(frame))

\* Mutant: a frame that begins with the word is passed over.
find_frame_containing_word_Skips(fs, w) ==
  LET after == {i \in 1 .. Len(fs) : first_word(fs[i]) >= w}
  IN IF after = {} THEN 0 ELSE Min(after) - 1

\* The frame before the first one that begins after the word; 0 is NULL, also
\* when there is no such frame.
find_frame_containing_word(fs, w) ==
  LET after == {i \in 1 .. Len(fs) : first_word(fs[i]) >= w}
  IN IF after = {} THEN 0
     ELSE IF first_word(fs[Min(after)]) = w THEN Min(after) ELSE Min(after) - 1

\* 0 stands for WORD_NOT_FOUND_FREQ.  Goes on while the words are smaller.
get_word_freq_in_frame(frame, w) ==
  LET s == scan(frame)
      stop == {i \in 1 .. Len(s) : s[i] >= w}
  IN IF stop # {} /\ s[Min(stop)] = w THEN WordFreq[w] ELSE 0

get_word_freq_in_dict(fs, w) ==
  LET i == find_frame_containing_word(fs, w)
  IN IF i = 0 THEN 0 ELSE get_word_freq_in_frame(fs[i], w)

dict_is_valid_word(fs, w) == get_word_freq_in_dict(fs, w) # 0

word_matches_params(p, w) ==
  /\ p.min_length <= WordLen[w] /\ WordLen[w] <= p.max_length
  /\ p.min_freq <= WordFreq[w]
  /\ p.include_weird_or_vulgar \/ WordMeta[w] = 0

\* The entries, as pairs of a frame and a place in it, in the order of the scan.
Entries(fs)    == UNION {{i} \X (1 .. Len(scan(fs[i]))) : i \in 1 .. Len(fs)}
Entry(fs, at)  == scan(fs[at[1]])[at[2]]
Before(at, be) == at[1] < be[1] \/ (at[1] = be[1] /\ at[2] < be[2])

\* get_words_matching_params counts the matching ones, get_word_matching_params_idx
\* counts idx of them down and takes the next.
matching(fs, p) == {at \in Entries(fs) : word_matches_params(p, Entry(fs, at))}
get_words_matching_params(fs, p) == Cardinality(matching(fs, p))
get_word_matching_params_idx(fs, p, idx) ==
  Entry(fs, CHOOSE at \in matching(fs, p) : Cardinality({be \in matching(fs, p) : Before(be, at)}) = idx)

\* The C dictionary is always ready; the browser's when its file has come.
dict_is_ready == dictClient = "c" \/ handle = "dict"

\* lua_dict_get_random_word of a script that looks whether the dictionary is
\* ready: default parameters or some of its own.
dict_get_random_word(p, r) ==
  /\ dict_is_ready /\ handle # "building"
  /\ asked' = p
  /\ LET n == get_words_matching_params(frames, p)
     IN CASE handle = "null" -> dead' = "assert" /\ UNCHANGED answer
          [] handle = "dict" /\ n = 0 -> dead' = "modulo zero" /\ UNCHANGED answer
          [] OTHER -> /\ answer' = get_word_matching_params_idx(frames, p, r % n)
                      /\ UNCHANGED dead
  /\ UNCHANGED <<dictClient, garbage, file, line, frames, handle>>

Next ==
  /\ dead = "no"
  /\ \/ \E zero \in FreshMemory : dict_init(zero) \/ ReadLine(zero)
     \/ EndOfFile
     \/ \E p \in Params, r \in 0 .. Cardinality(Words) - 1 : dict_get_random_word(p, r)

Spec == Init /\ [][Next]_vars

-----------------------------------------------------------------------------
\* Whether the memory behind the last word reads as a zero.
Ended == Last(frames).zero

\* While the memory behind the last word happens to be zero, a word is valid if
\* and only if it is in the file and its frame is not the last one, or it begins
\* that frame.
FoundUnlessInLastFrame ==
  handle = "dict" /\ Ended =>
    \A w \in Words :
      dict_is_valid_word(frames, w) <=>
        \E i \in 1 .. Len(frames) :
          /\ w \in ToSet(frames[i].words) /\ w \in ToSet(file)
          /\ i < Len(frames) \/ w = first_word(frames[i])

\* game_api_words.h: "Checks if word is in the dictionary."
ChecksIfWordIsInDictionary ==
  handle = "dict" /\ Ended => \A w \in ToSet(file) : dict_is_valid_word(frames, w)

Wanted(w) ==
  /\ w \in ToSet(file)
  /\ asked.min_length <= WordLen[w] /\ WordLen[w] <= asked.max_length
  /\ asked.min_freq <= WordFreq[w] /\ WordMeta[w] = 0

\* A random word is a word of the file that has what the script asked for, and
\* every such word can come up; a script that looks first whether the dictionary is
\* ready brings the game down only where no word fits, or where a client other
\* than the browser could not open the file.
RandomWordFits ==
  /\ handle = "dict" /\ Ended /\ answer # 0 /\ dead = "no" =>
       /\ Wanted(answer)
       /\ {w \in Words : Wanted(w)} = {Entry(frames, at) : at \in matching(frames, asked)}
  /\ dead = "modulo zero" /\ Ended => \A w \in Words : ~Wanted(w)
  /\ dead = "assert" => dictClient = "c" /\ handle = "null"

\* What a script learns of words, asked for one by one or drawn at random, is what
\* the file says, within the limits that the two parts name.
DictionaryAnswers == FoundUnlessInLastFrame /\ RandomWordFits
=============================================================================
