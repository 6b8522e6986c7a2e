----------------------------- MODULE PrefixCache -----------------------------
(***************************************************************************)
(* src/src/runtime/prefix_cache.hpp: which saved prompt a new request may  *)
(* start from, and which entry gives way when the cache is full.  A cache  *)
(* is a sequence of entries in vector order; the saved model state is left *)
(* out, since an entry's tokens determine it.                              *)
(***************************************************************************)
EXTENDS Naturals, Sequences, SequencesExt

(* An entry: [tokens, last_used, conversation]; NoConversation is the      *)
(* empty conversation_id.                                                  *)
NoConversation == ""

(* retain_conversation_prefix: replace the entry of the same conversation, *)
(* or else append, evicting the least recently used entry of a full cache. *)
Retain_Appends(entries, entry, capacity) ==
  IF Len(entries) = capacity THEN Append(Tail(entries), entry)
  ELSE Append(entries, entry)

Retain_EvictsFirst(entries, entry, capacity) ==
  LET same == {i \in DOMAIN entries : entry.conversation # NoConversation
                                      /\ entries[i].conversation = entry.conversation}
  IN  IF same # {} THEN [entries EXCEPT ![CHOOSE i \in same : TRUE] = entry]
      ELSE IF Len(entries) = capacity THEN Append(Tail(entries), entry)
      ELSE Append(entries, entry)

Retain(entries, entry, capacity) ==
  LET same == {i \in DOMAIN entries : entry.conversation # NoConversation
                                      /\ entries[i].conversation = entry.conversation}
      first == CHOOSE i \in same : \A j \in same : i <= j
      oldest == CHOOSE i \in DOMAIN entries : \A j \in DOMAIN entries :
                  \/ entries[i].last_used < entries[j].last_used
                  \/ entries[i].last_used = entries[j].last_used /\ i <= j
  IN  IF same # {} THEN ReplaceAt(entries, first, entry)
      ELSE IF Len(entries) = capacity THEN Append(RemoveAt(entries, oldest), entry)
      ELSE Append(entries, entry)

(* find_longest_full_prefix: the index of the first of the longest entries *)
(* that are a prefix of the prompt, or 0 when there is none.               *)
FindLongestFullPrefix(entries, prompt) ==
  LET full == {i \in DOMAIN entries : entries[i].tokens # << >>
                                      /\ IsPrefix(entries[i].tokens, prompt)}
  IN  IF full = {} THEN 0
      ELSE CHOOSE i \in full : \A j \in full :
             \/ Len(entries[i].tokens) > Len(entries[j].tokens)
             \/ Len(entries[i].tokens) = Len(entries[j].tokens) /\ i <= j
=============================================================================
