-------------------------- MODULE CallbackRegistry --------------------------
(***************************************************************************)
(* CallbackRegistry<T>, the handle-keyed store that the scheduler and the  *)
(* listener registries share.  A registry is the pair of                   *)
(*   - items, a function whose domain is the set of registered handles,    *)
(*   - the next handle, which the owner keeps and which only grows.        *)
(* Iteration order of the unordered_map is unspecified: an owner that      *)
(* iterates picks any remaining handle.                                    *)
(***************************************************************************)
EXTENDS Functions

\* Handle 0 is never allocated: it means "no registration".
NoHandle == 0
FirstHandle == 1

\* An empty _items map.
NoItems == [i \in {} |-> NoHandle]

\* Add(item, id): emplace, which keeps an item already stored under id.
Add(items, id, item) ==
  [i \in DOMAIN items \cup {id} |-> IF i \in DOMAIN items THEN items[i] ELSE item]

\* Remove(id) for every handle of a set; unknown handles are ignored.
Remove(items, ids) == Restrict(items, DOMAIN items \ ids)

=============================================================================
