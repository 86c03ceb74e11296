SPECIFICATION Spec
CONSTANTS
    Writers = {w1, w2}
    Groups = {g1}
    Users = {u1}
    None = None
PROPERTY GroupsNeverReplaced
